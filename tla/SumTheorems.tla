---------------------------- MODULE SumTheorems ----------------------------
(***************************************************************************)
(* Sums over finite sets: what SumFunctionOnSet(f, S), the sum of f[x] for *)
(* x in S, is for every f and S.  The sum is a recursive function on the   *)
(* subsets of S that takes its elements in an order nobody knows.  The     *)
(* lemmas say that the function exists, that any element can be taken      *)
(* first, and that nothing but the numbers counts.                         *)
(*                                                                         *)
(* Induction is by sets of natural numbers (LeastNumber, SetInduction),    *)
(* here on the size of the finite set.                                     *)
(***************************************************************************)
EXTENDS Naturals, Sequences, FiniteSetsExt, FiniteSetTheorems, WellFoundedInduction, TLAPS

\* A set of numbers that is not empty has a least element.
LEMMA LeastNumber ==
  ASSUME NEW T \in SUBSET Nat, T # {}
  PROVE  \E x \in T : \A y \in T : x <= y
  <1>1. PICK x \in T : \A y \in T : <<y, x>> \notin OpToRel(<, Nat)
    BY NatLessThanWellFounded, WFMin
  <1>2. \A y \in T : ~(y < x)
    BY <1>1 DEF OpToRel
  <1>3. QED  BY <1>2

\* A set of numbers that has 0, and the successors of its elements, has all.
LEMMA SetInduction ==
  ASSUME NEW A \in SUBSET Nat, 0 \in A, \A n \in A : n + 1 \in A
  PROVE  A = Nat
  <1> DEFINE T == Nat \ A
  <1> SUFFICES ASSUME T # {}  PROVE  FALSE
    OBVIOUS
  <1>1. PICK x \in T : \A y \in T : x <= y
    BY LeastNumber
  <1>2. x \in Nat /\ x # 0
    OBVIOUS
  <1>3. x - 1 \in Nat /\ (x - 1) + 1 = x /\ ~(x <= x - 1)
    BY <1>2
  <1>4. QED  BY <1>1, <1>3

-----------------------------------------------------------------------------
\* The element that a sum over s takes next.
Pick(s) == CHOOSE x \in s : TRUE

\* g sums f over the sets of D.
Sums(g, f, D) ==
    g = [s \in D |-> IF s = {} THEN 0 ELSE f[Pick(s)] + g[s \ {Pick(s)}]]

\* The sets of at most n elements of S.
UpTo(n, S) == {s \in SUBSET S : Cardinality(s) <= n}

\* A set that is not empty has its next element.
LEMMA PickIn == \A s : s # {} => Pick(s) \in s
  BY DEF Pick

\* What is left of a set when its next element is taken.
LEMMA RestFacts ==
  ASSUME NEW S, IsFiniteSet(S), NEW s \in SUBSET S, s # {}
  PROVE  /\ Pick(s) \in S
         /\ s \ {Pick(s)} \in SUBSET S
         /\ Cardinality(s) \in Nat
         /\ Cardinality(s \ {Pick(s)}) = Cardinality(s) - 1
         /\ Cardinality(s \ {Pick(s)}) \in Nat
  BY PickIn, FS_Subset, FS_RemoveElement, FS_CardinalityType

\* Sums exist.
LEMMA SumsExist ==
  ASSUME NEW S, IsFiniteSet(S), NEW f
  PROVE  \E g : Sums(g, f, SUBSET S)
  <1> DEFINE A == {n \in Nat : \E g : Sums(g, f, UpTo(n, S))}
  <1>0. \A s \in SUBSET S : IsFiniteSet(s) /\ Cardinality(s) \in Nat
    BY FS_Subset, FS_CardinalityType
  <1>1. 0 \in A
    <2> DEFINE g == [s \in UpTo(0, S) |-> 0]
    <2>1. \A s \in UpTo(0, S) : s = {}
      BY <1>0, FS_EmptySet DEF UpTo
    <2>2. Sums(g, f, UpTo(0, S))
      BY <2>1 DEF Sums
    <2>3. QED  BY <2>2
  <1>2. ASSUME NEW n \in A  PROVE  n + 1 \in A
    <2>1. PICK g : Sums(g, f, UpTo(n, S))
      OBVIOUS
    <2> DEFINE h == [s \in UpTo(n + 1, S) |->
                        IF s = {} THEN 0 ELSE f[Pick(s)] + g[s \ {Pick(s)}]]
    <2>2. ASSUME NEW t \in UpTo(n, S)  PROVE  h[t] = g[t]
      <3>1. t \in UpTo(n + 1, S)
        BY <1>0 DEF UpTo
      <3>2. QED  BY <2>1, <3>1 DEF Sums
    <2>3. ASSUME NEW s \in UpTo(n + 1, S), s # {}  PROVE  s \ {Pick(s)} \in UpTo(n, S)
      BY <2>3, RestFacts DEF UpTo
    <2>4. h = [s \in UpTo(n + 1, S) |->
                  IF s = {} THEN 0 ELSE f[Pick(s)] + h[s \ {Pick(s)}]]
      BY <2>2, <2>3
    <2>5. Sums(h, f, UpTo(n + 1, S))
      BY <2>4 DEF Sums
    <2>6. QED  BY <2>5
  <1>3. A = Nat
    <2> HIDE DEF A
    <2>1. A \in SUBSET Nat
      BY DEF A
    <2>2. QED  BY <1>1, <1>2, <2>1, SetInduction
  <1>4. Cardinality(S) \in A
    BY <1>3, <1>0
  <1>5. UpTo(Cardinality(S), S) = SUBSET S
    BY FS_Subset DEF UpTo
  <1>6. QED  BY <1>4, <1>5

\* The sum over a set is that of its parts, whatever set it is part of.
LEMMA SumsAgree ==
  ASSUME NEW S, IsFiniteSet(S), NEW T \in SUBSET S, NEW f, NEW g, NEW h,
         Sums(g, f, SUBSET S), Sums(h, f, SUBSET T)
  PROVE  g[T] = h[T]
  <1> DEFINE A == {n \in Nat : \A s \in SUBSET T : Cardinality(s) = n => g[s] = h[s]}
  <1>0. \A s \in SUBSET T : IsFiniteSet(s) /\ Cardinality(s) \in Nat
    BY FS_Subset, FS_CardinalityType
  <1>1. 0 \in A
    <2>1. \A s \in SUBSET T : Cardinality(s) = 0 => s = {}
      BY <1>0, FS_EmptySet
    <2>2. g[{}] = 0 /\ h[{}] = 0
      BY DEF Sums
    <2>3. QED  BY <2>1, <2>2
  <1>2. ASSUME NEW n \in A  PROVE  n + 1 \in A
    <2> SUFFICES ASSUME NEW s \in SUBSET T, Cardinality(s) = n + 1  PROVE  g[s] = h[s]
      OBVIOUS
    <2>1. n \in Nat /\ s # {}
      <3>1. n \in Nat /\ n + 1 # 0
        OBVIOUS
      <3>2. QED  BY <3>1, FS_EmptySet
    <2>2. s \ {Pick(s)} \in SUBSET T /\ Cardinality(s \ {Pick(s)}) = n
      BY <2>1, RestFacts
    <2>3. g[s \ {Pick(s)}] = h[s \ {Pick(s)}]
      BY <2>2
    <2>4. /\ g[s] = f[Pick(s)] + g[s \ {Pick(s)}]
          /\ h[s] = f[Pick(s)] + h[s \ {Pick(s)}]
      BY <2>1 DEF Sums
    <2>5. QED  BY <2>3, <2>4
  <1>3. A = Nat
    <2> HIDE DEF A
    <2>1. A \in SUBSET Nat
      BY DEF A
    <2>2. QED  BY <1>1, <1>2, <2>1, SetInduction
  <1>4. QED  BY <1>0, <1>3

\* The sum of f over S is the one that takes Pick(S) first.
LEMMA SumStep ==
  ASSUME NEW S, IsFiniteSet(S), NEW f
  PROVE  /\ SumFunctionOnSet(f, {}) = 0
         /\ S # {} => SumFunctionOnSet(f, S) =
                          f[Pick(S)] + SumFunctionOnSet(f, S \ {Pick(S)})
  <1>1. ASSUME NEW T, IsFiniteSet(T)
        PROVE  \E g : Sums(g, f, SUBSET T) /\ SumFunctionOnSet(f, T) = g[T]
    <2> DEFINE g == CHOOSE k : Sums(k, f, SUBSET T)
    <2>1. Sums(g, f, SUBSET T)
      BY <1>1, SumsExist
    <2>2. SumFunctionOnSet(f, T) = g[T]
      BY DEF SumFunctionOnSet, FoldFunctionOnSet, MapThenFoldSet, Sums, Pick
    <2>3. QED  BY <2>1, <2>2
  <1>2. SumFunctionOnSet(f, {}) = 0
    <2>1. PICK g : Sums(g, f, SUBSET {}) /\ SumFunctionOnSet(f, {}) = g[{}]
      BY <1>1, FS_EmptySet
    <2>2. QED  BY <2>1 DEF Sums
  <1>3. ASSUME S # {}
        PROVE  SumFunctionOnSet(f, S) = f[Pick(S)] + SumFunctionOnSet(f, S \ {Pick(S)})
    <2> DEFINE T == S \ {Pick(S)}
    <2>1. IsFiniteSet(T) /\ T \in SUBSET S
      BY FS_Subset
    <2>2. PICK g : Sums(g, f, SUBSET S) /\ SumFunctionOnSet(f, S) = g[S]
      BY <1>1
    <2>3. PICK h : Sums(h, f, SUBSET T) /\ SumFunctionOnSet(f, T) = h[T]
      BY <1>1, <2>1
    <2>4. g[T] = h[T]
      BY <2>1, <2>2, <2>3, SumsAgree
    <2>5. g[S] = f[Pick(S)] + g[T]
      BY <1>3, <2>2 DEF Sums
    <2>6. QED  BY <2>2, <2>3, <2>4, <2>5
  <1>4. QED  BY <1>2, <1>3

\* The sum of numbers is a number.
LEMMA SumNat ==
  ASSUME NEW S, IsFiniteSet(S), NEW f, \A x \in S : f[x] \in Nat
  PROVE  SumFunctionOnSet(f, S) \in Nat
  <1> DEFINE Sum(s) == SumFunctionOnSet(f, s)
             A == {n \in Nat : \A s \in SUBSET S : Cardinality(s) = n => Sum(s) \in Nat}
  <1>0. \A s \in SUBSET S : IsFiniteSet(s) /\ Cardinality(s) \in Nat
    BY FS_Subset, FS_CardinalityType
  <1>1. 0 \in A
    <2>1. \A s \in SUBSET S : Cardinality(s) = 0 => s = {}
      BY <1>0, FS_EmptySet
    <2>2. Sum({}) = 0
      BY SumStep
    <2>3. QED  BY <2>1, <2>2
  <1>2. ASSUME NEW n \in A  PROVE  n + 1 \in A
    <2> SUFFICES ASSUME NEW s \in SUBSET S, Cardinality(s) = n + 1  PROVE  Sum(s) \in Nat
      OBVIOUS
    <2>1. n \in Nat /\ s # {}
      <3>1. n \in Nat /\ n + 1 # 0
        OBVIOUS
      <3>2. QED  BY <3>1, FS_EmptySet
    <2>2. s \ {Pick(s)} \in SUBSET S /\ Cardinality(s \ {Pick(s)}) = n
      BY <2>1, RestFacts
    <2>3. Sum(s \ {Pick(s)}) \in Nat
      BY <2>2
    <2>4. Sum(s) = f[Pick(s)] + Sum(s \ {Pick(s)})
      BY <1>0, <2>1, SumStep
    <2>5. f[Pick(s)] \in Nat
      BY <2>1, PickIn
    <2> HIDE DEF Sum
    <2>6. QED  BY <2>3, <2>4, <2>5
  <1>3. A = Nat
    <2> HIDE DEF A
    <2>1. A \in SUBSET Nat
      BY DEF A
    <2>2. QED  BY <1>1, <1>2, <2>1, SetInduction
  <1>4. Cardinality(S) \in A
    BY <1>0, <1>3
  <1>5. QED  BY <1>4

\* Any element can be taken first.
LEMMA SumAnyFirst ==
  ASSUME NEW S, IsFiniteSet(S), NEW f, \A y \in S : f[y] \in Nat, NEW x \in S
  PROVE  SumFunctionOnSet(f, S) = f[x] + SumFunctionOnSet(f, S \ {x})
  <1> DEFINE Sum(s) == SumFunctionOnSet(f, s)
             A == {n \in Nat : \A s \in SUBSET S : Cardinality(s) = n =>
                                  \A y \in s : Sum(s) = f[y] + Sum(s \ {y})}
  <1>0. \A s \in SUBSET S : /\ IsFiniteSet(s) /\ Cardinality(s) \in Nat
                            /\ Sum(s) \in Nat
    BY FS_Subset, FS_CardinalityType, SumNat
  <1>1. 0 \in A
    <2>1. \A s \in SUBSET S : Cardinality(s) = 0 => s = {}
      BY <1>0, FS_EmptySet
    <2>2. QED  BY <2>1
  <1>2. ASSUME NEW n \in A  PROVE  n + 1 \in A
    <2> SUFFICES ASSUME NEW s \in SUBSET S, Cardinality(s) = n + 1, NEW y \in s
                 PROVE  Sum(s) = f[y] + Sum(s \ {y})
      OBVIOUS
    <2> DEFINE c == Pick(s)
    <2>1. s # {} /\ c \in s
      BY PickIn
    <2>2. Sum(s) = f[c] + Sum(s \ {c})
      BY <1>0, <2>1, SumStep
    <2>3. CASE y = c
      BY <2>2, <2>3
    <2>4. CASE y # c
      <3>1. /\ s \ {c} \in SUBSET S /\ s \ {y} \in SUBSET S
            /\ y \in s \ {c} /\ c \in s \ {y}
            /\ (s \ {c}) \ {y} = (s \ {y}) \ {c}
            /\ (s \ {c}) \ {y} \in SUBSET S
        BY <2>1, <2>4
      <3>2. Cardinality(s \ {c}) = n /\ Cardinality(s \ {y}) = n
        BY <1>0, <2>1, FS_RemoveElement
      <3>3. Sum(s \ {c}) = f[y] + Sum((s \ {c}) \ {y})
        BY <3>1, <3>2
      <3>4. Sum(s \ {y}) = f[c] + Sum((s \ {y}) \ {c})
        BY <3>1, <3>2
      <3>5. f[c] \in Nat /\ f[y] \in Nat /\ Sum((s \ {c}) \ {y}) \in Nat
        BY <1>0, <2>1, <3>1
      <3>6. Sum((s \ {y}) \ {c}) = Sum((s \ {c}) \ {y})
        BY <3>1
      <3> HIDE DEF Sum, c
      <3>7. QED  BY <2>2, <3>3, <3>4, <3>5, <3>6
    <2>5. QED  BY <2>3, <2>4
  <1>3. A = Nat
    <2> HIDE DEF A
    <2>1. A \in SUBSET Nat
      BY DEF A
    <2>2. QED  BY <1>1, <1>2, <2>1, SetInduction
  <1>4. Cardinality(S) \in A
    BY <1>0, <1>3
  <1>5. QED  BY <1>4

\* Only the numbers count: if some h gives each element of S one of T with the
\* same number, and no two the same one, the sums are equal.
LEMMA SumReindexed ==
  ASSUME NEW S, IsFiniteSet(S), NEW T, NEW f, NEW g,
         \E h \in Bijection(S, T) : \A x \in S : f[x] \in Nat /\ g[h[x]] = f[x]
  PROVE  SumFunctionOnSet(g, T) = SumFunctionOnSet(f, S)
  <1> PICK h \in Bijection(S, T) : \A x \in S : f[x] \in Nat /\ g[h[x]] = f[x]
    OBVIOUS
  <1> DEFINE Image(s) == {h[x] : x \in s}
             A == {n \in Nat : \A s \in SUBSET S : Cardinality(s) = n =>
                      SumFunctionOnSet(g, Image(s)) = SumFunctionOnSet(f, s)}
  <1>a. /\ h \in [S -> T] /\ \A x, y \in S : h[x] = h[y] => x = y
        /\ Image(S) = T
    <2>1. h \in [S -> T] /\ \A x, y \in S : h[x] = h[y] => x = y
      BY DEF Bijection, Injection, IsInjective
    <2>2. \A t \in T : \E s \in S : h[s] = t
      BY DEF Bijection, Surjection
    <2>3. QED  BY <2>1, <2>2
  <1>0. IsFiniteSet(T) /\ \A s \in SUBSET S : /\ IsFiniteSet(s) /\ Cardinality(s) \in Nat
                            /\ Image(s) \in SUBSET T
    BY <1>a, FS_Subset, FS_CardinalityType, FS_Bijection DEF ExistsBijection
  <1>1. 0 \in A
    <2>1. \A s \in SUBSET S : Cardinality(s) = 0 => s = {} /\ Image(s) = {}
      BY <1>0, FS_EmptySet
    <2>2. QED  BY <2>1, SumStep, FS_EmptySet
  <1>2. ASSUME NEW n \in A  PROVE  n + 1 \in A
    <2> SUFFICES ASSUME NEW s \in SUBSET S, Cardinality(s) = n + 1
                 PROVE  SumFunctionOnSet(g, Image(s)) = SumFunctionOnSet(f, s)
      OBVIOUS
    <2>1. PICK x \in s : TRUE
      <3>1. n \in Nat /\ n + 1 # 0
        OBVIOUS
      <3>2. QED  BY <3>1, FS_EmptySet
    <2>2. /\ s \ {x} \in SUBSET S /\ Cardinality(s \ {x}) = n
          /\ IsFiniteSet(s) /\ IsFiniteSet(Image(s))
      <3>1. IsFiniteSet(s) /\ Image(s) \in SUBSET T
        BY <1>0
      <3>2. Cardinality(s \ {x}) = Cardinality(s) - 1
        BY <3>1, FS_RemoveElement
      <3>3. IsFiniteSet(Image(s))
        BY <1>0, <3>1, FS_Subset
      <3>4. QED  BY <3>1, <3>2, <3>3
    <2>3. Image(s \ {x}) = Image(s) \ {h[x]} /\ h[x] \in Image(s)
      BY <1>a
    <2>4. SumFunctionOnSet(f, s) = f[x] + SumFunctionOnSet(f, s \ {x})
      BY <2>2, SumAnyFirst
    <2>5. SumFunctionOnSet(g, Image(s)) = g[h[x]] + SumFunctionOnSet(g, Image(s) \ {h[x]})
      BY <2>2, <2>3, SumAnyFirst
    <2>6. SumFunctionOnSet(g, Image(s \ {x})) = SumFunctionOnSet(f, s \ {x})
      BY <2>2
    <2>7. QED  BY <2>3, <2>4, <2>5, <2>6
  <1>3. A = Nat
    <2> HIDE DEF A
    <2>1. A \in SUBSET Nat
      BY DEF A
    <2>2. QED  BY <1>1, <1>2, <2>1, SetInduction
  <1>4. Cardinality(S) \in A
    BY <1>0, <1>3
  <1>5. QED  BY <1>4, <1>a

-----------------------------------------------------------------------------
(* Sums over the indices of a sequence that grows.                         *)

\* A part that stays as it is keeps its sum.
LEMMA SumUnchanged ==
  ASSUME NEW S, IsFiniteSet(S), NEW f, NEW g,
         \A p \in S : f[p] \in Nat /\ g[p] = f[p]
  PROVE  SumFunctionOnSet(g, S) = SumFunctionOnSet(f, S)
  <1> DEFINE h == [p \in S |-> p]
  <1>1. h \in Bijection(S, S)
    BY DEF Bijection, Injection, Surjection, IsInjective
  <1>2. \A p \in S : f[p] \in Nat /\ g[h[p]] = f[p]
    OBVIOUS
  <1> HIDE DEF h
  <1>3. QED  BY <1>1, <1>2, SumReindexed

\* A new element adds its number.
LEMMA SumAdded ==
  ASSUME NEW S, IsFiniteSet(S), NEW x, x \notin S, NEW f, NEW g,
         \A p \in S : f[p] \in Nat /\ g[p] = f[p], g[x] \in Nat
  PROVE  SumFunctionOnSet(g, S \cup {x}) = g[x] + SumFunctionOnSet(f, S)
  <1>1. IsFiniteSet(S \cup {x}) /\ (S \cup {x}) \ {x} = S
    BY FS_AddElement
  <1>2. \A p \in S \cup {x} : g[p] \in Nat
    OBVIOUS
  <1>3. SumFunctionOnSet(g, S \cup {x}) = g[x] + SumFunctionOnSet(g, (S \cup {x}) \ {x})
    BY <1>1, <1>2, SumAnyFirst
  <1>4. QED  BY <1>1, <1>3, SumUnchanged

\* Moving a sequence by one leaves its sum alone.
LEMMA SumShifted ==
  ASSUME NEW S \in SUBSET Nat, IsFiniteSet(S), NEW f, NEW g,
         \A p \in S : f[p] \in Nat /\ g[p + 1] = f[p]
  PROVE  LET T == {p + 1 : p \in S}
         IN  /\ IsFiniteSet(T)
             /\ SumFunctionOnSet(g, T) = SumFunctionOnSet(f, S)
             /\ \A p \in T : g[p] \in Nat
  <1> DEFINE T == {p + 1 : p \in S}
             h == [p \in S |-> p + 1]
  <1>1. h \in Bijection(S, T)
    <2>1. \A p, q \in S : p + 1 = q + 1 => p = q
      OBVIOUS
    <2>2. QED  BY <2>1 DEF Bijection, Injection, Surjection, IsInjective
  <1>2. IsFiniteSet(T)
    BY <1>1, FS_Bijection DEF ExistsBijection
  <1>3. \E k \in Bijection(S, T) : \A p \in S : f[p] \in Nat /\ g[k[p]] = f[p]
    <2>1. \A p \in S : f[p] \in Nat /\ g[h[p]] = f[p]
      OBVIOUS
    <2> HIDE DEF h, T
    <2>2. QED  BY <1>1, <2>1
  <1>4. SumFunctionOnSet(g, T) = SumFunctionOnSet(f, S)
    <2> HIDE DEF T
    <2>1. QED  BY <1>3, SumReindexed
  <1>5. QED  BY <1>2, <1>4

\* Some of the indices up to n are a finite set.
LEMMA IndicesFinite ==
  ASSUME NEW n \in Nat, NEW S \in SUBSET (1..n)
  PROVE  IsFiniteSet(1..n) /\ IsFiniteSet(S) /\ S \in SUBSET Nat /\ n + 1 \notin S
  <1>1. IsFiniteSet(1..n)
    <2>1. 1 \in Int /\ n \in Int
      OBVIOUS
    <2>2. QED  BY <2>1, FS_Interval
  <1>2. IsFiniteSet(S)
    BY <1>1, FS_Subset
  <1>3. QED  BY <1>1, <1>2

\* A number put at the end of a sequence adds to every sum that has its index,
\* and to no other.
LEMMA SumAppended ==
  ASSUME NEW s \in Seq(Nat), NEW c \in Nat, NEW S \in SUBSET DOMAIN s
  PROVE  LET t == Append(s, c)
         IN  /\ SumFunctionOnSet(t, S) = SumFunctionOnSet(s, S)
             /\ SumFunctionOnSet(t, S \cup {Len(s) + 1}) = c + SumFunctionOnSet(s, S)
             /\ SumFunction(t) = c + SumFunction(s)
  <1> DEFINE t == Append(s, c)
             n == Len(s)
  <1>1. /\ n \in Nat /\ DOMAIN s = 1..n /\ DOMAIN t = 1..(n + 1)
        /\ \A p \in 1..n : s[p] \in Nat /\ t[p] = s[p]
        /\ t[n + 1] = c
    OBVIOUS
  <1>2. /\ n + 1 \notin 1..n /\ n + 1 \notin S /\ 1..(n + 1) = (1..n) \cup {n + 1}
        /\ IsFiniteSet(1..n) /\ IsFiniteSet(S)
    <2>1. 1..(n + 1) = (1..n) \cup {n + 1} /\ n + 1 \notin 1..n
      BY <1>1
    <2> HIDE DEF n
    <2>2. QED  BY <1>1, <2>1, IndicesFinite
  <1> HIDE DEF t, n
  <1>3. \A p \in S : s[p] \in Nat /\ t[p] = s[p]
    BY <1>1
  <1>4. SumFunctionOnSet(t, S) = SumFunctionOnSet(s, S)
    BY <1>2, <1>3, SumUnchanged
  <1>5. SumFunctionOnSet(t, S \cup {n + 1}) = c + SumFunctionOnSet(s, S)
    BY <1>1, <1>2, <1>3, SumAdded
  <1>6. SumFunctionOnSet(t, (1..n) \cup {n + 1}) = c + SumFunctionOnSet(s, 1..n)
    BY <1>1, <1>2, SumAdded
  <1>7. SumFunction(t) = c + SumFunction(s)
    BY <1>1, <1>2, <1>6 DEF SumFunction
  <1>8. QED  BY <1>4, <1>5, <1>7 DEF t, n

\* A number put before a sequence moves the indices by one, and adds to every
\* sum that has the first.
LEMMA SumPrepended ==
  ASSUME NEW s \in Seq(Nat), NEW c \in Nat, NEW S \in SUBSET DOMAIN s
  PROVE  LET t == <<c>> \o s
         IN  /\ SumFunctionOnSet(t, {p + 1 : p \in S}) = SumFunctionOnSet(s, S)
             /\ SumFunction(t) = c + SumFunction(s)
  <1> DEFINE t == <<c>> \o s
             n == Len(s)
             T == {p + 1 : p \in 1..n}
  <1>1. /\ n \in Nat /\ DOMAIN s = 1..n /\ DOMAIN t = 1..(n + 1)
        /\ \A p \in 1..n : s[p] \in Nat /\ t[p + 1] = s[p]
        /\ t[1] = c
    OBVIOUS
  <1>2. IsFiniteSet(1..n) /\ IsFiniteSet(S) /\ S \in SUBSET Nat /\ 1..n \in SUBSET Nat
    <2> HIDE DEF n
    <2>1. QED  BY <1>1, IndicesFinite
  <1>3. 1..(n + 1) = T \cup {1} /\ 1 \notin T
    <2>1. ASSUME NEW q \in 1..(n + 1), q # 1  PROVE  q \in T
      <3>1. q - 1 \in 1..n /\ q = (q - 1) + 1
        BY <1>1, <2>1
      <3>2. QED  BY <3>1
    <2>2. QED  BY <1>1, <2>1
  <1> HIDE DEF t, n
  <1>4. \A p \in S : s[p] \in Nat /\ t[p + 1] = s[p]
    BY <1>1
  <1>5. SumFunctionOnSet(t, {p + 1 : p \in S}) = SumFunctionOnSet(s, S)
    BY <1>2, <1>4, SumShifted
  <1>6. /\ IsFiniteSet(T) /\ SumFunctionOnSet(t, T) = SumFunctionOnSet(s, 1..n)
        /\ \A p \in T : t[p] \in Nat
    BY <1>1, <1>2, SumShifted
  <1>7. SumFunctionOnSet(t, T \cup {1}) = c + SumFunctionOnSet(t, T)
    <2> HIDE DEF T
    <2>1. \A p \in T : t[p] \in Nat /\ t[p] = t[p]
      BY <1>6
    <2>2. QED  BY <1>1, <1>3, <1>6, <2>1, SumAdded
  <1>8. SumFunction(t) = c + SumFunction(s)
    BY <1>1, <1>3, <1>6, <1>7 DEF SumFunction
  <1>9. QED  BY <1>5, <1>8 DEF t
=============================================================================
