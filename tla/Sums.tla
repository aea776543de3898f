-------------------------------- MODULE Sums --------------------------------
(***************************************************************************)
(* Sums of numbers over finite sets, as the listing and the history's      *)
(* summary make them: SumFunctionOnSet(f, S) is the sum of f[x] for x \in  *)
(* S.  It is defined by recursion, taking an element at a time; here is    *)
(* shown that it may be any element, and what follows of that.             *)
(***************************************************************************)
EXTENDS Integers, Functions, FiniteSetTheorems, TLAPS

Pick(S) == CHOOSE x \in S : TRUE

(* g sums f over each subset of S, by taking one element after another.    *)
Sums(f, S, g) ==
  g = [T \in SUBSET S |-> IF T = {} THEN 0 ELSE f[Pick(T)] + g[T \ {Pick(T)}]]

(* Induction on finite sets, for a set of good ones.                       *)
LEMMA SetInduction ==
  ASSUME NEW S, IsFiniteSet(S), NEW Good,
         \A T \in SUBSET S : (\A U \in SUBSET T : U # T => U \in Good) => T \in Good
  PROVE  S \in Good
<1> DEFINE Bad == {T \in SUBSET S : T \notin Good}
<1> SUFFICES ASSUME S \notin Good PROVE FALSE
  OBVIOUS
<1>1. IsWellFoundedOn(StrictSubsetOrdering(S), SUBSET S)
  <2>1. FiniteSubsetsOf(S) = SUBSET S
    BY FS_FiniteSubsetsOfFinite
  <2>2. IsWellFoundedOn(StrictSubsetOrdering(S), FiniteSubsetsOf(S))
    BY FS_StrictSubsetOrderingWellFounded, Zenon
  <2>3. QED
    BY <2>1, <2>2, Zenon
<1>2. Bad \subseteq SUBSET S /\ Bad # {}
  OBVIOUS
<1>3. PICK T \in Bad : \A U \in Bad : <<U, T>> \notin StrictSubsetOrdering(S)
  <2> HIDE DEF Bad
  <2>1. QED
    BY <1>1, <1>2, WFMin
<1>4. \A U \in SUBSET T : U # T => U \in Good
  BY <1>3 DEF StrictSubsetOrdering
<1>5. QED
  BY <1>3, <1>4

LEMMA SumIs ==
  ASSUME NEW f, NEW S
  PROVE  SumFunctionOnSet(f, S) = (CHOOSE g : Sums(f, S, g))[S]
BY DEF SumFunctionOnSet, FoldFunctionOnSet, MapThenFoldSet, Sums, Pick

LEMMA PickType ==
  ASSUME NEW S, S # {}
  PROVE  Pick(S) \in S /\ S \ {Pick(S)} \in SUBSET S /\ S \ {Pick(S)} # S
<1>1. \E x : x \in S
  OBVIOUS
<1>2. Pick(S) \in S
  BY <1>1 DEF Pick
<1>3. QED
  BY <1>2

(* Two such functions agree.                                               *)
LEMMA SumsAgree ==
  ASSUME NEW f, NEW S, NEW T, NEW g, NEW h, Sums(f, S, g), Sums(f, T, h),
         NEW A, IsFiniteSet(A), A \subseteq S, A \subseteq T
  PROVE  g[A] = h[A]
<1> DEFINE Good == {B \in SUBSET A : g[B] = h[B]}
<1>1. ASSUME NEW B \in SUBSET A, \A U \in SUBSET B : U # B => U \in Good
      PROVE  B \in Good
  <2>1. /\ g[B] = IF B = {} THEN 0 ELSE f[Pick(B)] + g[B \ {Pick(B)}]
        /\ h[B] = IF B = {} THEN 0 ELSE f[Pick(B)] + h[B \ {Pick(B)}]
    <3>1. B \in SUBSET S /\ B \in SUBSET T
      OBVIOUS
    <3>2. QED
      BY <3>1 DEF Sums
  <2>2. B # {} => g[B \ {Pick(B)}] = h[B \ {Pick(B)}]
    BY <1>1, PickType
  <2>3. QED
    BY <2>1, <2>2
<1>2. A \in Good
  <2> HIDE DEF Good
  <2>1. QED
    BY <1>1, SetInduction
<1>3. QED
  BY <1>2

(* There is one for each finite set.                                       *)
LEMMA SumsExist ==
  ASSUME NEW f, NEW S, IsFiniteSet(S)
  PROVE  \E g : Sums(f, S, g)
<1> DEFINE Good == {T \in SUBSET S : \E g : Sums(f, T, g)}
           V(T) == (CHOOSE g : Sums(f, T, g))[T]
<1>1. ASSUME NEW T \in SUBSET S, \A U \in SUBSET T : U # T => U \in Good
      PROVE  T \in Good
  <2>1. ASSUME NEW U \in SUBSET T, U # T
        PROVE  V(U) = IF U = {} THEN 0 ELSE f[Pick(U)] + V(U \ {Pick(U)})
    <3>1. PICK g : g = (CHOOSE h : Sums(f, U, h)) /\ Sums(f, U, g)
      <4>1. \E h : Sums(f, U, h)
        BY <1>1, <2>1
      <4>2. QED
        BY <4>1
    <3>2. U \in SUBSET U /\ V(U) = g[U]
      BY <3>1
    <3>3. g[U] = IF U = {} THEN 0 ELSE f[Pick(U)] + g[U \ {Pick(U)}]
      BY <3>1, <3>2 DEF Sums
    <3>4. ASSUME U # {} PROVE g[U \ {Pick(U)}] = V(U \ {Pick(U)})
      <4>1. PICK W : W = U \ {Pick(U)}
        OBVIOUS
      <4>2. W \in SUBSET U /\ W # U
        BY <3>4, <4>1, PickType
      <4>3. W \in Good /\ IsFiniteSet(W)
        <5>1. W \in SUBSET T /\ W # T /\ W \in SUBSET S
          BY <2>1, <4>2
        <5>2. QED
          BY <1>1, <5>1, FS_Subset
      <4>4. PICK h : h = (CHOOSE k : Sums(f, W, k)) /\ Sums(f, W, h)
        BY <4>3
      <4>5. g[W] = h[W]
        BY <3>1, <4>2, <4>3, <4>4, SumsAgree
      <4>6. QED
        BY <4>1, <4>4, <4>5
    <3>5. QED
      BY <3>2, <3>3, <3>4
  <2> DEFINE g == [U \in SUBSET T |->
                     IF U = {} THEN 0 ELSE f[Pick(U)] + V(U \ {Pick(U)})]
  <2>2. ASSUME NEW U \in SUBSET T, U # {}
        PROVE  g[U \ {Pick(U)}] = V(U \ {Pick(U)})
    <3>1. PICK W : W = U \ {Pick(U)}
      OBVIOUS
    <3>2. W \in SUBSET T /\ W # T
      BY <2>2, <3>1, PickType
    <3>3. V(W) = IF W = {} THEN 0 ELSE f[Pick(W)] + V(W \ {Pick(W)})
      BY <2>1, <3>2
    <3>4. g[W] = V(W)
      <4> HIDE DEF V
      <4>1. QED
        BY <3>2, <3>3
    <3>5. QED
      BY <3>1, <3>4
  <2>3. g = [U \in SUBSET T |-> IF U = {} THEN 0 ELSE f[Pick(U)] + g[U \ {Pick(U)}]]
    <3> HIDE DEF V
    <3>1. QED
      BY <2>2
  <2>4. Sums(f, T, g)
    <3> HIDE DEF g
    <3>1. QED
      BY <2>3 DEF Sums
  <2>5. QED
    BY <2>4
<1>2. S \in Good
  <2> HIDE DEF Good
  <2>1. QED
    BY <1>1, SetInduction
<1>3. QED
  BY <1>2

-----------------------------------------------------------------------------
(* What the recursion says: nothing is 0, else an element and the rest.    *)
LEMMA SumEmpty ==
  ASSUME NEW f
  PROVE  SumFunctionOnSet(f, {}) = 0
<1>1. PICK g : g = (CHOOSE h : Sums(f, {}, h)) /\ Sums(f, {}, g)
  <2>1. \E h : Sums(f, {}, h)
    BY SumsExist, FS_EmptySet
  <2>2. QED
    BY <2>1
<1>2. SumFunctionOnSet(f, {}) = g[{}]
  BY <1>1, SumIs
<1>3. QED
  BY <1>1, <1>2 DEF Sums

LEMMA SumPick ==
  ASSUME NEW f, NEW S, IsFiniteSet(S), S # {}
  PROVE  SumFunctionOnSet(f, S) = f[Pick(S)] + SumFunctionOnSet(f, S \ {Pick(S)})
<1>1. PICK T : T = S \ {Pick(S)}
  OBVIOUS
<1>2. T \in SUBSET S /\ IsFiniteSet(T)
  BY <1>1, FS_Subset, PickType
<1>3. PICK g : g = (CHOOSE h : Sums(f, S, h)) /\ Sums(f, S, g)
  <2>1. \E h : Sums(f, S, h)
    BY SumsExist
  <2>2. QED
    BY <2>1
<1>4. PICK k : k = (CHOOSE h : Sums(f, T, h)) /\ Sums(f, T, k)
  <2>1. \E h : Sums(f, T, h)
    BY <1>2, SumsExist
  <2>2. QED
    BY <2>1
<1>5. g[S] = f[Pick(S)] + g[T]
  <2>1. S \in SUBSET S
    OBVIOUS
  <2>2. QED
    BY <1>1, <1>3, <2>1 DEF Sums
<1>6. g[T] = k[T]
  BY <1>2, <1>3, <1>4, SumsAgree
<1>7. SumFunctionOnSet(f, S) = g[S] /\ SumFunctionOnSet(f, T) = k[T]
  BY <1>3, <1>4, SumIs
<1>8. QED
  BY <1>1, <1>5, <1>6, <1>7

(* The sum depends on the values in the set only.                          *)
LEMMA SumSame ==
  ASSUME NEW f, NEW g, NEW S, IsFiniteSet(S), \A x \in S : f[x] = g[x]
  PROVE  SumFunctionOnSet(f, S) = SumFunctionOnSet(g, S)
<1> DEFINE Good == {T \in SUBSET S : SumFunctionOnSet(f, T) = SumFunctionOnSet(g, T)}
<1>1. ASSUME NEW T \in SUBSET S, \A U \in SUBSET T : U # T => U \in Good
      PROVE  T \in Good
  <2>1. CASE T = {}
    BY <2>1, SumEmpty
  <2>2. CASE T # {}
    <3>1. IsFiniteSet(T)
      BY FS_Subset
    <3>2. Pick(T) \in S /\ T \ {Pick(T)} \in Good
      BY <1>1, <2>2, PickType
    <3>3. QED
      BY <2>2, <3>1, <3>2, SumPick
  <2>3. QED
    BY <2>1, <2>2
<1>2. S \in Good
  <2> HIDE DEF Good
  <2>1. QED
    BY <1>1, SetInduction
<1>3. QED
  BY <1>2

LEMMA SumType ==
  ASSUME NEW f, NEW S, IsFiniteSet(S), \A x \in S : f[x] \in Nat
  PROVE  SumFunctionOnSet(f, S) \in Nat
<1> DEFINE Good == {T \in SUBSET S : SumFunctionOnSet(f, T) \in Nat}
<1>1. ASSUME NEW T \in SUBSET S, \A U \in SUBSET T : U # T => U \in Good
      PROVE  T \in Good
  <2>1. CASE T = {}
    BY <2>1, SumEmpty
  <2>2. CASE T # {}
    <3>1. IsFiniteSet(T)
      BY FS_Subset
    <3>2. f[Pick(T)] \in Nat /\ SumFunctionOnSet(f, T \ {Pick(T)}) \in Nat
      BY <1>1, <2>2, PickType
    <3>3. QED
      BY <2>2, <3>1, <3>2, SumPick
  <2>3. QED
    BY <2>1, <2>2
<1>2. S \in Good
  <2> HIDE DEF Good
  <2>1. QED
    BY <1>1, SetInduction
<1>3. QED
  BY <1>2

LEMMA SumOfNoughts ==
  ASSUME NEW f, NEW S, IsFiniteSet(S), \A x \in S : f[x] = 0
  PROVE  SumFunctionOnSet(f, S) = 0
<1> DEFINE Good == {T \in SUBSET S : SumFunctionOnSet(f, T) = 0}
<1>1. ASSUME NEW T \in SUBSET S, \A U \in SUBSET T : U # T => U \in Good
      PROVE  T \in Good
  <2>1. CASE T = {}
    BY <2>1, SumEmpty
  <2>2. CASE T # {}
    <3>1. IsFiniteSet(T)
      BY FS_Subset
    <3>2. f[Pick(T)] = 0 /\ SumFunctionOnSet(f, T \ {Pick(T)}) = 0
      BY <1>1, <2>2, PickType
    <3>3. QED
      BY <2>2, <3>1, <3>2, SumPick
  <2>3. QED
    BY <2>1, <2>2
<1>2. S \in Good
  <2> HIDE DEF Good
  <2>1. QED
    BY <1>1, SetInduction
<1>3. QED
  BY <1>2

(* Any element may be the one that is taken.                               *)
LEMMA SumRemove ==
  ASSUME NEW f, NEW S, IsFiniteSet(S), \A x \in S : f[x] \in Nat, NEW y \in S
  PROVE  SumFunctionOnSet(f, S) = f[y] + SumFunctionOnSet(f, S \ {y})
<1> DEFINE Good == {T \in SUBSET S : \A x \in T :
                      SumFunctionOnSet(f, T) = f[x] + SumFunctionOnSet(f, T \ {x})}
<1>1. ASSUME NEW T \in SUBSET S, \A U \in SUBSET T : U # T => U \in Good
      PROVE  T \in Good
  <2> SUFFICES ASSUME NEW x \in T
               PROVE  SumFunctionOnSet(f, T) = f[x] + SumFunctionOnSet(f, T \ {x})
    OBVIOUS
  <2>1. PICK p : p = Pick(T)
    OBVIOUS
  <2>2. p \in T /\ IsFiniteSet(T)
    BY <2>1, PickType, FS_Subset
  <2>3. SumFunctionOnSet(f, T) = f[p] + SumFunctionOnSet(f, T \ {p})
    BY <2>1, <2>2, SumPick
  <2>4. CASE x # p
    <3>1. T \ {p} \in Good /\ T \ {x} \in Good
      BY <1>1, <2>2
    <3>2. SumFunctionOnSet(f, T \ {p}) = f[x] + SumFunctionOnSet(f, (T \ {p}) \ {x})
      BY <2>4, <3>1
    <3>3. SumFunctionOnSet(f, T \ {x}) = f[p] + SumFunctionOnSet(f, (T \ {x}) \ {p})
      BY <2>2, <2>4, <3>1
    <3>4. PICK W : W = (T \ {p}) \ {x}
      OBVIOUS
    <3>5. W = (T \ {x}) \ {p} /\ W \in SUBSET S
      BY <3>4
    <3>6. SumFunctionOnSet(f, W) \in Nat
      <4>1. IsFiniteSet(W)
        BY <3>5, FS_Subset
      <4>2. QED
        BY <3>5, <4>1, SumType
    <3>7. f[x] \in Nat /\ f[p] \in Nat
      BY <2>2
    <3>8. QED
      BY <2>3, <3>2, <3>3, <3>4, <3>5, <3>6, <3>7
  <2>5. QED
    BY <2>3, <2>4
<1>2. S \in Good
  <2> HIDE DEF Good
  <2>1. QED
    BY <1>1, SetInduction
<1>3. QED
  BY <1>2

LEMMA SumAdd ==
  ASSUME NEW f, NEW S, IsFiniteSet(S), NEW y, y \notin S,
         \A x \in S \cup {y} : f[x] \in Nat
  PROVE  SumFunctionOnSet(f, S \cup {y}) = SumFunctionOnSet(f, S) + f[y]
<1>1. IsFiniteSet(S \cup {y}) /\ (S \cup {y}) \ {y} = S
  BY FS_AddElement
<1>2. SumFunctionOnSet(f, S \cup {y}) = f[y] + SumFunctionOnSet(f, S)
  BY <1>1, SumRemove
<1>3. SumFunctionOnSet(f, S) \in Nat /\ f[y] \in Nat
  BY SumType
<1>4. QED
  BY <1>2, <1>3

(* A sum changes by what one of its numbers does.                          *)
LEMMA SumChange ==
  ASSUME NEW S, IsFiniteSet(S), NEW f, NEW g, NEW y \in S,
         \A x \in S : f[x] \in Nat /\ g[x] \in Nat,
         \A x \in S : x # y => g[x] = f[x]
  PROVE  /\ SumFunctionOnSet(f, S) \in Nat /\ SumFunctionOnSet(g, S) \in Nat
         /\ SumFunctionOnSet(g, S) + f[y] = SumFunctionOnSet(f, S) + g[y]
<1>1. PICK T : T = S \ {y}
  OBVIOUS
<1>2. IsFiniteSet(T) /\ \A x \in T : f[x] \in Nat /\ g[x] = f[x]
  BY <1>1, FS_RemoveElement
<1>3. SumFunctionOnSet(f, T) = SumFunctionOnSet(g, T) /\ SumFunctionOnSet(f, T) \in Nat
  BY <1>2, SumSame, SumType
<1>4. /\ SumFunctionOnSet(f, S) = f[y] + SumFunctionOnSet(f, T)
      /\ SumFunctionOnSet(g, S) = g[y] + SumFunctionOnSet(g, T)
  BY <1>1, SumRemove
<1>5. QED
  BY <1>3, <1>4

(* The number of elements is a sum of ones.                                *)
LEMMA SumOfOnes ==
  ASSUME NEW f, NEW S, IsFiniteSet(S), \A x \in S : f[x] = 1
  PROVE  SumFunctionOnSet(f, S) = Cardinality(S)
<1> DEFINE Good == {T \in SUBSET S : SumFunctionOnSet(f, T) = Cardinality(T)}
<1>1. ASSUME NEW T \in SUBSET S, \A U \in SUBSET T : U # T => U \in Good
      PROVE  T \in Good
  <2>1. CASE T = {}
    BY <2>1, SumEmpty, FS_EmptySet
  <2>2. CASE T # {}
    <3>1. IsFiniteSet(T)
      BY FS_Subset
    <3>2. /\ Pick(T) \in T /\ f[Pick(T)] = 1
          /\ SumFunctionOnSet(f, T \ {Pick(T)}) = Cardinality(T \ {Pick(T)})
      BY <1>1, <2>2, PickType
    <3>3. Cardinality(T \ {Pick(T)}) = Cardinality(T) - 1 /\ Cardinality(T) \in Nat
      BY <3>1, <3>2, FS_RemoveElement, FS_CardinalityType
    <3>4. QED
      BY <2>2, <3>1, <3>2, <3>3, SumPick
  <2>3. QED
    BY <2>1, <2>2
<1>2. S \in Good
  <2> HIDE DEF Good
  <2>1. QED
    BY <1>1, SetInduction
<1>3. QED
  BY <1>2

(* The elements may be numbered, or named by others, each by one.          *)
LEMMA SumRenamed ==
  ASSUME NEW S, IsFiniteSet(S), NEW f, NEW g, NEW q,
         \A x \in S : f[x] \in Nat /\ g[q[x]] = f[x],
         \A x, y \in S : q[x] = q[y] => x = y,
         NEW R, R = {q[x] : x \in S}
  PROVE  SumFunctionOnSet(f, S) = SumFunctionOnSet(g, R)
<1> DEFINE Good == {T \in SUBSET S :
                      /\ IsFiniteSet({q[x] : x \in T})
                      /\ SumFunctionOnSet(f, T) = SumFunctionOnSet(g, {q[x] : x \in T})}
<1>1. ASSUME NEW T \in SUBSET S, \A U \in SUBSET T : U # T => U \in Good
      PROVE  T \in Good
  <2>1. CASE T = {}
    <3>1. {q[x] : x \in T} = {}
      BY <2>1
    <3>2. QED
      BY <2>1, <3>1, SumEmpty, FS_EmptySet
  <2>2. CASE T # {}
    <3>1. PICK p, W : p = Pick(T) /\ W = T \ {p}
      OBVIOUS
    <3>2. p \in T /\ IsFiniteSet(T) /\ W \in Good
      BY <1>1, <2>2, <3>1, PickType, FS_Subset
    <3>3. PICK Y : Y = {q[x] : x \in W}
      OBVIOUS
    <3>4. {q[x] : x \in T} = Y \cup {q[p]} /\ q[p] \notin Y
      BY <3>1, <3>2, <3>3
    <3>5. IsFiniteSet(Y) /\ IsFiniteSet(Y \cup {q[p]})
      BY <3>2, <3>3, FS_AddElement
    <3>6. \A y \in Y \cup {q[p]} : g[y] \in Nat
      BY <3>1, <3>2, <3>3
    <3>7. SumFunctionOnSet(g, Y \cup {q[p]}) = SumFunctionOnSet(g, Y) + g[q[p]]
      BY <3>4, <3>5, <3>6, SumAdd
    <3>8. SumFunctionOnSet(f, T) = f[p] + SumFunctionOnSet(f, W)
      BY <2>2, <3>1, <3>2, SumPick
    <3>9. SumFunctionOnSet(f, W) = SumFunctionOnSet(g, Y) /\ g[q[p]] = f[p]
      BY <3>2, <3>3
    <3>10. SumFunctionOnSet(g, Y) \in Nat /\ f[p] \in Nat
      BY <3>2, <3>5, <3>6, SumType
    <3>11. SumFunctionOnSet(f, T) = SumFunctionOnSet(g, Y \cup {q[p]})
      BY <3>7, <3>8, <3>9, <3>10
    <3>12. QED
      BY <3>4, <3>5, <3>11
  <2>3. QED
    BY <2>1, <2>2
<1>2. S \in Good
  <2> HIDE DEF Good
  <2>1. QED
    BY <1>1, SetInduction
<1>3. QED
  BY <1>2

(* A sum may be made of two parts, ...                                     *)
LEMMA SumUnion ==
  ASSUME NEW f, NEW S, NEW T, IsFiniteSet(S), IsFiniteSet(T), S \cap T = {},
         \A x \in S \cup T : f[x] \in Nat
  PROVE  SumFunctionOnSet(f, S \cup T)
           = SumFunctionOnSet(f, S) + SumFunctionOnSet(f, T)
<1> DEFINE Good == {U \in SUBSET T : SumFunctionOnSet(f, S \cup U)
                      = SumFunctionOnSet(f, S) + SumFunctionOnSet(f, U)}
<1>1. SumFunctionOnSet(f, S) \in Nat
  BY SumType
<1>2. ASSUME NEW U \in SUBSET T, \A W \in SUBSET U : W # U => W \in Good
      PROVE  U \in Good
  <2>1. CASE U = {}
    <3>1. S \cup U = S
      BY <2>1
    <3>2. QED
      BY <1>1, <2>1, <3>1, SumEmpty
  <2>2. CASE U # {}
    <3>1. PICK p, W : p = Pick(U) /\ W = U \ {p}
      OBVIOUS
    <3>2. /\ p \in U /\ IsFiniteSet(U) /\ IsFiniteSet(W) /\ W \in Good
          /\ p \notin S \cup W /\ S \cup U = (S \cup W) \cup {p}
      <4>1. p \in U /\ IsFiniteSet(U) /\ W \in Good
        BY <1>2, <2>2, <3>1, PickType, FS_Subset
      <4>2. IsFiniteSet(W)
        BY <3>1, <4>1, FS_RemoveElement
      <4>3. QED
        BY <3>1, <4>1, <4>2
    <3>3. SumFunctionOnSet(f, S \cup U) = SumFunctionOnSet(f, S \cup W) + f[p]
      <4>1. IsFiniteSet(S \cup W)
        BY <3>2, FS_Union
      <4>2. \A x \in (S \cup W) \cup {p} : f[x] \in Nat
        BY <3>1, <3>2
      <4>3. QED
        BY <3>2, <4>1, <4>2, SumAdd
    <3>4. SumFunctionOnSet(f, U) = f[p] + SumFunctionOnSet(f, W)
      BY <2>2, <3>1, <3>2, SumPick
    <3>5. SumFunctionOnSet(f, W) \in Nat /\ f[p] \in Nat
      BY <3>1, <3>2, SumType
    <3>6. QED
      BY <1>1, <3>2, <3>3, <3>4, <3>5
  <2>3. QED
    BY <2>1, <2>2
<1>3. T \in Good
  <2> HIDE DEF Good
  <2>1. QED
    BY <1>2, SetInduction
<1>4. QED
  BY <1>3

(* ... or of as many as there are keys: sums[k] is the sum over part[k],   *)
(* the elements whose key is k.                                            *)
LEMMA SumOfParts ==
  ASSUME NEW f, NEW S, IsFiniteSet(S), \A x \in S : f[x] \in Nat,
         NEW K, IsFiniteSet(K), NEW key, \A x \in S : key[x] \in K,
         NEW part, \A k \in K : part[k] = {x \in S : key[x] = k},
         NEW sums, \A k \in K : sums[k] = SumFunctionOnSet(f, part[k])
  PROVE  SumFunctionOnSet(sums, K) = SumFunctionOnSet(f, S)
<1> DEFINE Of(A) == {x \in S : key[x] \in A}
           Good == {A \in SUBSET K :
                      SumFunctionOnSet(sums, A) = SumFunctionOnSet(f, Of(A))}
<1>1. ASSUME NEW A \in SUBSET K, \A B \in SUBSET A : B # A => B \in Good
      PROVE  A \in Good
  <2>1. CASE A = {}
    <3>1. Of(A) = {}
      BY <2>1
    <3>2. QED
      BY <2>1, <3>1, SumEmpty
  <2>2. CASE A # {}
    <3>1. PICK p, B : p = Pick(A) /\ B = A \ {p}
      OBVIOUS
    <3>2. p \in A /\ IsFiniteSet(A) /\ B \in Good
      BY <1>1, <2>2, <3>1, PickType, FS_Subset
    <3>3. PICK new, rest : new = part[p] /\ new = {x \in S : key[x] = p} /\ rest = Of(B)
      BY <3>2
    <3>4. Of(A) = rest \cup new /\ rest \cap new = {}
      BY <3>1, <3>2, <3>3
    <3>5. IsFiniteSet(rest) /\ IsFiniteSet(new)
      BY <3>3, FS_Subset
    <3>6. SumFunctionOnSet(f, Of(A)) = SumFunctionOnSet(f, rest) + SumFunctionOnSet(f, new)
      <4>1. \A x \in rest \cup new : f[x] \in Nat
        BY <3>3
      <4>2. SumFunctionOnSet(f, rest \cup new)
              = SumFunctionOnSet(f, rest) + SumFunctionOnSet(f, new)
        BY <3>4, <3>5, <4>1, SumUnion
      <4>3. QED
        BY <3>4, <4>2
    <3>7. SumFunctionOnSet(sums, A) = sums[p] + SumFunctionOnSet(sums, B)
      BY <2>2, <3>1, <3>2, SumPick
    <3>8. sums[p] = SumFunctionOnSet(f, new) /\ SumFunctionOnSet(sums, B) = SumFunctionOnSet(f, rest)
      BY <3>2, <3>3
    <3>9. SumFunctionOnSet(f, new) \in Nat /\ SumFunctionOnSet(f, rest) \in Nat
      BY <3>3, <3>5, SumType
    <3>10. QED
      BY <3>6, <3>7, <3>8, <3>9
  <2>3. QED
    BY <2>1, <2>2
<1>2. K \in Good
  <2> HIDE DEF Good
  <2>1. QED
    BY <1>1, SetInduction
<1>3. Of(K) = S
  OBVIOUS
<1>4. QED
  BY <1>2, <1>3
=============================================================================
