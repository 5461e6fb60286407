----------------------------- MODULE Summation -----------------------------
(***************************************************************************)
(* Sums over finite sets, for the proofs that count: the forwards of the   *)
(* scheduler's requests, the bound of run().  The library's SumFunction is *)
(* a fold, defined by CHOOSE of the function that computes a recursion on  *)
(* subsets.  Such a function exists and is unique, by induction on the     *)
(* inclusion of finite sets, and so the sum of numbers is what one takes   *)
(* it for: a number that unfolds at any element, is above each of them,    *)
(* and grows as they do.  At the end, what the proofs need of division and *)
(* of sets of numbers.                                                     *)
(***************************************************************************)
EXTENDS Integers, FiniteSets, Functions, FiniteSetTheorems, TLAPS

(* A family of subsets of a finite set has a minimal member.               *)
LEMMA SmallestSet ==
  ASSUME NEW S, IsFiniteSet(S), NEW F \in SUBSET (SUBSET S), F # {}
  PROVE  \E T \in F : \A U \in F : U \subseteq T => U = T
PROOF
<1>1. F \subseteq FiniteSubsetsOf(S)
  BY FS_FiniteSubsetsOfFinite
<1>2. PICK T \in F : \A U \in F : ~(<<U, T>> \in StrictSubsetOrdering(S))
  BY <1>1, FS_StrictSubsetOrderingWellFounded, WFMin
<1>3. ASSUME NEW U \in F, U \subseteq T, U # T PROVE FALSE
  BY <1>2, <1>3 DEF StrictSubsetOrdering
<1> QED BY <1>2, <1>3

(* it computes on the subsets of S the recursion that starts from base and *)
(* takes one element after the other, the one pick names, with h.          *)
Computes(it, S, base, pick, h) ==
  \A s \in SUBSET S :
    it[s] = IF s = {} THEN base ELSE h[pick[s]][it[s \ {pick[s]}]]

Picks(pick, S) == \A s \in SUBSET S : s # {} => pick[s] \in s

(* Two functions that compute the same recursion agree where both do.      *)
LEMMA RecursionUnique ==
  ASSUME NEW S, IsFiniteSet(S), NEW base, NEW pick, Picks(pick, S), NEW h,
         NEW A \in SUBSET S, NEW f, Computes(f, A, base, pick, h),
         NEW B \in SUBSET S, NEW g, Computes(g, B, base, pick, h)
  PROVE  \A s \in SUBSET (A \cap B) : f[s] = g[s]
PROOF
<1> DEFINE Bad == {s \in SUBSET (A \cap B) : f[s] # g[s]}
<1> SUFFICES ASSUME Bad # {} PROVE FALSE
  OBVIOUS
<1>1. Bad \in SUBSET (SUBSET S)
  OBVIOUS
<1> HIDE DEF Bad
<1>2. PICK T \in Bad : \A U \in Bad : U \subseteq T => U = T
  BY <1>1, SmallestSet
<1>3. T \in SUBSET A /\ T \in SUBSET B /\ T \in SUBSET S /\ f[T] # g[T]
  BY DEF Bad
<1>4. T # {}
  BY <1>3 DEF Computes
<1>5. pick[T] \in T
  BY <1>3, <1>4 DEF Picks
<1>6. PICK U : U = T \ {pick[T]}
  OBVIOUS
<1>7. U \subseteq T /\ U # T /\ U \in SUBSET (A \cap B)
  BY <1>5, <1>6, <1>3
<1>8. f[U] = g[U]
  BY <1>2, <1>7 DEF Bad
<1>9. f[T] = h[pick[T]][f[U]] /\ g[T] = h[pick[T]][g[U]]
  BY <1>3, <1>4, <1>6 DEF Computes
<1> QED BY <1>3, <1>8, <1>9

(* On a finite set every such recursion is computed by some function.      *)
LEMMA RecursionExists ==
  ASSUME NEW S, IsFiniteSet(S), NEW X, NEW base \in X,
         NEW pick, Picks(pick, S), NEW h \in [S -> [X -> X]]
  PROVE  \E it \in [SUBSET S -> X] : Computes(it, S, base, pick, h)
PROOF
<1> DEFINE Has(T) == \E it \in [SUBSET T -> X] : Computes(it, T, base, pick, h)
           Bad == {T \in SUBSET S : ~Has(T)}
<1> SUFFICES ASSUME Bad # {} PROVE FALSE
  OBVIOUS
<1>1. Bad \in SUBSET (SUBSET S)
  OBVIOUS
<1>2. PICK T \in Bad : \A U \in Bad : U \subseteq T => U = T
  <2> HIDE DEF Bad
  <2> QED BY <1>1, SmallestSet
<1>3. T \in SUBSET S /\ ~Has(T)
  OBVIOUS
<1>4. \A U \in SUBSET T : U # T => Has(U)
  BY <1>2, <1>3
<1> DEFINE At(U) == CHOOSE it : it \in [SUBSET U -> X] /\ Computes(it, U, base, pick, h)
<1>5. \A U \in SUBSET T : U # T => At(U) \in [SUBSET U -> X] /\ Computes(At(U), U, base, pick, h)
  BY <1>4
<1> HIDE DEF At
<1>6. T # {} => pick[T] \in T /\ h[pick[T]] \in [X -> X]
  BY <1>3 DEF Picks
<1> DEFINE it == [s \in SUBSET T |->
                    IF s # T THEN At(s)[s]
                    ELSE IF T = {} THEN base
                    ELSE h[pick[T]][At(T \ {pick[T]})[T \ {pick[T]}]]]
<1>7. \A s \in SUBSET T : s # T => At(s)[s] \in X
  <2> HIDE DEF it, Has, Bad
  <2> SUFFICES ASSUME NEW s \in SUBSET T, s # T PROVE At(s)[s] \in X
    OBVIOUS
  <2>1. At(s) \in [SUBSET s -> X]
    BY <1>5
  <2>2. s \in SUBSET s
    OBVIOUS
  <2> QED BY <2>1, <2>2
<1>8. it \in [SUBSET T -> X]
  <2>1. ASSUME T # {} PROVE At(T \ {pick[T]})[T \ {pick[T]}] \in X
    BY <1>6, <1>7, <2>1
  <2>2. ASSUME T # {} PROVE h[pick[T]][At(T \ {pick[T]})[T \ {pick[T]}]] \in X
    BY <2>1, <2>2, <1>6
  <2> QED BY <1>7, <2>2
<1>9. ASSUME NEW s \in SUBSET T
      PROVE  it[s] = IF s = {} THEN base ELSE h[pick[s]][it[s \ {pick[s]}]]
  <2>1. CASE s = {}
    <3>1. CASE T = {}
      BY <2>1, <3>1
    <3>2. CASE T # {}
      <4>1. Computes(At(s), s, base, pick, h)
        BY <2>1, <3>2, <1>5
      <4>2. At(s)[s] = base
        BY <2>1, <4>1 DEF Computes
      <4> QED BY <2>1, <3>2, <4>2
    <3> QED BY <3>1, <3>2
  <2>2. CASE s # {}
    <3>1. pick[s] \in s
      BY <2>2, <1>3 DEF Picks
    <3>2. PICK u : u = s \ {pick[s]}
      OBVIOUS
    <3>3. u \in SUBSET T /\ u # T /\ u \in SUBSET s /\ u # s
      BY <3>1, <3>2
    <3>4. it[u] = At(u)[u]
      BY <3>3
    <3>5. CASE s = T
      <4>1. it[s] = h[pick[s]][At(u)[u]]
        BY <3>5, <2>2, <3>2
      <4> QED BY <4>1, <3>4, <3>2, <2>2
    <3>6. CASE s # T
      <4>1. it[s] = At(s)[s]
        BY <3>6
      <4>2. At(s)[s] = h[pick[s]][At(s)[u]]
        BY <1>5, <3>6, <2>2, <3>2 DEF Computes
      <4>3. At(s)[u] = At(u)[u]
        <5>1. Computes(At(s), s, base, pick, h) /\ Computes(At(u), u, base, pick, h)
          BY <1>5, <3>6, <3>3
        <5>2. s \in SUBSET S /\ u \in SUBSET S /\ u \in SUBSET (s \cap u)
          BY <1>3, <3>3
        <5> QED BY <5>1, <5>2, RecursionUnique
      <4> QED BY <4>1, <4>2, <4>3, <3>4, <3>2, <2>2
    <3> QED BY <3>5, <3>6
  <2> QED BY <2>1, <2>2
<1>10. Computes(it, T, base, pick, h)
  <2> HIDE DEF it
  <2> QED BY <1>9 DEF Computes
<1> QED BY <1>3, <1>8, <1>10

Chooser(S) == [s \in SUBSET S |-> CHOOSE x \in s : TRUE]

Adds(f, S) == [x \in S |-> [n \in Nat |-> f[x] + n]]

Totals(f, S, it) == /\ it \in [SUBSET S -> Nat]
                    /\ Computes(it, S, 0, Chooser(S), Adds(f, S))

(* In particular there are totals, over every subset, of numbers given on  *)
(* a finite set.                                                           *)
LEMMA TotalsExist ==
  ASSUME NEW S, IsFiniteSet(S), NEW f, \A x \in S : f[x] \in Nat
  PROVE  \E it : Totals(f, S, it)
PROOF
<1>1. Picks(Chooser(S), S)
  BY DEF Picks, Chooser
<1>2. Adds(f, S) \in [S -> [Nat -> Nat]]
  BY DEF Adds
<1>3. \E it \in [SUBSET S -> Nat] : Computes(it, S, 0, Chooser(S), Adds(f, S))
  BY <1>1, <1>2, RecursionExists
<1> QED BY <1>3 DEF Totals

Unfolds(f, S, it) ==
  it = [s \in SUBSET S |-> IF s = {} THEN 0
                           ELSE f[CHOOSE x \in s : TRUE]
                                  + it[s \ {CHOOSE x \in s : TRUE}]]

(* A total is 0 on the empty set, and takes some element away on any       *)
(* other.                                                                  *)
LEMMA UnfoldsAt ==
  ASSUME NEW S, NEW f, NEW it, Unfolds(f, S, it)
  PROVE  /\ it[{}] = 0
         /\ \A s \in SUBSET S : s # {} =>
              \E x \in s : it[s] = f[x] + it[s \ {x}]
PROOF
<1>1. it[{}] = 0
  BY {} \in SUBSET S DEF Unfolds
<1>2. ASSUME NEW s \in SUBSET S, s # {}
      PROVE  \E x \in s : it[s] = f[x] + it[s \ {x}]
  <2>1. PICK x : x = CHOOSE y \in s : TRUE
    OBVIOUS
  <2>2. x \in s
    BY <1>2, <2>1
  <2>3. it[s] = f[x] + it[s \ {x}]
    BY <1>2, <2>1 DEF Unfolds
  <2> QED BY <2>2, <2>3
<1> QED BY <1>1, <1>2

(* For numbers, the recursion that the library folds with is that of the   *)
(* totals.                                                                 *)
LEMMA TotalsStep ==
  ASSUME NEW S, IsFiniteSet(S), NEW f, \A x \in S : f[x] \in Nat,
         NEW it \in [SUBSET S -> Nat]
  PROVE  Totals(f, S, it) <=> Unfolds(f, S, it)
PROOF
<1>1. ASSUME NEW s \in SUBSET S, s # {}
      PROVE  Adds(f, S)[Chooser(S)[s]][it[s \ {Chooser(S)[s]}]]
               = f[CHOOSE x \in s : TRUE] + it[s \ {CHOOSE x \in s : TRUE}]
  <2>1. PICK x : x = CHOOSE y \in s : TRUE
    OBVIOUS
  <2>2. x \in s /\ x \in S
    BY <1>1, <2>1
  <2>3. Chooser(S)[s] = x
    BY <2>1 DEF Chooser
  <2>4. it[s \ {x}] \in Nat
    OBVIOUS
  <2>5. Adds(f, S)[x][it[s \ {x}]] = f[x] + it[s \ {x}]
    BY <2>2, <2>4 DEF Adds
  <2> QED BY <2>1, <2>3, <2>5
<1> QED BY <1>1 DEF Totals, Computes, Unfolds

(* The library's sum, defined by CHOOSE of such a function, is one of the  *)
(* totals.                                                                 *)
LEMMA SumIsTotal ==
  ASSUME NEW S, IsFiniteSet(S), NEW f, \A x \in S : f[x] \in Nat
  PROVE  \E it : Totals(f, S, it) /\ SumFunctionOnSet(f, S) = it[S]
PROOF
<1>1. \E it : Unfolds(f, S, it)
  <2>1. PICK it : Totals(f, S, it)
    BY TotalsExist
  <2>2. it \in [SUBSET S -> Nat]
    BY <2>1 DEF Totals
  <2>3. Unfolds(f, S, it)
    BY <2>1, <2>2, TotalsStep
  <2> QED BY <2>3
<1> DEFINE it == CHOOSE g : Unfolds(f, S, g)
<1>2. SumFunctionOnSet(f, S) = it[S]
  BY DEF SumFunctionOnSet, FoldFunctionOnSet, MapThenFoldSet, Unfolds
<1>3. Unfolds(f, S, it)
  BY <1>1
<1> HIDE DEF it
<1>4. /\ it[{}] = 0
      /\ \A s \in SUBSET S : s # {} =>
           \E x \in s : it[s] = f[x] + it[s \ {x}]
  BY <1>3, UnfoldsAt
<1>5. \A s \in SUBSET S : it[s] \in Nat
  <2> DEFINE Bad == {s \in SUBSET S : it[s] \notin Nat}
  <2> SUFFICES ASSUME Bad # {} PROVE FALSE
    OBVIOUS
  <2>1. Bad \in SUBSET (SUBSET S)
    OBVIOUS
  <2> HIDE DEF Bad
  <2>2. PICK T \in Bad : \A U \in Bad : U \subseteq T => U = T
    BY <2>1, SmallestSet
  <2>3. T \in SUBSET S /\ it[T] \notin Nat
    BY DEF Bad
  <2>4. T # {}
    <3>1. it[{}] \in Nat
      BY <1>4
    <3> QED BY <2>3, <3>1
  <2>5. PICK x \in T : it[T] = f[x] + it[T \ {x}]
    BY <1>4, <2>3, <2>4
  <2>6. x \in T /\ x \in S
    BY <2>3
  <2>7. it[T \ {x}] \in Nat
    BY <2>2, <2>3, <2>6 DEF Bad
  <2> QED BY <2>3, <2>5, <2>6, <2>7
<1>6. it \in [SUBSET S -> Nat]
  <2>1. it = [s \in SUBSET S |-> it[s]]
    BY <1>3 DEF Unfolds
  <2> QED BY <1>5, <2>1
<1> QED BY <1>2, <1>3, <1>6, TotalsStep

(* A total of S holds the totals of the subsets of S.                      *)
LEMMA SumOfSubset ==
  ASSUME NEW S, IsFiniteSet(S), NEW f, \A x \in S : f[x] \in Nat,
         NEW it, Totals(f, S, it), NEW T \in SUBSET S
  PROVE  SumFunctionOnSet(f, T) = it[T]
PROOF
<1>1. IsFiniteSet(T)
  BY FS_Subset
<1>2. PICK g : Totals(f, T, g) /\ SumFunctionOnSet(f, T) = g[T]
  BY <1>1, SumIsTotal
<1>3. Computes(g, T, 0, Chooser(S), Adds(f, S))
  <2> SUFFICES ASSUME NEW s \in SUBSET T, s # {}
               PROVE  Adds(f, T)[Chooser(T)[s]][g[s \ {Chooser(T)[s]}]]
                        = Adds(f, S)[Chooser(S)[s]][g[s \ {Chooser(S)[s]}]]
    BY <1>2 DEF Totals, Computes
  <2>1. PICK x : x = CHOOSE y \in s : TRUE
    OBVIOUS
  <2>2. Chooser(T)[s] = x /\ Chooser(S)[s] = x /\ x \in T /\ x \in S
    BY <2>1 DEF Chooser
  <2>3. Adds(f, T)[x] = Adds(f, S)[x]
    BY <2>2 DEF Adds
  <2> QED BY <2>2, <2>3
<1>4. Computes(it, S, 0, Chooser(S), Adds(f, S))
  BY DEF Totals
<1>5. Picks(Chooser(S), S) /\ S \in SUBSET S /\ T \in SUBSET (T \cap S)
  BY DEF Picks, Chooser
<1>6. g[T] = it[T]
  BY <1>3, <1>4, <1>5, RecursionUnique
<1> QED BY <1>2, <1>6

(* The sum is a natural number; it takes one element at a time.            *)
THEOREM SumOfNaturals ==
  ASSUME NEW S, IsFiniteSet(S), NEW f, \A x \in S : f[x] \in Nat
  PROVE  /\ SumFunctionOnSet(f, S) \in Nat
         /\ S = {} => SumFunctionOnSet(f, S) = 0
         /\ \A x \in S : SumFunctionOnSet(f, S)
                           = f[x] + SumFunctionOnSet(f, S \ {x})
PROOF
<1>1. PICK it : Totals(f, S, it)
  BY TotalsExist
<1>2. \A T \in SUBSET S : SumFunctionOnSet(f, T) = it[T]
  BY <1>1, SumOfSubset
<1>3. it \in [SUBSET S -> Nat]
  BY <1>1 DEF Totals
<1>4. Unfolds(f, S, it)
  BY <1>1, <1>3, TotalsStep
<1>7. /\ it[{}] = 0
      /\ \A s \in SUBSET S : s # {} =>
           \E x \in s : it[s] = f[x] + it[s \ {x}]
  BY <1>4, UnfoldsAt
<1>5. \A s \in SUBSET S : \A x \in s : it[s] = f[x] + it[s \ {x}]
  <2> DEFINE Good(s) == \A x \in s : it[s] = f[x] + it[s \ {x}]
             Bad == {s \in SUBSET S : ~Good(s)}
  <2> SUFFICES ASSUME Bad # {} PROVE FALSE
    OBVIOUS
  <2>1. Bad \in SUBSET (SUBSET S)
    OBVIOUS
  <2>2. PICK T \in Bad : \A U \in Bad : U \subseteq T => U = T
    <3> HIDE DEF Bad
    <3> QED BY <2>1, SmallestSet
  <2>3. \A U \in SUBSET T : U # T => Good(U)
    BY <2>2
  <2>4. PICK x \in T : it[T] # f[x] + it[T \ {x}]
    BY <2>2
  <2>5. PICK y \in T : it[T] = f[y] + it[T \ {y}]
    BY <1>7, <2>2, <2>4
  <2>6. T \in SUBSET S /\ y \in T /\ x # y /\ it[T] = f[y] + it[T \ {y}]
    BY <2>2, <2>4, <2>5
  <2>7. PICK A, B, C : A = T \ {y} /\ B = T \ {x} /\ C = T \ {x, y}
    OBVIOUS
  <2>8. A \ {x} = C /\ B \ {y} = C /\ x \in A /\ y \in B
        /\ A \in SUBSET T /\ A # T /\ B \in SUBSET T /\ B # T
    BY <2>6, <2>7
  <2>9. it[A] = f[x] + it[C] /\ it[B] = f[y] + it[C]
    BY <2>3, <2>8
  <2>10. it[C] \in Nat /\ f[x] \in Nat /\ f[y] \in Nat
    BY <1>3, <2>6, <2>7
  <2>11. it[T] = f[y] + it[A] /\ it[T] # f[x] + it[B]
    BY <2>4, <2>6, <2>7
  <2> QED BY <2>9, <2>10, <2>11
<1>6. /\ SumFunctionOnSet(f, S) = it[S] /\ SumFunctionOnSet(f, {}) = it[{}]
      /\ \A x \in S : SumFunctionOnSet(f, S \ {x}) = it[S \ {x}]
  <2>1. S \in SUBSET S /\ {} \in SUBSET S /\ \A x \in S : S \ {x} \in SUBSET S
    OBVIOUS
  <2> QED BY <1>2, <2>1
<1>8. S \in SUBSET S /\ it[S] \in Nat /\ it[{}] = 0
  BY <1>3, <1>7
<1>9. \A x \in S : it[S] = f[x] + it[S \ {x}]
  BY <1>5, <1>8
<1> QED BY <1>6, <1>8, <1>9

(* No number is above the sum it is in.                                    *)
THEOREM SumAboveElement ==
  ASSUME NEW S, IsFiniteSet(S), NEW f, \A x \in S : f[x] \in Nat, NEW x \in S
  PROVE  f[x] <= SumFunctionOnSet(f, S)
PROOF
<1>1. IsFiniteSet(S \ {x})
  BY FS_Subset, S \ {x} \in SUBSET S
<1>2. SumFunctionOnSet(f, S \ {x}) \in Nat
  BY <1>1, SumOfNaturals
<1>3. SumFunctionOnSet(f, S) = f[x] + SumFunctionOnSet(f, S \ {x})
  BY SumOfNaturals
<1> QED BY <1>2, <1>3

(* What a part of the set sums to is no more than the whole.               *)
THEOREM SumOfPart ==
  ASSUME NEW S, IsFiniteSet(S), NEW f, \A x \in S : f[x] \in Nat,
         NEW T \in SUBSET S
  PROVE  SumFunctionOnSet(f, T) <= SumFunctionOnSet(f, S)
PROOF
<1> DEFINE Good(U) == SumFunctionOnSet(f, T) <= SumFunctionOnSet(f, U)
           Bad == {U \in SUBSET S : T \subseteq U /\ ~Good(U)}
<1> SUFFICES ASSUME Bad # {} PROVE FALSE
  OBVIOUS
<1>1. PICK U \in Bad : \A V \in Bad : V \subseteq U => V = U
  <2>1. Bad \in SUBSET (SUBSET S)
    OBVIOUS
  <2> HIDE DEF Bad
  <2> QED BY <2>1, SmallestSet
<1>2. U \in SUBSET S /\ T \subseteq U /\ ~Good(U)
  OBVIOUS
<1>3. \A V \in SUBSET S : IsFiniteSet(V) /\ SumFunctionOnSet(f, V) \in Nat
  <2> TAKE V \in SUBSET S
  <2>1. IsFiniteSet(V) /\ \A x \in V : f[x] \in Nat
    BY FS_Subset
  <2> QED BY <2>1, SumOfNaturals
<1>4. U # T
  BY <1>2, <1>3
<1>5. PICK x \in U : x \notin T
  BY <1>2, <1>4
<1>6. PICK V \in SUBSET S : V = U \ {x}
  BY <1>2
<1>7. Good(V)
  BY <1>1, <1>2, <1>5, <1>6
<1>8. SumFunctionOnSet(f, U) = f[x] + SumFunctionOnSet(f, V)
  <2>1. IsFiniteSet(U) /\ \A y \in U : f[y] \in Nat
    BY <1>2, <1>3
  <2> QED BY <1>6, <2>1, SumOfNaturals
<1> QED BY <1>2, <1>3, <1>7, <1>8

(* Where each element of T counts one more, the sum is higher by as many.  *)
THEOREM SumRaised ==
  ASSUME NEW S, IsFiniteSet(S), NEW f, \A x \in S : f[x] \in Nat,
         NEW T \in SUBSET S, NEW g,
         \A x \in S : g[x] = f[x] + IF x \in T THEN 1 ELSE 0
  PROVE  SumFunctionOnSet(g, S) = SumFunctionOnSet(f, S) + Cardinality(T)
PROOF
<1> DEFINE Good(s) == SumFunctionOnSet(g, s)
                        = SumFunctionOnSet(f, s) + Cardinality(s \cap T)
           Bad == {s \in SUBSET S : ~Good(s)}
<1>1. Bad = {}
  <2> SUFFICES ASSUME Bad # {} PROVE FALSE
    OBVIOUS
  <2>1. PICK s \in Bad : \A U \in Bad : U \subseteq s => U = s
    <3>1. Bad \in SUBSET (SUBSET S)
      OBVIOUS
    <3> HIDE DEF Bad
    <3> QED BY <3>1, SmallestSet
  <2>2. s \in SUBSET S /\ ~Good(s) /\ IsFiniteSet(s)
    BY FS_Subset
  <2>3. (\A x \in s : f[x] \in Nat) /\ (\A x \in s : g[x] \in Nat)
    BY <2>2
  <2>4. CASE s = {}
    <3>1. SumFunctionOnSet(f, s) = 0 /\ SumFunctionOnSet(g, s) = 0
      BY <2>2, <2>3, <2>4, SumOfNaturals
    <3>2. Cardinality(s \cap T) = 0
      BY <2>4, FS_EmptySet
    <3> QED BY <2>2, <3>1, <3>2
  <2>5. CASE s # {}
    <3>1. PICK x \in s : TRUE
      BY <2>5
    <3>2. PICK u : u = s \ {x}
      OBVIOUS
    <3>3. u \in SUBSET S /\ u # s /\ u \subseteq s /\ IsFiniteSet(u)
      BY <3>1, <3>2, <2>2, FS_Subset
    <3>4. Good(u)
      BY <2>1, <3>3
    <3>5. SumFunctionOnSet(f, s) = f[x] + SumFunctionOnSet(f, u)
      BY <2>2, <2>3, <3>1, <3>2, SumOfNaturals
    <3>6. SumFunctionOnSet(g, s) = g[x] + SumFunctionOnSet(g, u)
      BY <2>2, <2>3, <3>1, <3>2, SumOfNaturals
    <3>7. SumFunctionOnSet(f, u) \in Nat /\ SumFunctionOnSet(g, u) \in Nat
      BY <2>3, <3>3, SumOfNaturals
    <3>8. IsFiniteSet(u \cap T) /\ IsFiniteSet(s \cap T)
      BY <3>3, <2>2, FS_Subset
    <3>9. Cardinality(s \cap T) =
            Cardinality(u \cap T) + IF x \in T THEN 1 ELSE 0
      <4>1. CASE x \in T
        <5>1. s \cap T = (u \cap T) \cup {x} /\ x \notin u \cap T
          BY <3>1, <3>2, <4>1
        <5> QED BY <3>8, <4>1, <5>1, FS_AddElement
      <4>2. CASE x \notin T
        <5>1. s \cap T = u \cap T
          BY <3>2, <4>2
        <5>2. Cardinality(u \cap T) \in Nat
          BY <3>8, FS_CardinalityType
        <5> QED BY <4>2, <5>1, <5>2
      <4> QED BY <4>1, <4>2
    <3>10. Cardinality(u \cap T) \in Nat /\ f[x] \in Nat
           /\ g[x] = f[x] + IF x \in T THEN 1 ELSE 0
      BY <3>8, FS_CardinalityType, <2>2, <3>1
    <3> QED BY <2>2, <3>4, <3>5, <3>6, <3>7, <3>9, <3>10
  <2> QED BY <2>4, <2>5
<1>2. Good(S)
  BY <1>1
<1>3. S \cap T = T
  OBVIOUS
<1> QED BY <1>2, <1>3

(* Sums of equal terms are equal.                                          *)
LEMMA SumSame ==
  ASSUME NEW S, IsFiniteSet(S), NEW f, NEW g,
         \A x \in S : f[x] \in Nat /\ g[x] = f[x]
  PROVE  SumFunctionOnSet(g, S) = SumFunctionOnSet(f, S)
PROOF
<1>1. \A x \in S : g[x] = f[x] + IF x \in {} THEN 1 ELSE 0
  OBVIOUS
<1>2. {} \in SUBSET S /\ \A x \in S : f[x] \in Nat
  OBVIOUS
<1>3. SumFunctionOnSet(g, S) = SumFunctionOnSet(f, S) + Cardinality({})
  BY <1>1, <1>2, SumRaised
<1>4. Cardinality({}) = 0 /\ SumFunctionOnSet(f, S) \in Nat
  BY FS_EmptySet, SumOfNaturals
<1> QED BY <1>3, <1>4

(* As many elements as the disjoint sets have together.                    *)
THEOREM CountOfUnion ==
  ASSUME NEW S, IsFiniteSet(S), NEW h, NEW f,
         \A x \in S : IsFiniteSet(h[x]) /\ f[x] = Cardinality(h[x]),
         \A x, y \in S : x # y => h[x] \cap h[y] = {}
  PROVE  /\ IsFiniteSet(UNION {h[x] : x \in S})
         /\ Cardinality(UNION {h[x] : x \in S}) = SumFunctionOnSet(f, S)
PROOF
<1> DEFINE All(s) == UNION {h[x] : x \in s}
           Good(s) == /\ IsFiniteSet(All(s))
                      /\ Cardinality(All(s)) = SumFunctionOnSet(f, s)
           Bad == {s \in SUBSET S : ~Good(s)}
<1>1. \A x \in S : f[x] \in Nat
  BY FS_CardinalityType
<1>2. Bad = {}
  <2> SUFFICES ASSUME Bad # {} PROVE FALSE
    OBVIOUS
  <2>1. PICK s \in Bad : \A U \in Bad : U \subseteq s => U = s
    <3>1. Bad \in SUBSET (SUBSET S)
      OBVIOUS
    <3> HIDE DEF Bad
    <3> QED BY <3>1, SmallestSet
  <2>2. s \in SUBSET S /\ ~Good(s) /\ IsFiniteSet(s)
    BY FS_Subset
  <2>3. \A x \in s : f[x] \in Nat
    BY <1>1, <2>2
  <2>4. CASE s = {}
    <3>1. SumFunctionOnSet(f, s) = 0
      BY <2>2, <2>3, <2>4, SumOfNaturals
    <3>2. All(s) = {}
      BY <2>4
    <3> QED BY <2>2, <3>1, <3>2, FS_EmptySet
  <2>5. CASE s # {}
    <3>1. PICK x \in s : TRUE
      BY <2>5
    <3>2. PICK u : u = s \ {x}
      OBVIOUS
    <3>3. u \in SUBSET S /\ u # s /\ u \subseteq s /\ IsFiniteSet(u)
      BY <3>1, <3>2, <2>2, FS_Subset
    <3>4. Good(u)
      BY <2>1, <3>3
    <3>5. SumFunctionOnSet(f, s) = f[x] + SumFunctionOnSet(f, u)
      BY <2>2, <2>3, <3>1, <3>2, SumOfNaturals
    <3>6. SumFunctionOnSet(f, u) \in Nat /\ f[x] \in Nat
      BY <2>3, <3>1, <3>3, SumOfNaturals
    <3>7. PICK a, b : a = All(u) /\ b = h[x]
      OBVIOUS
    <3>8. All(s) = a \cup b
      BY <3>1, <3>2, <3>7
    <3>9. a \cap b = {}
      BY <2>2, <3>1, <3>2, <3>7
    <3>10. /\ IsFiniteSet(a) /\ Cardinality(a) = SumFunctionOnSet(f, u)
           /\ IsFiniteSet(b) /\ Cardinality(b) = f[x]
      BY <2>2, <3>1, <3>4, <3>7
    <3>11. IsFiniteSet(a \cup b)
      BY <3>10, FS_Union
    <3>12. Cardinality(a \cup b) = Cardinality(a) + Cardinality(b)
      <4>1. Cardinality(a \cup b)
              = Cardinality(a) + Cardinality(b) - Cardinality(a \cap b)
        BY <3>10, FS_Union
      <4>2. Cardinality(a \cap b) = 0
        BY <3>9, FS_EmptySet
      <4> QED BY <4>1, <4>2, <3>6, <3>10
    <3>13. Cardinality(All(s)) = SumFunctionOnSet(f, s)
      <4>1. PICK n \in Nat, m \in Nat :
              n = SumFunctionOnSet(f, u) /\ m = f[x]
        BY <3>6
      <4>2. Cardinality(a \cup b) = n + m
        BY <3>10, <3>12, <4>1
      <4>3. SumFunctionOnSet(f, s) = m + n
        BY <3>5, <4>1
      <4>4. Cardinality(All(s)) = Cardinality(a \cup b)
        BY <3>8
      <4> QED BY <4>2, <4>3, <4>4
    <3> QED BY <2>2, <3>8, <3>11, <3>13
  <2> QED BY <2>4, <2>5
<1>3. Good(S)
  BY <1>2
<1> QED BY <1>3

-----------------------------------------------------------------------------
(***************************************************************************)
(* Division, for what is counted in blocks of equal size.                  *)
(***************************************************************************)
(* A number is its quotient and its remainder.                             *)
LEMMA DivFacts ==
  ASSUME NEW n \in Nat \ {0}, NEW p \in Nat
  PROVE  /\ p \div n \in Nat /\ p % n \in 0..n - 1
         /\ p = (p \div n) * n + (p % n)
  OBVIOUS

(* A multiple below another is below it by n at least.                     *)
LEMMA MultiplesApart ==
  ASSUME NEW n \in Nat \ {0}, NEW a \in Int, NEW b \in Int, a < b
  PROVE  a * n + n <= b * n
PROOF
<1>1. PICK d \in Nat : b = a + 1 + d
  <2>1. b - a - 1 \in Nat /\ b = a + 1 + (b - a - 1)
    OBVIOUS
  <2> QED BY <2>1
<1>2. b * n = a * n + n + d * n
  BY <1>1
<1>3. d * n \in Nat /\ a * n \in Int /\ b * n \in Int
  OBVIOUS
<1> QED BY <1>2, <1>3

(* A number is told apart by its quotient and its remainder,               *)
LEMMA DivUnique ==
  ASSUME NEW n \in Nat \ {0}, NEW b \in Int, NEW c \in Int,
         NEW o \in 0..n - 1, NEW e \in 0..n - 1, b * n + o = c * n + e
  PROVE  b = c /\ o = e
PROOF
<1>1. b * n \in Int /\ c * n \in Int
  OBVIOUS
<1>2. ~(b < c)
  BY <1>1, MultiplesApart
<1>3. ~(c < b)
  BY <1>1, MultiplesApart
<1> QED BY <1>2, <1>3

(* which are those it was put together from.                               *)
LEMMA DivOf ==
  ASSUME NEW n \in Nat \ {0}, NEW b \in Nat, NEW o \in 0..n - 1
  PROVE  (b * n + o) \div n = b /\ (b * n + o) % n = o
PROOF
<1>1. PICK p \in Nat : p = b * n + o
  OBVIOUS
<1>2. p = (p \div n) * n + (p % n) /\ p \div n \in Nat /\ p % n \in 0..n - 1
  BY DivFacts
<1>3. b * n + o = (p \div n) * n + (p % n)
  BY <1>1, <1>2
<1> QED BY <1>1, <1>2, <1>3, DivUnique

(* Rounding up: one more than rounding down, but for a multiple.           *)
LEMMA RoundedUp ==
  ASSUME NEW n \in Nat \ {0}, NEW p \in Nat
  PROVE  /\ p % n = 0 => (p + n - 1) \div n = p \div n
         /\ p % n # 0 => (p + n - 1) \div n = p \div n + 1
         /\ (p + 1 + n - 1) \div n = p \div n + 1
PROOF
<1>1. PICK b \in Nat, o \in 0..n - 1 :
        b = p \div n /\ o = p % n /\ p = b * n + o
  BY DivFacts
<1>2. b * n \in Nat /\ (b + 1) * n = b * n + n /\ b + 1 \in Nat
  OBVIOUS
<1>3. o = 0 => p + n - 1 = b * n + (n - 1) /\ n - 1 \in 0..n - 1
  BY <1>1, <1>2
<1>4. o # 0 => p + n - 1 = (b + 1) * n + (o - 1) /\ o - 1 \in 0..n - 1
  BY <1>1, <1>2
<1>5. p + 1 + n - 1 = (b + 1) * n + o
  BY <1>1, <1>2
<1>6. o = 0 => (p + n - 1) \div n = b
  BY <1>3, DivOf
<1>7. o # 0 => (p + n - 1) \div n = b + 1
  BY <1>2, <1>4, DivOf
<1>8. (p + 1 + n - 1) \div n = b + 1
  BY <1>2, <1>5, DivOf
<1> QED BY <1>1, <1>6, <1>7, <1>8

(* The least of some numbers.                                              *)
LEMMA LeastNat ==
  ASSUME NEW S \in SUBSET Nat, S # {}
  PROVE  \E i \in S : \A j \in S : i <= j
PROOF
<1>1. PICK k \in S : TRUE
  OBVIOUS
<1>2. PICK F : F = {0..i : i \in {j \in S : j <= k}}
  OBVIOUS
<1>3. F \in SUBSET (SUBSET (0..k)) /\ F # {}
  <2>1. 0..k \in F
    BY <1>1, <1>2
  <2>2. \A i \in S : i <= k => 0..i \subseteq 0..k
    BY <1>1
  <2> QED BY <1>2, <2>1, <2>2
<1>4. PICK B \in F : \A U \in F : U \subseteq B => U = B
  <2>1. PICK K : K = 0..k
    OBVIOUS
  <2>2. IsFiniteSet(K)
    BY <1>1, <2>1, FS_Interval
  <2>3. F \in SUBSET (SUBSET K) /\ F # {}
    BY <1>3, <2>1
  <2> QED BY <2>2, <2>3, SmallestSet
<1>5. PICK i \in S : i <= k /\ B = 0..i
  BY <1>2
<1>6. ASSUME NEW j \in S, j < i PROVE FALSE
  <2>1. 0..j \in F
    BY <1>1, <1>2, <1>5, <1>6
  <2>2. 0..j \subseteq B /\ i \in B /\ i \notin 0..j
    BY <1>5, <1>6
  <2> QED BY <1>4, <2>1, <2>2
<1> QED BY <1>6

(* The largest of finitely many numbers.                                   *)
LEMMA LargestNat ==
  ASSUME NEW S \in SUBSET Nat, IsFiniteSet(S), S # {}
  PROVE  \E i \in S : \A j \in S : i >= j
PROOF
<1>1. PICK F : F = {{j \in S : j >= i} : i \in S}
  OBVIOUS
<1>2. F \in SUBSET (SUBSET S) /\ F # {}
  BY <1>1
<1>3. PICK B \in F : \A U \in F : U \subseteq B => U = B
  <2>1. PICK K : K = S
    OBVIOUS
  <2>2. IsFiniteSet(K) /\ F \in SUBSET (SUBSET K) /\ F # {}
    BY <1>2, <2>1
  <2> QED BY <2>2, SmallestSet
<1>4. PICK i \in S : B = {j \in S : j >= i}
  BY <1>1, <1>3
<1>5. ASSUME NEW k \in S, ~(i >= k) PROVE FALSE
  <2>1. PICK U : U = {j \in S : j >= k}
    OBVIOUS
  <2>2. U \in F
    BY <1>1, <1>5, <2>1
  <2>3. \A j \in S : j \in Nat
    OBVIOUS
  <2>4. i \in Nat /\ k \in Nat /\ k > i
    BY <1>5, <2>3
  <2>5. ASSUME NEW j \in U PROVE j \in B
    <3>1. j \in S /\ j >= k
      BY <2>1
    <3>2. j \in Nat /\ j >= i
      BY <2>3, <2>4, <3>1
    <3> QED BY <1>4, <3>1, <3>2
  <2>6. i \in B /\ i \notin U
    BY <1>4, <2>1, <2>4
  <2>7. U \subseteq B
    BY <2>5
  <2> QED BY <1>3, <2>2, <2>6, <2>7
<1> QED BY <1>5

(* A segment of the numbers is finite.                                     *)
LEMMA UpToFinite ==
  ASSUME NEW k \in Nat
  PROVE  IsFiniteSet(1..k)
PROOF
<1>1. 1 \in Int /\ k \in Int
  OBVIOUS
<1> QED BY <1>1, FS_Interval
=============================================================================
