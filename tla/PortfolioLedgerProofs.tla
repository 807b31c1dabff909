----------------------- MODULE PortfolioLedgerProofs -----------------------
(***************************************************************************)
(* Proofs about PortfolioLedger for any owner, any number of keys, readers,   *)
(* stocks, ledger rows and market updates.  A sum of the model is a fold over *)
(* a finite set; the first part shows, by induction on its size, that it does *)
(* not depend on the order in which it is taken and how it changes with one    *)
(* element.                                                                    *)
(***************************************************************************)
EXTENDS PortfolioLedger, TLAPS, FiniteSetTheorems, WellFoundedInduction

-----------------------------------------------------------------------------
(* Finite sums *)

\* Induction over naturals and over finite sets, for a set of those that have the property.
LEMMA Least ==
  ASSUME NEW N \in SUBSET Nat, N # {}
  PROVE  \E n \in N : \A m \in N : n <= m
  <1>1. IsWellFoundedOn(OpToRel(<, Nat), Nat)
    BY NatLessThanWellFounded
  <1>2. PICK n \in N : \A m \in N : <<m, n>> \notin OpToRel(<, Nat)
    BY <1>1, WFMin
  <1>3. \A m \in N : ~(m < n)
    BY <1>2 DEF OpToRel
  <1>. QED
    BY <1>3

LEMMA AllNumbers ==
  ASSUME NEW N \in SUBSET Nat, 0 \in N, \A n \in N : n + 1 \in N
  PROVE  N = Nat
  <1>. SUFFICES ASSUME Nat \ N # {}
                PROVE  FALSE
    OBVIOUS
  <1>1. PICK n \in Nat \ N : \A m \in Nat \ N : n <= m
    BY Least
  <1>2. n - 1 \in N /\ n = (n - 1) + 1
    BY <1>1
  <1>. QED
    BY <1>1, <1>2

LEMMA AllSubsets ==
  ASSUME NEW S, IsFiniteSet(S), NEW G \in SUBSET SUBSET S, {} \in G,
         \A T \in SUBSET S : T # {} /\ (\A x \in T : T \ {x} \in G) => T \in G
  PROVE  G = SUBSET S
  <1>. DEFINE N == {n \in Nat : \A T \in SUBSET S : Cardinality(T) = n => T \in G}
  <1>1. \A T \in SUBSET S : IsFiniteSet(T) /\ Cardinality(T) \in Nat
    BY FS_Subset, FS_CardinalityType
  <1>2. 0 \in N
    BY <1>1, FS_EmptySet
  <1>3. ASSUME NEW n \in N
        PROVE  n + 1 \in N
    <2>. SUFFICES ASSUME NEW T \in SUBSET S, Cardinality(T) = n + 1
                  PROVE  T \in G
      OBVIOUS
    <2>1. T # {}
      BY FS_EmptySet
    <2>2. ASSUME NEW x \in T
          PROVE  T \ {x} \in G
      <3>1. Cardinality(T \ {x}) = Cardinality(T) - 1
        BY <1>1, FS_RemoveElement
      <3>. QED
        BY <3>1
    <2>. QED
      BY <2>1, <2>2
  <1>4. N = Nat
    BY <1>2, <1>3, AllNumbers
  <1>. QED
    BY <1>1, <1>4

-----------------------------------------------------------------------------
Pick(s) == CHOOSE x \in s : TRUE
Added(f, D, it) == it = [s \in D |-> IF s = {} THEN 0 ELSE f[Pick(s)] + it[s \ {Pick(s)}]]
Adds(f, S) == CHOOSE it : Added(f, SUBSET S, it)

LEMMA SumUnfolds ==
  ASSUME NEW f
  PROVE  Sum(f) = Adds(f, DOMAIN f)[DOMAIN f]
  BY DEF Sum, MapThenSumSet, MapThenFoldSet, Adds, Added, Pick

\* The recursive function of MapThenFoldSet exists: it is built up by size.
LEMMA Additions ==
  ASSUME NEW f, NEW S, IsFiniteSet(S)
  PROVE  Added(f, SUBSET S, Adds(f, S))
  <1>. DEFINE Small(n) == {T \in SUBSET S : Cardinality(T) <= n}
              N == {n \in Nat : \E it : Added(f, Small(n), it)}
  <1>1. \A T \in SUBSET S : IsFiniteSet(T) /\ Cardinality(T) \in Nat /\ Cardinality(T) <= Cardinality(S)
    BY FS_Subset, FS_CardinalityType
  <1>2. Cardinality(S) \in Nat /\ Small(Cardinality(S)) = SUBSET S
    BY <1>1, FS_CardinalityType
  <1>3. Small(0) = {{}}
    BY <1>1, FS_EmptySet
  <1>4. 0 \in N
    <2>. DEFINE it == [s \in {{}} |-> 0]
    <2>1. it = [s \in {{}} |-> IF s = {} THEN 0 ELSE f[Pick(s)] + it[s \ {Pick(s)}]]
      OBVIOUS
    <2>. QED
      BY <1>3, <2>1 DEF Added
  <1>5. ASSUME NEW n \in N
        PROVE  n + 1 \in N
    <2>1. PICK it : Added(f, Small(n), it)
      OBVIOUS
    <2>. DEFINE next == [s \in Small(n + 1) |->
                          IF s = {} THEN 0 ELSE f[Pick(s)] + it[s \ {Pick(s)}]]
    <2>2. \A s \in Small(n + 1) : s # {} => s \ {Pick(s)} \in Small(n)
      <3>1. SUFFICES ASSUME NEW s \in Small(n + 1), s # {}
                     PROVE  Cardinality(s \ {Pick(s)}) <= n
        OBVIOUS
      <3>2. Pick(s) \in s
        BY <3>1 DEF Pick
      <3>. QED
        BY <1>1, <3>1, <3>2, FS_RemoveElement
    <2>3. \A s \in Small(n) : next[s] = it[s]
      <3>1. \A s \in Small(n) : s \in Small(n + 1)
        BY <1>1
      <3>2. \A s \in Small(n) : it[s] = IF s = {} THEN 0 ELSE f[Pick(s)] + it[s \ {Pick(s)}]
        BY <2>1 DEF Added
      <3>. QED
        BY <3>1, <3>2
    <2>4. next = [s \in Small(n + 1) |-> IF s = {} THEN 0 ELSE f[Pick(s)] + next[s \ {Pick(s)}]]
      BY <2>2, <2>3
    <2>. HIDE DEF next, Small
    <2>5. Added(f, Small(n + 1), next)
      BY <2>4 DEF Added
    <2>. QED
      BY <2>5
  <1>6. N = Nat
    BY <1>4, <1>5, AllNumbers
  <1>7. \E it : Added(f, Small(Cardinality(S)), it)
    BY <1>2, <1>6
  <1>8. \E it : Added(f, SUBSET S, it)
    BY <1>2, <1>7
  <1>. QED
    BY <1>8 DEF Adds

LEMMA AddsStep ==
  ASSUME NEW f, NEW S, IsFiniteSet(S), NEW T \in SUBSET S
  PROVE  /\ T = {} => Adds(f, S)[T] = 0
         /\ T # {} => Adds(f, S)[T] = f[Pick(T)] + Adds(f, S)[T \ {Pick(T)}]
  <1>1. Added(f, SUBSET S, Adds(f, S))
    BY Additions
  <1>2. T = {} => Adds(f, S)[T] = 0
    BY <1>1 DEF Added
  <1>3. T # {} => Adds(f, S)[T] = f[Pick(T)] + Adds(f, S)[T \ {Pick(T)}]
    BY <1>1 DEF Added
  <1>. QED
    BY <1>2, <1>3

\* What it gives for a set is the sum over that set, and depends on nothing else.
On(f, T) == Sum([x \in T |-> f[x]])

LEMMA AddsUp ==
  ASSUME NEW f, NEW S, IsFiniteSet(S)
  PROVE  \A T \in SUBSET S : Adds(f, S)[T] = On(f, T)
  <1>. DEFINE N == {n \in Nat : \A A, T : IsFiniteSet(A) /\ T \in SUBSET A /\ Cardinality(T) = n =>
                                 \A g : (\A x \in T : g[x] = f[x]) => Adds(g, A)[T] = Adds(f, T)[T]}
  <1>0. \A A, T : IsFiniteSet(A) /\ T \in SUBSET A => IsFiniteSet(T) /\ Cardinality(T) \in Nat
    BY FS_Subset, FS_CardinalityType
  <1>2. 0 \in N
    <2>1. SUFFICES ASSUME NEW A, NEW T, IsFiniteSet(A), T \in SUBSET A, Cardinality(T) = 0, NEW g
                   PROVE  Adds(g, A)[T] = Adds(f, T)[T]
      OBVIOUS
    <2>2. T = {} /\ T \in SUBSET T /\ IsFiniteSet(T)
      BY <1>0, <2>1, FS_EmptySet
    <2>. QED
      <3>1. Adds(g, A)[T] = 0
        BY <2>1, <2>2, AddsStep
      <3>2. Adds(f, T)[T] = 0
        BY <2>2, AddsStep
      <3>. QED
        BY <3>1, <3>2
  <1>3. ASSUME NEW n \in N
        PROVE  n + 1 \in N
    <2>1. SUFFICES ASSUME NEW A, NEW T, IsFiniteSet(A), T \in SUBSET A, Cardinality(T) = n + 1,
                          NEW g, \A x \in T : g[x] = f[x]
                   PROVE  Adds(g, A)[T] = Adds(f, T)[T]
      OBVIOUS
    <2>. DEFINE R == T \ {Pick(T)}
    <2>2. T # {} /\ Pick(T) \in T /\ IsFiniteSet(T)
      BY <1>0, <2>1, FS_EmptySet DEF Pick
    <2>3. Cardinality(R) = n /\ R \in SUBSET A /\ R \in SUBSET T
      <3>1. Cardinality(R) = Cardinality(T) - 1
        BY <2>2, FS_RemoveElement
      <3>. QED
        BY <2>1, <3>1
    <2>4. Adds(g, A)[R] = Adds(f, R)[R]
      BY <2>1, <2>3
    <2>5. Adds(f, T)[R] = Adds(f, R)[R]
      BY <2>2, <2>3
    <2>6. Adds(g, A)[T] = g[Pick(T)] + Adds(g, A)[R]
      BY <2>1, <2>2, AddsStep
    <2>7. Adds(f, T)[T] = f[Pick(T)] + Adds(f, T)[R]
      BY <2>2, AddsStep
    <2>. QED
      BY <2>1, <2>2, <2>4, <2>5, <2>6, <2>7
  <1>4. N = Nat
    BY <1>2, <1>3, AllNumbers
  <1>5. ASSUME NEW T \in SUBSET S
        PROVE  Adds(f, S)[T] = On(f, T)
    <2>. DEFINE h == [x \in T |-> f[x]]
    <2>1. On(f, T) = Adds(h, T)[T]
      BY SumUnfolds DEF On
    <2>2. Cardinality(T) \in N /\ IsFiniteSet(T)
      BY <1>0, <1>4
    <2>3. Adds(h, T)[T] = Adds(f, T)[T]
      BY <2>2
    <2>4. Adds(f, S)[T] = Adds(f, T)[T]
      BY <2>2
    <2>. QED
      BY <2>1, <2>3, <2>4
  <1>. QED
    BY <1>5

LEMMA OnStep ==
  ASSUME NEW f, NEW T, IsFiniteSet(T)
  PROVE  /\ T = {} => On(f, T) = 0
         /\ T # {} => Pick(T) \in T /\ On(f, T) = f[Pick(T)] + On(f, T \ {Pick(T)})
  <1>1. T \in SUBSET T /\ T \ {Pick(T)} \in SUBSET T
    OBVIOUS
  <1>2. /\ Adds(f, T)[T] = On(f, T)
        /\ Adds(f, T)[T \ {Pick(T)}] = On(f, T \ {Pick(T)})
    BY <1>1, AddsUp
  <1>3. T = {} => On(f, T) = 0
    BY <1>1, <1>2, AddsStep
  <1>4. T # {} => On(f, T) = f[Pick(T)] + On(f, T \ {Pick(T)})
    BY <1>1, <1>2, AddsStep
  <1>5. T # {} => Pick(T) \in T
    BY DEF Pick
  <1>. QED
    BY <1>3, <1>4, <1>5

\* A sum does not depend on the order it is taken in.
LEMMA OnRemove ==
  ASSUME NEW f, NEW S, IsFiniteSet(S), \A x \in S : f[x] \in Int
  PROVE  \A T \in SUBSET S : /\ On(f, T) \in Int
                            /\ \A x \in T : On(f, T) = f[x] + On(f, T \ {x})
  <1>. DEFINE Any(T) == \A x \in T : /\ On(f, T \ {x}) \in Int
                                   /\ On(f, T) = f[x] + On(f, T \ {x})
              G == {T \in SUBSET S : On(f, T) \in Int /\ Any(T)}
  <1>1. \A T \in SUBSET S : IsFiniteSet(T)
    BY FS_Subset
  <1>2. {} \in G
    <2>1. On(f, {}) = 0
      BY OnStep, FS_EmptySet
    <2>. QED
      BY <2>1
  <1>3. ASSUME NEW T \in SUBSET S, T # {}, \A x \in T : T \ {x} \in G
        PROVE  T \in G
    <2>. DEFINE y == Pick(T)
    <2>1. y \in T /\ On(f, T) = f[y] + On(f, T \ {y}) /\ T \ {y} \in G
      BY <1>1, <1>3, OnStep
    <2>. HIDE DEF y
    <2>2. On(f, T) \in Int
      BY <2>1
    <2>3. ASSUME NEW x \in T, x # y
          PROVE  On(f, T) = f[x] + On(f, T \ {x})
      <3>1. (T \ {y}) \ {x} = (T \ {x}) \ {y} /\ x \in T \ {y} /\ y \in T \ {x}
        BY <2>1, <2>3
      <3>2. T \ {x} \in G /\ (T \ {y}) \ {x} \in SUBSET S
        BY <1>3
      <3>3. On(f, T \ {y}) = f[x] + On(f, (T \ {y}) \ {x})
        BY <2>1, <3>1
      <3>4. On(f, T \ {x}) = f[y] + On(f, (T \ {x}) \ {y})
        BY <3>1, <3>2
      <3>5. On(f, (T \ {y}) \ {x}) \in Int
        BY <2>1, <3>1
      <3>. QED
        BY <2>1, <3>1, <3>3, <3>4, <3>5
    <2>4. \A x \in T : On(f, T \ {x}) \in Int
      BY <1>3
    <2>. QED
      BY <2>1, <2>2, <2>3, <2>4
  <1>. HIDE DEF G
  <1>4. G = SUBSET S
    <2>1. G \in SUBSET SUBSET S
      BY DEF G
    <2>. QED
      BY <1>2, <1>3, <2>1, AllSubsets
  <1>. QED
    BY <1>4 DEF G

LEMMA OnAdd ==
  ASSUME NEW f, NEW S, IsFiniteSet(S), \A x \in S : f[x] \in Int, NEW x \in S
  PROVE  On(f, S) = f[x] + On(f, S \ {x}) /\ On(f, S \ {x}) \in Int /\ On(f, S) \in Int
  <1>1. \A T \in SUBSET S : On(f, T) \in Int /\ \A y \in T : On(f, T) = f[y] + On(f, T \ {y})
    BY OnRemove
  <1>2. S \in SUBSET S /\ S \ {x} \in SUBSET S
    OBVIOUS
  <1>. QED
    BY <1>1, <1>2

LEMMA OneMore ==
  ASSUME NEW f, NEW S, IsFiniteSet(S), NEW g, NEW n, n \notin S,
         \A x \in S : f[x] \in Int /\ g[x] = f[x], g[n] \in Int
  PROVE  On(g, S \cup {n}) = On(f, S) + g[n] /\ On(f, S) \in Int
  <1>. DEFINE T == S \cup {n}
  <1>1. IsFiniteSet(T)
    BY FS_AddElement
  <1>2. n \in T /\ T \ {n} = S /\ \A x \in T : g[x] \in Int
    OBVIOUS
  <1>3. On(g, S) = On(f, S)
    <2>1. [x \in S |-> g[x]] = [x \in S |-> f[x]]
      OBVIOUS
    <2>. QED
      BY <2>1 DEF On
  <1>. HIDE DEF T
  <1>4. On(g, T) = g[n] + On(g, T \ {n}) /\ On(g, T \ {n}) \in Int
    BY <1>1, <1>2, OnAdd
  <1>5. On(g, T \ {n}) = On(f, S)
    BY <1>2, <1>3
  <1>6. On(g, T) = On(f, S) + g[n] /\ On(f, S) \in Int
    BY <1>4, <1>5
  <1>. QED
    BY <1>6 DEF T

LEMMA OnEmpty == ASSUME NEW f PROVE On(f, {}) = 0
  BY OnStep, FS_EmptySet

LEMMA OnNat ==
  ASSUME NEW f, NEW S, IsFiniteSet(S), \A x \in S : f[x] \in Nat
  PROVE  \A T \in SUBSET S : On(f, T) \in Nat /\ \A x \in T : f[x] <= On(f, T)
  <1>. DEFINE G == {T \in SUBSET S : On(f, T) \in Nat}
  <1>1. {} \in G
    BY OnEmpty
  <1>2. \A T \in SUBSET S : /\ On(f, T) \in Int
                            /\ \A x \in T : On(f, T) = f[x] + On(f, T \ {x})
    <2>1. \A x \in S : f[x] \in Int
      OBVIOUS
    <2>. QED
      BY <2>1, OnRemove
  <1>3. ASSUME NEW T \in SUBSET S, T # {}, \A x \in T : T \ {x} \in G
        PROVE  T \in G
    <2>1. PICK x \in T : TRUE
      BY <1>3
    <2>2. On(f, T \ {x}) \in Nat /\ f[x] \in Nat /\ On(f, T) = f[x] + On(f, T \ {x})
      BY <1>2, <1>3
    <2>3. On(f, T) \in Nat
      BY <2>2
    <2>. QED
      BY <2>3
  <1>. HIDE DEF G
  <1>4. G = SUBSET S
    <2>1. G \in SUBSET SUBSET S
      BY DEF G
    <2>. QED
      BY <1>1, <1>3, <2>1, AllSubsets
  <1>5. \A T \in SUBSET S : On(f, T) \in Nat
    BY <1>4 DEF G
  <1>6. ASSUME NEW T \in SUBSET S, NEW x \in T
        PROVE  f[x] <= On(f, T)
    <2>1. On(f, T) = f[x] + On(f, T \ {x}) /\ On(f, T \ {x}) \in Nat /\ f[x] \in Nat
      BY <1>2, <1>5
    <2>. QED
      BY <2>1
  <1>. QED
    BY <1>5, <1>6

LEMMA OnPlus ==
  ASSUME NEW f, NEW g, NEW h, NEW S, IsFiniteSet(S),
         \A x \in S : f[x] \in Int /\ g[x] \in Int /\ h[x] = f[x] + g[x]
  PROVE  On(h, S) = On(f, S) + On(g, S)
  <1>. DEFINE G == {T \in SUBSET S : On(h, T) = On(f, T) + On(g, T)}
  <1>1. {} \in G
    BY OnEmpty
  <1>2. \A T \in SUBSET S : /\ On(f, T) \in Int /\ \A x \in T : On(f, T) = f[x] + On(f, T \ {x})
    BY OnRemove
  <1>3. \A T \in SUBSET S : /\ On(g, T) \in Int /\ \A x \in T : On(g, T) = g[x] + On(g, T \ {x})
    BY OnRemove
  <1>4. \A T \in SUBSET S : /\ On(h, T) \in Int /\ \A x \in T : On(h, T) = h[x] + On(h, T \ {x})
    <2>1. \A x \in S : h[x] \in Int
      OBVIOUS
    <2>. QED
      BY <2>1, OnRemove
  <1>5. ASSUME NEW T \in SUBSET S, T # {}, \A x \in T : T \ {x} \in G
        PROVE  T \in G
    <2>1. PICK x \in T : TRUE
      BY <1>5
    <2>2. T \ {x} \in SUBSET S /\ On(h, T \ {x}) = On(f, T \ {x}) + On(g, T \ {x})
      BY <1>5
    <2>3. /\ On(f, T) = f[x] + On(f, T \ {x}) /\ On(f, T \ {x}) \in Int
          /\ On(g, T) = g[x] + On(g, T \ {x}) /\ On(g, T \ {x}) \in Int
          /\ On(h, T) = h[x] + On(h, T \ {x})
      BY <1>2, <1>3, <1>4, <2>2
    <2>4. f[x] \in Int /\ g[x] \in Int /\ h[x] = f[x] + g[x]
      OBVIOUS
    <2>5. On(h, T) = On(f, T) + On(g, T)
      BY <2>2, <2>3, <2>4
    <2>. QED
      BY <2>5
  <1>. HIDE DEF G
  <1>6. G = SUBSET S
    <2>1. G \in SUBSET SUBSET S
      BY DEF G
    <2>. QED
      BY <1>1, <1>5, <2>1, AllSubsets
  <1>7. S \in G
    BY <1>6
  <1>. QED
    BY <1>7 DEF G

LEMMA OnDrop ==
  ASSUME NEW f, NEW S, IsFiniteSet(S), \A x \in S : f[x] \in Int,
         NEW R \in SUBSET S, \A x \in S \ R : f[x] = 0
  PROVE  On(f, S) = On(f, R)
  <1>. DEFINE G == {T \in SUBSET S : On(f, T) = On(f, T \cap R)}
  <1>1. {} \in G
    <2>1. {} \cap R = {}
      OBVIOUS
    <2>. QED
      BY <2>1
  <1>2. \A T \in SUBSET S : /\ On(f, T) \in Int /\ \A x \in T : On(f, T) = f[x] + On(f, T \ {x})
    BY OnRemove
  <1>3. ASSUME NEW T \in SUBSET S, T # {}, \A x \in T : T \ {x} \in G
        PROVE  T \in G
    <2>1. PICK x \in T : TRUE
      BY <1>3
    <2>2. On(f, T \ {x}) = On(f, (T \ {x}) \cap R)
      BY <1>3
    <2>3. On(f, T) = f[x] + On(f, T \ {x}) /\ On(f, T \ {x}) \in Int
      BY <1>2
    <2>4. CASE x \in R
      <3>1. (T \cap R) \ {x} = (T \ {x}) \cap R /\ x \in T \cap R /\ T \cap R \in SUBSET S
        BY <2>4
      <3>2. On(f, T \cap R) = f[x] + On(f, (T \cap R) \ {x})
        BY <1>2, <3>1
      <3>. QED
        BY <2>2, <2>3, <3>1, <3>2
    <2>5. CASE x \notin R
      <3>1. T \cap R = (T \ {x}) \cap R /\ f[x] = 0
        BY <2>5
      <3>2. On(f, T) = On(f, T \ {x})
        BY <2>3, <3>1
      <3>. QED
        BY <2>2, <3>1, <3>2
    <2>. QED
      BY <2>4, <2>5
  <1>. HIDE DEF G
  <1>4. G = SUBSET S
    <2>1. G \in SUBSET SUBSET S
      BY DEF G
    <2>. QED
      BY <1>1, <1>3, <2>1, AllSubsets
  <1>5. S \in G /\ S \cap R = R
    BY <1>4
  <1>. QED
    BY <1>5 DEF G

LEMMA OnMonotone ==
  ASSUME NEW f, NEW S, IsFiniteSet(S), \A x \in S : f[x] \in Nat,
         NEW R \in SUBSET S, NEW j \in S \ R
  PROVE  On(f, R) + f[j] <= On(f, S)
  <1>. DEFINE G == {T \in SUBSET S : On(f, T \cap R) <= On(f, T)}
  <1>0. \A x \in S : f[x] \in Int
    OBVIOUS
  <1>1. {} \in G
    <2>1. {} \cap R = {} /\ On(f, {}) = 0
      BY OnEmpty
    <2>. QED
      BY <2>1
  <1>2. \A T \in SUBSET S : /\ On(f, T) \in Int /\ \A x \in T : On(f, T) = f[x] + On(f, T \ {x})
    BY <1>0, OnRemove
  <1>3. ASSUME NEW T \in SUBSET S, T # {}, \A x \in T : T \ {x} \in G
        PROVE  T \in G
    <2>1. PICK x \in T : TRUE
      BY <1>3
    <2>2. On(f, (T \ {x}) \cap R) <= On(f, T \ {x}) /\ T \ {x} \in SUBSET S
      BY <1>3
    <2>3. On(f, T) = f[x] + On(f, T \ {x}) /\ On(f, T \ {x}) \in Int /\ f[x] \in Nat
      BY <1>2, <2>2
    <2>4. CASE x \in R
      <3>1. (T \cap R) \ {x} = (T \ {x}) \cap R /\ x \in T \cap R /\ T \cap R \in SUBSET S
        BY <2>4
      <3>2. On(f, T \cap R) = f[x] + On(f, (T \ {x}) \cap R) /\ On(f, (T \ {x}) \cap R) \in Int
        BY <1>2, <3>1
      <3>3. On(f, T \cap R) <= On(f, T)
        BY <2>2, <2>3, <3>2
      <3>. QED
        BY <3>3
    <2>5. CASE x \notin R
      <3>1. T \cap R = (T \ {x}) \cap R /\ T \cap R \in SUBSET S
        BY <2>5
      <3>2. On(f, T \cap R) \in Int
        BY <1>2, <3>1
      <3>3. On(f, (T \ {x}) \cap R) = On(f, T \cap R)
        BY <3>1
      <3>4. On(f, T \cap R) <= On(f, T)
        BY <2>2, <2>3, <3>2, <3>3
      <3>. QED
        BY <3>4
    <2>. QED
      BY <2>4, <2>5
  <1>. HIDE DEF G
  <1>4. G = SUBSET S
    <2>1. G \in SUBSET SUBSET S
      BY DEF G
    <2>. QED
      BY <1>1, <1>3, <2>1, AllSubsets
  <1>5. On(f, R) <= On(f, S \ {j})
    <2>1. S \ {j} \in G /\ (S \ {j}) \cap R = R
      BY <1>4
    <2>2. On(f, (S \ {j}) \cap R) <= On(f, S \ {j})
      BY <2>1 DEF G
    <2>. QED
      BY <2>1, <2>2
  <1>6. On(f, S) = f[j] + On(f, S \ {j}) /\ On(f, S \ {j}) \in Int /\ On(f, R) \in Int
    BY <1>2
  <1>7. f[j] \in Int
    OBVIOUS
  <1>. QED
    BY <1>5, <1>6, <1>7

-----------------------------------------------------------------------------
(* The ledger *)

\* The model's operators on the ledger, for any ledger q.
Upto(q, t, n) == {i \in 1..n : q[i].type = t}
Type(q, t) == Upto(q, t, Len(q))
After(q, t, n) == {i \in Type(q, t) : i > n}
Amount(q, is) == Sum([i \in is |-> q[i].amount])
Gained(q, is, l) == Sum([i \in is |-> q[i].shares[l]])
StartOf(q) == IF Type(q, "baseline") # {} THEN q[Max(Type(q, "baseline"))].snap
                                          ELSE q[Min(Type(q, "deposit"))].snap
SinceOf(q) == IF Type(q, "baseline") # {} THEN Max(Type(q, "baseline"))
              ELSE IF StartOf(q) = None THEN 0 ELSE StartOf(q).at
PaidOf(q) == IF Type(q, "baseline") # {} THEN After(q, "deposit", SinceOf(q))
                                         ELSE Type(q, "deposit")
SpentOf(q) == After(q, "execution", SinceOf(q))

Markets == UNION {[ls -> Price] : ls \in SUBSET Listings}
Contents == [cash : Nat, qty : Shares, market : Markets]
Snapshots == [content : Contents, at : Nat]
Deposits == [type : {"deposit"}, key : Keys, amount : Amounts, snap : Snapshots \cup {None}]
Baselines == [type : {"baseline"}, snap : Snapshots]
Executions == [type : {"execution"}, key : Keys, amount : Nat, shares : Shares]
Rows == Deposits \cup Baselines \cup Executions

LEMMA Numbers ==
  ASSUME NEW n \in Nat, NEW N \in SUBSET (1..n)
  PROVE  /\ IsFiniteSet(N)
         /\ N # {} => /\ Min(N) \in N /\ \A j \in N : Min(N) <= j
                      /\ Max(N) \in N /\ \A j \in N : j <= Max(N)
  <1>1. IsFiniteSet(N)
    <2>1. IsFiniteSet(1..n)
      BY FS_Interval
    <2>. QED
      BY <2>1, FS_Subset
  <1>2. ASSUME N # {}
        PROVE  Min(N) \in N /\ \A j \in N : Min(N) <= j
    <2>1. N \in SUBSET Nat
      OBVIOUS
    <2>2. \E x \in N : \A y \in N : x <= y
      BY <1>2, <2>1, Least
    <2>. QED
      BY <2>2 DEF Min
  <1>3. ASSUME N # {}
        PROVE  Max(N) \in N /\ \A j \in N : j <= Max(N)
    <2>. DEFINE M == {m \in Nat : \A j \in N : j <= m}
    <2>1. n \in M
      OBVIOUS
    <2>2. PICK m \in M : \A k \in M : m <= k
      BY <2>1, Least
    <2>3. m \in N
      <3>1. SUFFICES ASSUME m \notin N
                     PROVE  FALSE
        OBVIOUS
      <3>2. \A j \in N : j <= m - 1 /\ j >= 1
        BY <2>2, <3>1
      <3>3. PICK j \in N : TRUE
        BY <1>3
      <3>4. m - 1 \in Nat
        BY <2>2, <3>2, <3>3
      <3>5. m - 1 \in M
        BY <3>2, <3>4
      <3>. QED
        BY <2>2, <3>4, <3>5
    <2>4. \E x \in N : \A y \in N : x >= y
      BY <2>2, <2>3
    <2>. QED
      BY <2>4 DEF Max
  <1>. QED
    BY <1>1, <1>2, <1>3

LEMMA RowFacts ==
  ASSUME NEW q \in Seq(Rows), NEW i \in 1..Len(q)
  PROVE  /\ q[i].type \in {"deposit", "baseline", "execution"}
         /\ q[i].type = "deposit" => q[i] \in Deposits /\ q[i].amount \in Nat
         /\ q[i].type = "baseline" => q[i] \in Baselines
         /\ q[i].type = "execution" =>
              /\ q[i] \in Executions /\ q[i].amount \in Nat
              /\ q[i].shares \in Shares
  <1>1. q[i] \in Rows
    OBVIOUS
  <1>. QED
    BY <1>1, ConstantsAssumption DEF Rows, Deposits, Baselines, Executions

\* One row more.
Longer(q, e, r) == r = Append(q, e)

LEMMA Grown ==
  ASSUME NEW q \in Seq(Rows), NEW e \in Rows, NEW r, Longer(q, e, r)
  PROVE  /\ r \in Seq(Rows) /\ Len(q) \in Nat /\ Len(r) = Len(q) + 1
         /\ r[Len(q) + 1] = e /\ \A i \in 1..Len(q) : r[i] = q[i]
  BY DEF Longer

LEMMA GrownTypes ==
  ASSUME NEW q \in Seq(Rows), NEW e \in Rows, NEW r, Longer(q, e, r)
  PROVE
    /\ e.type = "deposit" => Type(r, "deposit") = Type(q, "deposit") \cup {Len(q) + 1}
    /\ e.type # "deposit" => Type(r, "deposit") = Type(q, "deposit")
    /\ e.type = "baseline" => Type(r, "baseline") = Type(q, "baseline") \cup {Len(q) + 1}
    /\ e.type # "baseline" => Type(r, "baseline") = Type(q, "baseline")
    /\ e.type = "execution" => Type(r, "execution") = Type(q, "execution") \cup {Len(q) + 1}
    /\ e.type # "execution" => Type(r, "execution") = Type(q, "execution")
  <1>1. /\ Len(q) \in Nat /\ Len(r) = Len(q) + 1
        /\ r[Len(q) + 1] = e /\ \A i \in 1..Len(q) : r[i] = q[i]
    BY Grown
  <1>2. 1..Len(r) = 1..Len(q) \cup {Len(q) + 1}
    BY <1>1
  <1>3. /\ e.type = "deposit" => Type(r, "deposit") = Type(q, "deposit") \cup {Len(q) + 1}
        /\ e.type # "deposit" => Type(r, "deposit") = Type(q, "deposit")
    BY <1>1, <1>2 DEF Type, Upto
  <1>4. /\ e.type = "baseline" => Type(r, "baseline") = Type(q, "baseline") \cup {Len(q) + 1}
        /\ e.type # "baseline" => Type(r, "baseline") = Type(q, "baseline")
    BY <1>1, <1>2 DEF Type, Upto
  <1>5. /\ e.type = "execution" => Type(r, "execution") = Type(q, "execution") \cup {Len(q) + 1}
        /\ e.type # "execution" => Type(r, "execution") = Type(q, "execution")
    BY <1>1, <1>2 DEF Type, Upto
  <1>. QED
    BY <1>3, <1>4, <1>5

LEMMA GrownUpto ==
  ASSUME NEW q \in Seq(Rows), NEW e \in Rows, NEW r, Longer(q, e, r), NEW n \in 0..Len(q)
  PROVE
    /\ Upto(r, "deposit", n) = Upto(q, "deposit", n)
    /\ Upto(r, "baseline", n) = Upto(q, "baseline", n)
    /\ Upto(r, "execution", n) = Upto(q, "execution", n)
  <1>1. /\ Len(q) \in Nat /\ n < Len(q) + 1
        /\ \A i \in 1..Len(q) : r[i] = q[i]
    BY Grown
  <1>. QED
    BY <1>1 DEF Upto

LEMMA Within ==
  ASSUME NEW q \in Seq(Rows), NEW t, NEW n
  PROVE  Type(q, t) \in SUBSET (1..Len(q)) /\ After(q, t, n) \in SUBSET (1..Len(q))
  BY DEF Type, Upto, After

LEMMA AmountKept ==
  ASSUME NEW q \in Seq(Rows), NEW e \in Rows, NEW r, Longer(q, e, r),
         NEW is \in SUBSET (1..Len(q)), \A i \in is : q[i].amount \in Int
  PROVE  Amount(r, is) = Amount(q, is) /\ Amount(q, is) \in Int
  <1>1. Len(q) \in Nat /\ \A i \in 1..Len(q) : r[i] = q[i]
    BY Grown
  <1>2. IsFiniteSet(is)
    BY <1>1, Numbers
  <1>. DEFINE f == [i \in is |-> q[i].amount]
  <1>3. Amount(r, is) = Amount(q, is)
    BY <1>1 DEF Amount
  <1>4. Amount(q, is) = On(f, is)
    BY DEF Amount, On
  <1>5. On(f, is) \in Int
    <2>1. \A x \in is : f[x] \in Int
      OBVIOUS
    <2>. HIDE DEF f
    <2>. QED
      BY <1>2, <2>1, OnRemove
  <1>. QED
    BY <1>3, <1>4, <1>5

LEMMA AmountMore ==
  ASSUME NEW q \in Seq(Rows), NEW r \in Seq(Rows), NEW is, IsFiniteSet(is),
         \A i \in is : r[i] = q[i] /\ q[i].amount \in Int,
         NEW n, n \notin is, r[n].amount \in Int
  PROVE  Amount(r, is \cup {n}) = Amount(q, is) + r[n].amount
  <1>. DEFINE f == [i \in is |-> q[i].amount]
              g == [i \in is \cup {n} |-> r[i].amount]
  <1>1. Amount(q, is) = On(f, is) /\ Amount(r, is \cup {n}) = On(g, is \cup {n})
    BY DEF Amount, On
  <1>2. g[n] = r[n].amount
    OBVIOUS
  <1>3. \A x \in is : f[x] \in Int /\ g[x] = f[x]
    OBVIOUS
  <1>4. g[n] \in Int
    BY <1>2
  <1>. HIDE DEF f, g
  <1>5. On(g, is \cup {n}) = On(f, is) + g[n] /\ On(f, is) \in Int
    BY <1>3, <1>4, OneMore
  <1>. QED
    BY <1>1, <1>2, <1>5

LEMMA GainedKept ==
  ASSUME NEW q \in Seq(Rows), NEW e \in Rows, NEW r, Longer(q, e, r), NEW l,
         NEW is \in SUBSET (1..Len(q)), \A i \in is : q[i].shares[l] \in Int
  PROVE  Gained(r, is, l) = Gained(q, is, l) /\ Gained(q, is, l) \in Int
  <1>1. Len(q) \in Nat /\ \A i \in 1..Len(q) : r[i] = q[i]
    BY Grown
  <1>2. IsFiniteSet(is)
    BY <1>1, Numbers
  <1>. DEFINE f == [i \in is |-> q[i].shares[l]]
  <1>3. Gained(r, is, l) = Gained(q, is, l)
    BY <1>1 DEF Gained
  <1>4. Gained(q, is, l) = On(f, is)
    BY DEF Gained, On
  <1>5. On(f, is) \in Int
    <2>1. \A x \in is : f[x] \in Int
      OBVIOUS
    <2>. HIDE DEF f
    <2>. QED
      BY <1>2, <2>1, OnRemove
  <1>. QED
    BY <1>3, <1>4, <1>5

LEMMA GainedMore ==
  ASSUME NEW q \in Seq(Rows), NEW r \in Seq(Rows), NEW l, NEW is, IsFiniteSet(is),
         \A i \in is : r[i] = q[i] /\ q[i].shares[l] \in Int,
         NEW n, n \notin is, r[n].shares[l] \in Int
  PROVE  Gained(r, is \cup {n}, l) = Gained(q, is, l) + r[n].shares[l]
  <1>. DEFINE f == [i \in is |-> q[i].shares[l]]
              g == [i \in is \cup {n} |-> r[i].shares[l]]
  <1>1. Gained(q, is, l) = On(f, is) /\ Gained(r, is \cup {n}, l) = On(g, is \cup {n})
    BY DEF Gained, On
  <1>2. g[n] = r[n].shares[l]
    OBVIOUS
  <1>3. \A x \in is : f[x] \in Int /\ g[x] = f[x]
    OBVIOUS
  <1>4. g[n] \in Int
    BY <1>2
  <1>. HIDE DEF f, g
  <1>5. On(g, is \cup {n}) = On(f, is) + g[n] /\ On(f, is) \in Int
    BY <1>3, <1>4, OneMore
  <1>. QED
    BY <1>1, <1>2, <1>5

LEMMA StartFacts ==
  ASSUME NEW q \in Seq(Rows), Type(q, "deposit") # {}
  PROVE  /\ \E i \in 1..Len(q) : q[i].type \in {"deposit", "baseline"} /\ StartOf(q) = q[i].snap
         /\ Type(q, "baseline") # {} => SinceOf(q) \in 1..Len(q)
  <1>1. Len(q) \in Nat
    OBVIOUS
  <1>2. \A t : Type(q, t) \in SUBSET (1..Len(q))
    BY Within
  <1>3. Min(Type(q, "deposit")) \in Type(q, "deposit")
    BY <1>1, <1>2, Numbers
  <1>4. Type(q, "baseline") # {} => Max(Type(q, "baseline")) \in Type(q, "baseline")
    BY <1>1, <1>2, Numbers
  <1>5. \A t : \A i \in Type(q, t) : i \in 1..Len(q) /\ q[i].type = t
    BY DEF Type, Upto
  <1>. QED
    BY <1>3, <1>4, <1>5 DEF StartOf, SinceOf

-----------------------------------------------------------------------------
(* Valuation *)

Stocks(q, m) == Sum([l \in Listings |-> q[l] * m[l].close])
Opening(b) == Sum([l \in DOMAIN b.market |-> b.qty[l] * b.market[l].close])
Board == [Listings -> Price]

LEMMA FiniteListings == IsFiniteSet(Listings)
  BY ConstantsAssumption, FS_AddElement DEF Listings

LEMMA PriceTyped ==
  ASSUME NEW p \in Price
  PROVE  p.close \in Nat /\ p.close > 0
  <1>1. p.close \in Closes
    BY DEF Price
  <1>2. Closes \subseteq Nat \ {0}
    BY ConstantsAssumption
  <1>3. p.close \in Nat \ {0}
    BY <1>1, <1>2
  <1>. QED
    BY <1>3

LEMMA PriceFacts ==
  ASSUME NEW m \in Board, NEW l \in Listings
  PROVE  m[l] \in Price /\ m[l].close \in Nat /\ m[l].close > 0
  <1>1. m[l] \in Price
    BY DEF Board
  <1>. QED
    BY <1>1, PriceTyped

LEMMA Times ==
  ASSUME NEW a \in Nat, NEW b \in Nat
  PROVE  a * b \in Nat /\ (a > 0 /\ b > 0 => a * b > 0) /\ (a = 0 => a * b = 0)
  OBVIOUS

LEMMA StocksFacts ==
  ASSUME NEW q \in Shares, NEW m \in Board, NEW f,
         f = [l \in Listings |-> q[l] * m[l].close]
  PROVE  /\ \A l \in Listings : f[l] \in Nat /\ (q[l] > 0 => f[l] > 0) /\ (q[l] = 0 => f[l] = 0)
         /\ Stocks(q, m) = On(f, Listings) /\ Stocks(q, m) \in Nat
         /\ \A l \in Listings : f[l] <= Stocks(q, m)
         /\ On(f, Held(q)) = Stocks(q, m)
  <1>1. ASSUME NEW l \in Listings
        PROVE  f[l] \in Nat /\ (q[l] > 0 => f[l] > 0) /\ (q[l] = 0 => f[l] = 0)
    <2>1. q[l] \in Nat /\ m[l].close \in Nat /\ m[l].close > 0
      BY PriceFacts DEF Shares
    <2>2. f[l] = q[l] * m[l].close
      OBVIOUS
    <2>. QED
      BY <2>1, <2>2, Times
  <1>2. Stocks(q, m) = On(f, Listings)
    <2>1. [x \in Listings |-> f[x]] = [l \in Listings |-> q[l] * m[l].close]
      OBVIOUS
    <2>. QED
      BY <2>1 DEF Stocks, On
  <1>3. \A T \in SUBSET Listings : On(f, T) \in Nat /\ \A x \in T : f[x] <= On(f, T)
    BY <1>1, FiniteListings, OnNat
  <1>4. On(f, Held(q)) = Stocks(q, m)
    <2>1. Held(q) \in SUBSET Listings /\ \A x \in Listings : f[x] \in Int
      BY <1>1 DEF Held
    <2>2. \A x \in Listings \ Held(q) : f[x] = 0
      BY <1>1 DEF Held, Shares
    <2>3. On(f, Listings) = On(f, Held(q))
      BY <2>1, <2>2, FiniteListings, OnDrop
    <2>. QED
      BY <1>2, <2>3
  <1>5. Listings \in SUBSET Listings
    OBVIOUS
  <1>6. Stocks(q, m) \in Nat /\ \A l \in Listings : f[l] <= Stocks(q, m)
    BY <1>2, <1>3, <1>5
  <1>. QED
    BY <1>1, <1>2, <1>4, <1>6

LEMMA OpeningIsStocks ==
  ASSUME NEW c, NEW q \in Shares, NEW m \in Board
  PROVE  Opening(Content(c, q, m)) = Stocks(q, m)
  <1>. DEFINE f == [l \in Listings |-> q[l] * m[l].close]
  <1>1. On(f, Held(q)) = Stocks(q, m)
    BY StocksFacts
  <1>2. Held(q) \in SUBSET Listings
    BY DEF Held
  <1>3. Opening(Content(c, q, m)) = Sum([l \in Held(q) |-> f[l]])
    BY <1>2 DEF Opening, Content
  <1>. QED
    BY <1>1, <1>3 DEF On

LEMMA StocksPlus ==
  ASSUME NEW q \in Shares, NEW e \in Shares, NEW m \in Board, NEW s,
         s = [l \in Listings |-> q[l] + e[l]]
  PROVE  s \in Shares /\ Stocks(s, m) = Stocks(q, m) + Stocks(e, m)
  <1>1. s \in Shares
    BY DEF Shares
  <1>. DEFINE f == [l \in Listings |-> q[l] * m[l].close]
              g == [l \in Listings |-> e[l] * m[l].close]
              h == [l \in Listings |-> s[l] * m[l].close]
  <1>2. /\ Stocks(q, m) = On(f, Listings)
        /\ Stocks(e, m) = On(g, Listings)
        /\ Stocks(s, m) = On(h, Listings)
    BY <1>1, StocksFacts
  <1>3. ASSUME NEW l \in Listings
        PROVE  f[l] \in Int /\ g[l] \in Int /\ h[l] = f[l] + g[l]
    <2>1. q[l] \in Nat /\ e[l] \in Nat /\ s[l] = q[l] + e[l] /\ m[l].close \in Nat
      BY PriceFacts DEF Shares
    <2>2. f[l] = q[l] * m[l].close /\ g[l] = e[l] * m[l].close /\ h[l] = s[l] * m[l].close
      OBVIOUS
    <2>3. (q[l] + e[l]) * m[l].close = q[l] * m[l].close + e[l] * m[l].close
      BY <2>1
    <2>4. q[l] * m[l].close \in Nat /\ e[l] * m[l].close \in Nat
      BY <2>1, Times
    <2>. QED
      BY <2>1, <2>2, <2>3, <2>4
  <1>. HIDE DEF f, g, h
  <1>4. On(h, Listings) = On(f, Listings) + On(g, Listings)
    BY <1>3, FiniteListings, OnPlus
  <1>. QED
    BY <1>1, <1>2, <1>4

\* Prices m, but for p.
Moved(m, l, p) == [m EXCEPT ![l] = p]

LEMMA StocksMove ==
  ASSUME NEW q \in Shares, NEW m \in Board, NEW l \in Listings, NEW p \in Price
  PROVE  /\ Moved(m, l, p) \in Board
         /\ Stocks(q, Moved(m, l, p)) = Stocks(q, m) + q[l] * (p.close - m[l].close)
  <1>. DEFINE m2 == [m EXCEPT ![l] = p]
  <1>1. m2 \in Board
    BY DEF Board
  <1>. DEFINE f == [k \in Listings |-> q[k] * m[k].close]
              g == [k \in Listings |-> q[k] * m2[k].close]
  <1>2. /\ \A k \in Listings : f[k] \in Nat
        /\ Stocks(q, m) = On(f, Listings)
    BY StocksFacts
  <1>3. /\ \A k \in Listings : g[k] \in Nat
        /\ Stocks(q, m2) = On(g, Listings)
    BY <1>1, StocksFacts
  <1>4. \A k \in Listings \ {l} : g[k] = f[k]
    BY DEF Board
  <1>5. f[l] = q[l] * m[l].close /\ g[l] = q[l] * p.close
    BY DEF Board
  <1>6. q[l] \in Nat /\ m[l].close \in Nat /\ p.close \in Nat
    <2>1. m[l].close \in Nat
      BY PriceFacts
    <2>2. p.close \in Nat
      BY PriceTyped
    <2>. QED
      BY <2>1, <2>2 DEF Shares
  <1>. HIDE DEF f, g
  <1>7. On(f, Listings \ {l}) = On(g, Listings \ {l})
    <2>1. [k \in Listings \ {l} |-> f[k]] = [k \in Listings \ {l} |-> g[k]]
      BY <1>4
    <2>. QED
      BY <2>1 DEF On
  <1>8. \A k \in Listings : f[k] \in Int /\ g[k] \in Int
    BY <1>2, <1>3
  <1>9. On(f, Listings) = f[l] + On(f, Listings \ {l}) /\ On(f, Listings \ {l}) \in Int /\ On(f, Listings) \in Int
    BY <1>8, FiniteListings, OnAdd
  <1>10. On(g, Listings) = g[l] + On(g, Listings \ {l}) /\ On(g, Listings \ {l}) \in Int /\ On(g, Listings) \in Int
    BY <1>8, FiniteListings, OnAdd
  <1>11. q[l] * (p.close - m[l].close) = q[l] * p.close - q[l] * m[l].close
    BY <1>6
  <1>12. q[l] * p.close \in Nat /\ q[l] * m[l].close \in Nat
    BY <1>6, Times
  <1>. QED
    BY <1>1, <1>2, <1>3, <1>5, <1>7, <1>9, <1>10, <1>11, <1>12 DEF Moved

\* What a plan costs is the value of its shares at the prices the market still has.
Plans == [content : Contents, spy : Price, satellite : Others \cup {None}, shares : Shares,
          prices : Markets]

LEMMA ContentTyped ==
  ASSUME NEW c \in Nat, NEW q \in Shares, NEW m \in Board
  PROVE  /\ Content(c, q, m) \in Contents
         /\ Content(c, q, m).cash = c /\ Content(c, q, m).qty = q
         /\ DOMAIN Content(c, q, m).market = Held(q)
  <1>1. Held(q) \in SUBSET Listings
    BY DEF Held
  <1>2. [l \in Held(q) |-> m[l]] \in [Held(q) -> Price]
    BY <1>1 DEF Board
  <1>3. [l \in Held(q) |-> m[l]] \in Markets
    BY <1>1, <1>2 DEF Markets
  <1>. QED
    BY <1>3 DEF Content, Contents

LEMMA OpeningTyped ==
  ASSUME NEW b \in Contents
  PROVE  Opening(b) \in Nat
  <1>. DEFINE T == DOMAIN b.market
              f == [l \in T |-> b.qty[l] * b.market[l].close]
  <1>1. T \in SUBSET Listings /\ \A l \in T : b.market[l] \in Price /\ b.qty[l] \in Nat
    <2>1. PICK ls \in SUBSET Listings : b.market \in [ls -> Price]
      BY DEF Contents, Markets
    <2>2. b.qty \in Shares
      BY DEF Contents
    <2>. QED
      BY <2>1, <2>2 DEF Shares
  <1>2. \A l \in T : f[l] \in Nat
    <2>1. SUFFICES ASSUME NEW l \in T
                   PROVE  b.qty[l] * b.market[l].close \in Nat
      OBVIOUS
    <2>2. b.market[l].close \in Nat
      BY <1>1, ConstantsAssumption DEF Price
    <2>. QED
      BY <1>1, <2>2, Times
  <1>3. IsFiniteSet(T) /\ T \in SUBSET T
    BY <1>1, FiniteListings, FS_Subset
  <1>4. Opening(b) = On(f, T)
    <2>1. [x \in T |-> f[x]] = [l \in DOMAIN b.market |-> b.qty[l] * b.market[l].close]
      OBVIOUS
    <2>. QED
      BY <2>1 DEF Opening, On
  <1>. HIDE DEF f
  <1>5. \A S \in SUBSET T : On(f, S) \in Nat /\ \A x \in S : f[x] <= On(f, S)
    BY <1>2, <1>3, OnNat
  <1>. QED
    BY <1>3, <1>4, <1>5

LEMMA ValueTyped ==
  ASSUME NEW c \in Int, NEW q \in Shares, NEW m \in Board
  PROVE  Value(c, q, m) = c + Stocks(q, m) /\ Value(c, q, m) \in Int
         /\ (c \in Nat => Value(c, q, m) \in Nat)
  <1>1. Value(c, q, m) = c + Stocks(q, m)
    BY DEF Value, Stocks
  <1>2. Stocks(q, m) \in Nat
    BY StocksFacts
  <1>. QED
    BY <1>1, <1>2

LEMMA CostIsStocks ==
  ASSUME NEW p \in Plans, NEW m \in Board, Buys(p) = Held(p.shares),
         \A l \in Buys(p) : m[l] = p.prices[l]
  PROVE  /\ Cost(p) = Stocks(p.shares, m) /\ Cost(p) \in Nat
         /\ Held(p.shares) # {} => Cost(p) > 0
  <1>1. p.shares \in Shares
    BY DEF Plans
  <1>. DEFINE f == [l \in Listings |-> p.shares[l] * m[l].close]
  <1>2. /\ \A l \in Listings : f[l] \in Nat /\ (p.shares[l] > 0 => f[l] > 0)
        /\ Stocks(p.shares, m) \in Nat
        /\ \A l \in Listings : f[l] <= Stocks(p.shares, m)
        /\ On(f, Held(p.shares)) = Stocks(p.shares, m)
    BY <1>1, StocksFacts
  <1>3. DOMAIN p.prices = Held(p.shares) /\ Held(p.shares) \in SUBSET Listings
    BY DEF Buys, Held
  <1>4. [l \in DOMAIN p.prices |-> p.shares[l] * p.prices[l].close] = [l \in Held(p.shares) |-> f[l]]
    BY <1>3
  <1>5. Cost(p) = Stocks(p.shares, m)
    BY <1>2, <1>4 DEF Cost, On
  <1>6. ASSUME Held(p.shares) # {}
        PROVE  Cost(p) > 0
    <2>1. PICK l \in Listings : p.shares[l] > 0
      BY <1>6 DEF Held
    <2>2. f[l] > 0 /\ f[l] <= Stocks(p.shares, m) /\ f[l] \in Nat
      BY <1>2, <2>1
    <2>. HIDE DEF f
    <2>. QED
      BY <1>2, <1>5, <2>2
  <1>. QED
    BY <1>2, <1>5, <1>6

LEMMA SharesForFacts ==
  ASSUME NEW t \in Nat, NEW c \in Nat, c > 0
  PROVE  SharesFor(t, c) \in Nat /\ SharesFor(t, c) * (10 * c) <= t
  <1>. DEFINE d == 10 * c
  <1>1. d \in Nat /\ d > 0
    OBVIOUS
  <1>. HIDE DEF d
  <1>2. t \div d \in Nat /\ (t \div d) * d <= t
    BY <1>1
  <1>. QED
    BY <1>2 DEF SharesFor, d

LEMMA PlanTyped ==
  ASSUME cash \in Nat, qty \in Shares, market \in Board, satellite \in Others \cup {None}
  PROVE  /\ Plan \in Plans
         /\ Plan.content = Content(cash, qty, market)
         /\ Buys(Plan) = Held(Plan.shares)
         /\ \A l \in Buys(Plan) : Plan.prices[l] = market[l]
  <1>. DEFINE total == Value(cash, qty, market)
              spyValue == qty[Spy] * market[Spy].close
              other == total - cash - spyValue
              core == SharesFor(SmallerOf(10 * cash, LargerOf(0, 7 * total - 10 * spyValue)),
                                market[Spy].close)
              left == cash - core * market[Spy].close
              open == OneSession(Held(qty) \cup {Spy}, market)
              lane == satellite # None /\ market[satellite].session = market[Spy].session
              budget == SmallerOf(10 * left, LargerOf(0, 3 * total - 10 * other))
              extra == IF lane THEN SharesFor(budget, market[satellite].close) ELSE 0
              shares == [l \in Listings |-> IF ~open THEN 0
                                            ELSE IF l = Spy THEN core
                                            ELSE IF l = satellite THEN extra ELSE 0]
              content == Content(cash, qty, market)
              prices == [l \in {k \in Listings : shares[k] > 0} |-> market[l]]
              chosen == IF open /\ budget > 0 THEN satellite ELSE None
  <1>1. Plan = [content |-> content, spy |-> market[Spy], satellite |-> chosen,
                shares |-> shares, prices |-> prices]
    BY DEF Plan
  <1>2. Spy \in Listings /\ (satellite # None => satellite \in Listings)
    BY DEF Listings
  <1>3. total \in Nat /\ spyValue \in Nat /\ market[Spy].close \in Nat /\ market[Spy].close > 0
    <2>1. qty[Spy] \in Nat
      BY <1>2 DEF Shares
    <2>2. market[Spy].close \in Nat /\ market[Spy].close > 0
      BY <1>2, PriceFacts
    <2>. QED
      BY <2>1, <2>2, Times, ValueTyped
  <1>4. core \in Nat /\ left \in Nat
    <2>. DEFINE t == SmallerOf(10 * cash, LargerOf(0, 7 * total - 10 * spyValue))
    <2>. HIDE DEF total, spyValue
    <2>1. t \in Nat /\ t <= 10 * cash
      BY <1>3 DEF SmallerOf, LargerOf
    <2>2. SharesFor(t, market[Spy].close) \in Nat /\ SharesFor(t, market[Spy].close) * (10 * market[Spy].close) <= t
      BY <1>3, <2>1, SharesForFacts
    <2>. HIDE DEF t
    <2>3. core = SharesFor(t, market[Spy].close)
      BY DEF t
    <2>. HIDE DEF core
    <2>4. core * (10 * market[Spy].close) \in Nat
      BY <1>3, <2>2, <2>3, Times
    <2>5. core \in Nat /\ core * (10 * market[Spy].close) <= 10 * cash
      BY <2>1, <2>2, <2>3, <2>4
    <2>6. core * market[Spy].close \in Nat /\ core * (10 * market[Spy].close) = 10 * (core * market[Spy].close)
      BY <1>3, <2>5, Times
    <2>. QED
      BY <2>5, <2>6
  <1>5. budget \in Nat
    <2>1. other \in Int
      BY <1>3
    <2>. HIDE DEF total, other, left
    <2>2. 3 * total - 10 * other \in Int
      BY <1>3, <2>1
    <2>. QED
      BY <1>4, <2>2 DEF SmallerOf, LargerOf
  <1>6. extra \in Nat
    <2>1. CASE lane
      <3>1. market[satellite].close \in Nat /\ market[satellite].close > 0
        BY <1>2, <2>1, PriceFacts
      <3>. QED
        BY <1>5, <2>1, <3>1, SharesForFacts
    <2>2. CASE ~lane
      BY <2>2
    <2>. QED
      BY <2>1, <2>2
  <1>. HIDE DEF total, spyValue, other, core, left, open, lane, budget, extra
  <1>7. shares \in Shares
    BY <1>4, <1>6 DEF Shares
  <1>8. {k \in Listings : shares[k] > 0} = Held(shares) /\ Held(shares) \in SUBSET Listings
    BY DEF Held
  <1>. HIDE DEF shares
  <1>9. prices \in [Held(shares) -> Price] /\ prices \in Markets
    <2>1. prices \in [Held(shares) -> Price]
      BY <1>8 DEF Board
    <2>. QED
      BY <1>8, <2>1 DEF Markets
  <1>10. content \in Contents /\ market[Spy] \in Price
    BY <1>2, ContentTyped, PriceFacts
  <1>11. chosen \in Others \cup {None}
    OBVIOUS
  <1>12. DOMAIN prices = Held(shares) /\ \A l \in Held(shares) : prices[l] = market[l]
    BY <1>8
  <1>. HIDE DEF content, prices, chosen
  <1>13. Plan \in Plans
    BY <1>1, <1>7, <1>9, <1>10, <1>11 DEF Plans
  <1>14. Plan.content = content /\ Plan.prices = prices /\ Plan.shares = shares
    BY <1>1
  <1>15. Buys(Plan) = Held(Plan.shares) /\ \A l \in Buys(Plan) : Plan.prices[l] = market[l]
    BY <1>12, <1>14 DEF Buys
  <1>. QED
    BY <1>13, <1>14, <1>15 DEF content

-----------------------------------------------------------------------------
(* What the ledger explains *)

\* From the boundary that q tracks, its deposits and purchases lead to cash c and shares sh,
\* and what they leave unexplained of the value at prices m is the market gain g.
Explains(q, c, sh, m, g) ==
  Type(q, "deposit") # {} /\ StartOf(q) # None =>
    /\ c = StartOf(q).content.cash + Amount(q, PaidOf(q)) - Amount(q, SpentOf(q))
    /\ \A l \in Listings : sh[l] = StartOf(q).content.qty[l] + Gained(q, SpentOf(q), l)
    /\ g = Stocks(sh, m) - Opening(StartOf(q).content) - Amount(q, SpentOf(q))

\* Before the first deposit nothing has been added to the cash of a snapshot or of a request.
Untracked(q, c, ss) ==
  Type(q, "deposit") = {} =>
    /\ Type(q, "baseline") = {}
    /\ \A s \in ss : c + Amount(q, After(q, "execution", s.at)) <= s.content.cash

\* A boundary and its rows.
LEMMA Tracking ==
  ASSUME NEW q \in Seq(Rows), Type(q, "deposit") # {}, StartOf(q) # None
  PROVE  /\ StartOf(q) \in Snapshots
         /\ PaidOf(q) \in SUBSET (1..Len(q)) /\ SpentOf(q) \in SUBSET (1..Len(q))
         /\ \A i \in PaidOf(q) : q[i].type = "deposit" /\ q[i].amount \in Nat
         /\ \A i \in SpentOf(q) : q[i].type = "execution" /\ q[i] \in Executions
                                  /\ q[i].amount \in Nat /\ q[i].shares \in Shares
  <1>1. PICK i \in 1..Len(q) : q[i].type \in {"deposit", "baseline"} /\ StartOf(q) = q[i].snap
    BY StartFacts
  <1>2. StartOf(q) \in Snapshots
    <2>1. q[i] \in Deposits \cup Baselines
      BY <1>1, RowFacts
    <2>. QED
      BY <1>1, <2>1 DEF Deposits, Baselines
  <1>3. PaidOf(q) \in SUBSET (1..Len(q)) /\ SpentOf(q) \in SUBSET (1..Len(q))
    BY Within DEF PaidOf, SpentOf
  <1>4. /\ \A j \in PaidOf(q) : q[j].type = "deposit"
        /\ \A j \in SpentOf(q) : q[j].type = "execution"
    BY DEF PaidOf, SpentOf, After, Type, Upto
  <1>5. \A j \in PaidOf(q) : q[j].amount \in Nat
    BY <1>3, <1>4, RowFacts
  <1>6. \A j \in SpentOf(q) : q[j] \in Executions /\ q[j].amount \in Nat /\ q[j].shares \in Shares
    BY <1>3, <1>4, RowFacts
  <1>. QED
    BY <1>2, <1>3, <1>4, <1>5, <1>6

\* A deposit or an execution after the first deposit does not move the boundary.
LEMMA SameBoundary ==
  ASSUME NEW q \in Seq(Rows), NEW e \in Rows, NEW r, Longer(q, e, r), Type(q, "deposit") # {},
         e \in Deposits \cup Executions
  PROVE  StartOf(r) = StartOf(q) /\ SinceOf(r) = SinceOf(q) /\ Type(r, "deposit") # {}
         /\ Type(r, "baseline") = Type(q, "baseline")
  <1>0. e.type \in {"deposit", "execution"}
    BY DEF Deposits, Executions
  <1>1. /\ r \in Seq(Rows) /\ Len(q) \in Nat
        /\ \A i \in 1..Len(q) : r[i] = q[i]
    BY Grown
  <1>10. /\ e.type = "deposit" => Type(r, "deposit") = Type(q, "deposit") \cup {Len(q) + 1}
         /\ e.type # "deposit" => Type(r, "deposit") = Type(q, "deposit")
         /\ e.type # "baseline" => Type(r, "baseline") = Type(q, "baseline")
    BY GrownTypes
  <1>2. Type(r, "baseline") = Type(q, "baseline")
    BY <1>0, <1>1, <1>10
  <1>3. Type(r, "deposit") # {}
    BY <1>0, <1>1, <1>10
  <1>4. \A t \in {"deposit", "baseline", "execution"} : Type(q, t) \in SUBSET (1..Len(q))
    BY Within
  <1>5. Type(q, "baseline") # {} => Max(Type(q, "baseline")) \in 1..Len(q)
    BY <1>1, <1>4, Numbers
  <1>6. Min(Type(q, "deposit")) \in Type(q, "deposit") /\ \A j \in Type(q, "deposit") : Min(Type(q, "deposit")) <= j
    BY <1>1, <1>4, Numbers
  <1>7. Min(Type(r, "deposit")) = Min(Type(q, "deposit"))
    <2>1. CASE e.type = "execution"
      BY <1>1, <1>10, <2>1
    <2>2. CASE e.type = "deposit"
      <3>1. Type(r, "deposit") = Type(q, "deposit") \cup {Len(q) + 1}
        BY <1>1, <1>10, <2>2
      <3>2. Type(r, "deposit") \in SUBSET (1..(Len(q) + 1))
        BY <1>1, <1>4, <3>1
      <3>3. /\ Min(Type(r, "deposit")) \in Type(r, "deposit")
            /\ \A j \in Type(r, "deposit") : Min(Type(r, "deposit")) <= j
        <4>. DEFINE N == Type(r, "deposit")
        <4>. HIDE DEF N
        <4>1. Len(q) + 1 \in Nat /\ N \in SUBSET (1..(Len(q) + 1)) /\ N # {}
          BY <1>1, <1>3, <3>2 DEF N
        <4>2. Min(N) \in N /\ \A j \in N : Min(N) <= j
          BY <4>1, Numbers
        <4>. QED
          BY <4>2 DEF N
      <3>4. Min(Type(r, "deposit")) \in Nat /\ Min(Type(q, "deposit")) \in 1..Len(q)
        BY <1>4, <1>6, <3>2, <3>3
      <3>. QED
        BY <1>1, <1>6, <3>1, <3>3, <3>4
    <2>. QED
      BY <1>0, <2>1, <2>2
  <1>8. StartOf(r) = StartOf(q)
    <2>1. CASE Type(q, "baseline") # {}
      BY <1>1, <1>2, <1>5, <2>1 DEF StartOf
    <2>2. CASE Type(q, "baseline") = {}
      <3>1. Min(Type(q, "deposit")) \in 1..Len(q)
        BY <1>4, <1>6
      <3>. QED
        BY <1>1, <1>2, <1>7, <2>2, <3>1 DEF StartOf
    <2>. QED
      BY <2>1, <2>2
  <1>9. SinceOf(r) = SinceOf(q)
    BY <1>2, <1>8 DEF SinceOf
  <1>. QED
    BY <1>2, <1>3, <1>8, <1>9

\* What an execution adds to the sums since the boundary.
LEMMA SpentMore ==
  ASSUME NEW q \in Seq(Rows), NEW e \in Rows, NEW r, Longer(q, e, r), e \in Executions
  PROVE  /\ (Type(r, "deposit") = {}) = (Type(q, "deposit") = {})
         /\ Type(q, "deposit") # {} => StartOf(r) = StartOf(q) /\ SinceOf(r) = SinceOf(q)
         /\ Type(q, "deposit") # {} => PaidOf(r) = PaidOf(q)
         /\ Type(q, "deposit") # {} /\ SinceOf(q) \in 0..Len(q) =>
              SpentOf(r) = SpentOf(q) \cup {Len(q) + 1}
  <1>1. e.type = "execution" /\ e \in Deposits \cup Executions
    BY DEF Executions
  <1>2. Type(r, "deposit") = Type(q, "deposit")
    BY <1>1, GrownTypes
  <1>3. ASSUME Type(q, "deposit") # {}
        PROVE  /\ StartOf(r) = StartOf(q) /\ SinceOf(r) = SinceOf(q)
               /\ Type(r, "baseline") = Type(q, "baseline")
    BY <1>1, <1>3, SameBoundary
  <1>4. ASSUME Type(q, "deposit") # {}
        PROVE  PaidOf(r) = PaidOf(q)
    <2>1. After(r, "deposit", SinceOf(q)) = After(q, "deposit", SinceOf(q))
      BY <1>2 DEF After
    <2>. QED
      BY <1>2, <1>3, <1>4, <2>1 DEF PaidOf
  <1>5. ASSUME Type(q, "deposit") # {}, SinceOf(q) \in 0..Len(q)
        PROVE  SpentOf(r) = SpentOf(q) \cup {Len(q) + 1}
    <2>1. Type(r, "execution") = Type(q, "execution") \cup {Len(q) + 1}
      BY <1>1, GrownTypes
    <2>2. SinceOf(q) \in Nat /\ SinceOf(q) < Len(q) + 1
      BY <1>5
    <2>3. After(r, "execution", SinceOf(q)) = After(q, "execution", SinceOf(q)) \cup {Len(q) + 1}
      BY <2>1, <2>2 DEF After
    <2>. QED
      BY <1>3, <1>5, <2>3 DEF SpentOf
  <1>. QED
    BY <1>2, <1>3, <1>4, <1>5

LEMMA SpentSums ==
  ASSUME NEW q \in Seq(Rows), NEW e \in Rows, NEW r, Longer(q, e, r), e \in Executions,
         Type(q, "deposit") # {}, StartOf(q) # None, SinceOf(q) \in 0..Len(q)
  PROVE  /\ Amount(r, PaidOf(r)) = Amount(q, PaidOf(q)) /\ Amount(q, PaidOf(q)) \in Int
         /\ Amount(r, SpentOf(r)) = Amount(q, SpentOf(q)) + e.amount /\ Amount(q, SpentOf(q)) \in Int
         /\ \A l \in Listings : /\ Gained(r, SpentOf(r), l) = Gained(q, SpentOf(q), l) + e.shares[l]
                                /\ Gained(q, SpentOf(q), l) \in Int
  <1>1. PaidOf(r) = PaidOf(q) /\ SpentOf(r) = SpentOf(q) \cup {Len(q) + 1}
    BY SpentMore
  <1>2. /\ PaidOf(q) \in SUBSET (1..Len(q)) /\ SpentOf(q) \in SUBSET (1..Len(q))
        /\ \A i \in PaidOf(q) : q[i].type = "deposit" /\ q[i].amount \in Nat
        /\ \A i \in SpentOf(q) : q[i].type = "execution" /\ q[i] \in Executions
                                 /\ q[i].amount \in Nat /\ q[i].shares \in Shares
    BY Tracking
  <1>3. e.amount \in Int /\ \A l \in Listings : e.shares[l] \in Int
    BY DEF Executions, Shares
  <1>4. Amount(r, PaidOf(q)) = Amount(q, PaidOf(q)) /\ Amount(q, PaidOf(q)) \in Int
    <2>1. PICK is \in SUBSET (1..Len(q)) : is = PaidOf(q)
      BY <1>2
    <2>2. \A i \in is : q[i].amount \in Int
      BY <1>2, <2>1
    <2>3. Amount(r, is) = Amount(q, is) /\ Amount(q, is) \in Int
      BY <2>2, AmountKept
    <2>. QED
      BY <2>1, <2>3
  <1>. DEFINE S == SpentOf(q)
  <1>5. /\ Amount(r, SpentOf(q) \cup {Len(q) + 1}) = Amount(q, SpentOf(q)) + e.amount
        /\ Amount(q, SpentOf(q)) \in Int
    <2>1. r \in Seq(Rows) /\ Len(q) \in Nat /\ r[Len(q) + 1] = e /\ \A i \in 1..Len(q) : r[i] = q[i]
      BY Grown
    <2>2. \A i \in S : r[i] = q[i] /\ q[i].amount \in Int
      BY <1>2, <2>1 DEF Shares
    <2>3. Amount(q, S) \in Int
      <3>1. PICK is \in SUBSET (1..Len(q)) : is = S
        BY <1>2
      <3>2. \A i \in is : q[i].amount \in Int
        BY <2>2, <3>1
      <3>3. Amount(r, is) = Amount(q, is) /\ Amount(q, is) \in Int
        BY <3>2, AmountKept
      <3>. QED
        BY <3>1, <3>3
    <2>. DEFINE n == Len(q) + 1
    <2>4. n \notin S /\ r[n] = e
      BY <1>2, <2>1
    <2>5. IsFiniteSet(S)
      BY <1>2, <2>1, Numbers
    <2>. HIDE DEF n, S
    <2>6. r[n].amount \in Int
      BY <1>3, <2>4
    <2>7. Amount(r, S \cup {n}) = Amount(q, S) + r[n].amount
      BY <2>1, <2>2, <2>4, <2>5, <2>6, AmountMore
    <2>. QED
      BY <2>3, <2>4, <2>7 DEF n, S
  <1>6. ASSUME NEW l \in Listings
        PROVE  /\ Gained(r, SpentOf(q) \cup {Len(q) + 1}, l) = Gained(q, SpentOf(q), l) + e.shares[l]
               /\ Gained(q, SpentOf(q), l) \in Int
    <2>1. r \in Seq(Rows) /\ Len(q) \in Nat /\ r[Len(q) + 1] = e /\ \A i \in 1..Len(q) : r[i] = q[i]
      BY Grown
    <2>2. \A i \in S : r[i] = q[i] /\ q[i].shares[l] \in Int
      BY <1>2, <2>1 DEF Shares
    <2>3. Gained(q, S, l) \in Int
      <3>1. PICK is \in SUBSET (1..Len(q)) : is = S
        BY <1>2
      <3>2. \A i \in is : q[i].shares[l] \in Int
        BY <2>2, <3>1
      <3>3. Gained(r, is, l) = Gained(q, is, l) /\ Gained(q, is, l) \in Int
        BY <3>2, GainedKept
      <3>. QED
        BY <3>1, <3>3
    <2>. DEFINE n == Len(q) + 1
    <2>4. n \notin S /\ r[n] = e
      BY <1>2, <2>1
    <2>5. IsFiniteSet(S)
      BY <1>2, <2>1, Numbers
    <2>. HIDE DEF n, S
    <2>6. r[n].shares[l] \in Int
      BY <1>3, <2>4
    <2>7. Gained(r, S \cup {n}, l) = Gained(q, S, l) + r[n].shares[l]
      BY <2>1, <2>2, <2>4, <2>5, <2>6, GainedMore
    <2>. QED
      BY <2>3, <2>4, <2>7 DEF n, S
  <1>. QED
    BY <1>1, <1>4, <1>5, <1>6

\* Shares sh, and those of e.
Together(sh, e) == [l \in Listings |-> sh[l] + e[l]]

LEMMA ExplainsExecution ==
  ASSUME NEW q \in Seq(Rows), NEW e \in Rows, NEW r, Longer(q, e, r), e \in Executions,
         NEW c \in Nat, NEW sh \in Shares, NEW m \in Board, NEW g \in Int,
         e.amount = Stocks(e.shares, m),
         Type(q, "deposit") # {} /\ StartOf(q) # None => SinceOf(q) \in 0..Len(q),
         Explains(q, c, sh, m, g)
  PROVE  Explains(r, c - e.amount, Together(sh, e.shares), m, g)
  <1>. DEFINE s2 == Together(sh, e.shares)
  <1>. SUFFICES ASSUME Type(r, "deposit") # {}, StartOf(r) # None
                PROVE  /\ c - e.amount = StartOf(r).content.cash + Amount(r, PaidOf(r)) - Amount(r, SpentOf(r))
                       /\ \A l \in Listings : s2[l] = StartOf(r).content.qty[l] + Gained(r, SpentOf(r), l)
                       /\ g = Stocks(s2, m) - Opening(StartOf(r).content) - Amount(r, SpentOf(r))
    BY DEF Explains
  <1>1. e.shares \in Shares /\ e.amount \in Nat
    BY DEF Executions
  <1>2. Type(q, "deposit") # {} /\ StartOf(r) = StartOf(q)
    BY SpentMore
  <1>3. /\ c = StartOf(q).content.cash + Amount(q, PaidOf(q)) - Amount(q, SpentOf(q))
        /\ \A l \in Listings : sh[l] = StartOf(q).content.qty[l] + Gained(q, SpentOf(q), l)
        /\ g = Stocks(sh, m) - Opening(StartOf(q).content) - Amount(q, SpentOf(q))
        /\ SinceOf(q) \in 0..Len(q)
    BY <1>2 DEF Explains
  <1>4. StartOf(q) \in Snapshots
    BY <1>2, Tracking
  <1>5. /\ Amount(r, PaidOf(r)) = Amount(q, PaidOf(q)) /\ Amount(q, PaidOf(q)) \in Int
        /\ Amount(r, SpentOf(r)) = Amount(q, SpentOf(q)) + e.amount /\ Amount(q, SpentOf(q)) \in Int
        /\ \A l \in Listings : /\ Gained(r, SpentOf(r), l) = Gained(q, SpentOf(q), l) + e.shares[l]
                               /\ Gained(q, SpentOf(q), l) \in Int
    BY <1>2, <1>3, SpentSums
  <1>6. s2 \in Shares /\ Stocks(s2, m) = Stocks(sh, m) + e.amount
    <2>1. PICK b \in Shares : b = e.shares
      BY <1>1
    <2>2. Together(sh, b) \in Shares /\ Stocks(Together(sh, b), m) = Stocks(sh, m) + Stocks(b, m)
      BY StocksPlus DEF Together
    <2>. QED
      BY <2>1, <2>2
  <1>7. Stocks(sh, m) \in Nat
    BY StocksFacts
  <1>8. Opening(StartOf(q).content) \in Nat /\ StartOf(q).content \in Contents
    BY <1>4, OpeningTyped DEF Snapshots
  <1>9. StartOf(q).content.cash \in Nat /\ StartOf(q).content.qty \in Shares
    BY <1>8 DEF Contents
  <1>10. ASSUME NEW l \in Listings
         PROVE  s2[l] = StartOf(r).content.qty[l] + Gained(r, SpentOf(r), l)
    <2>1. sh[l] \in Int /\ e.shares[l] \in Int /\ StartOf(q).content.qty[l] \in Int
      BY <1>1, <1>9 DEF Shares
    <2>2. s2[l] = sh[l] + e.shares[l]
      BY DEF Together
    <2>3. sh[l] = StartOf(q).content.qty[l] + Gained(q, SpentOf(q), l)
      BY <1>3
    <2>4. Gained(r, SpentOf(r), l) = Gained(q, SpentOf(q), l) + e.shares[l] /\ Gained(q, SpentOf(q), l) \in Int
      BY <1>5
    <2>. HIDE DEF s2
    <2>. QED
      BY <1>2, <2>1, <2>2, <2>3, <2>4
  <1>. HIDE DEF s2
  <1>11. g = Stocks(s2, m) - Opening(StartOf(r).content) - Amount(r, SpentOf(r))
    BY <1>1, <1>2, <1>3, <1>5, <1>6, <1>7, <1>8
  <1>12. c - e.amount = StartOf(r).content.cash + Amount(r, PaidOf(r)) - Amount(r, SpentOf(r))
    BY <1>1, <1>2, <1>3, <1>5, <1>9
  <1>. QED
    BY <1>10, <1>11, <1>12

\* What a deposit after the first adds to the sums since the boundary.
LEMMA PaidMore ==
  ASSUME NEW q \in Seq(Rows), NEW e \in Rows, NEW r, Longer(q, e, r), e \in Deposits,
         Type(q, "deposit") # {}
  PROVE  /\ StartOf(r) = StartOf(q) /\ SinceOf(r) = SinceOf(q)
         /\ SpentOf(r) = SpentOf(q)
         /\ SinceOf(q) \in 0..Len(q) => PaidOf(r) = PaidOf(q) \cup {Len(q) + 1}
  <1>1. e.type = "deposit" /\ e \in Deposits \cup Executions
    BY DEF Deposits
  <1>2. /\ Type(r, "deposit") = Type(q, "deposit") \cup {Len(q) + 1}
        /\ Type(r, "execution") = Type(q, "execution")
    BY <1>1, GrownTypes
  <1>3. /\ StartOf(r) = StartOf(q) /\ SinceOf(r) = SinceOf(q)
        /\ Type(r, "baseline") = Type(q, "baseline")
    BY <1>1, SameBoundary
  <1>4. SpentOf(r) = SpentOf(q)
    BY <1>2, <1>3 DEF SpentOf, After
  <1>5. ASSUME SinceOf(q) \in 0..Len(q)
        PROVE  PaidOf(r) = PaidOf(q) \cup {Len(q) + 1}
    <2>1. Len(q) \in Nat /\ SinceOf(q) \in Nat /\ SinceOf(q) < Len(q) + 1
      BY <1>5, Grown
    <2>2. After(r, "deposit", SinceOf(q)) = After(q, "deposit", SinceOf(q)) \cup {Len(q) + 1}
      BY <1>2, <2>1 DEF After
    <2>. QED
      BY <1>2, <1>3, <2>2 DEF PaidOf
  <1>. QED
    BY <1>3, <1>4, <1>5

LEMMA DepositFacts ==
  ASSUME NEW e \in Deposits
  PROVE  e.amount \in Nat /\ e.amount > 0
  <1>1. e.amount \in Amounts
    BY DEF Deposits
  <1>2. Amounts \subseteq Nat \ {0}
    BY ConstantsAssumption
  <1>3. e.amount \in Nat \ {0}
    BY <1>1, <1>2
  <1>. QED
    BY <1>3

LEMMA AmountSame ==
  ASSUME NEW q \in Seq(Rows), NEW e \in Rows, NEW r, Longer(q, e, r), NEW S,
         S \in SUBSET (1..Len(q)), \A i \in S : q[i].amount \in Int
  PROVE  Amount(r, S) = Amount(q, S) /\ Amount(q, S) \in Int
  <1>1. PICK is \in SUBSET (1..Len(q)) : is = S
    OBVIOUS
  <1>2. \A i \in is : q[i].amount \in Int
    BY <1>1
  <1>3. Amount(r, is) = Amount(q, is) /\ Amount(q, is) \in Int
    BY <1>2, AmountKept
  <1>. QED
    BY <1>1, <1>3

LEMMA GainedSame ==
  ASSUME NEW q \in Seq(Rows), NEW e \in Rows, NEW r, Longer(q, e, r), NEW S, NEW l,
         S \in SUBSET (1..Len(q)), \A i \in S : q[i].shares[l] \in Int
  PROVE  Gained(r, S, l) = Gained(q, S, l) /\ Gained(q, S, l) \in Int
  <1>1. PICK is \in SUBSET (1..Len(q)) : is = S
    OBVIOUS
  <1>2. \A i \in is : q[i].shares[l] \in Int
    BY <1>1
  <1>3. Gained(r, is, l) = Gained(q, is, l) /\ Gained(q, is, l) \in Int
    BY <1>2, GainedKept
  <1>. QED
    BY <1>1, <1>3

LEMMA PaidSums ==
  ASSUME NEW q \in Seq(Rows), NEW e \in Rows, NEW r, Longer(q, e, r), e \in Deposits,
         Type(q, "deposit") # {}, StartOf(q) # None, SinceOf(q) \in 0..Len(q)
  PROVE  /\ Amount(r, PaidOf(r)) = Amount(q, PaidOf(q)) + e.amount /\ Amount(q, PaidOf(q)) \in Int
         /\ Amount(r, SpentOf(r)) = Amount(q, SpentOf(q)) /\ Amount(q, SpentOf(q)) \in Int
         /\ \A l \in Listings : Gained(r, SpentOf(r), l) = Gained(q, SpentOf(q), l)
  <1>. DEFINE S == PaidOf(q)
  <1>1. PaidOf(r) = PaidOf(q) \cup {Len(q) + 1} /\ SpentOf(r) = SpentOf(q)
    BY PaidMore
  <1>2. /\ PaidOf(q) \in SUBSET (1..Len(q)) /\ SpentOf(q) \in SUBSET (1..Len(q))
        /\ \A i \in PaidOf(q) : q[i].type = "deposit" /\ q[i].amount \in Nat
        /\ \A i \in SpentOf(q) : q[i].type = "execution" /\ q[i] \in Executions
                                 /\ q[i].amount \in Nat /\ q[i].shares \in Shares
    BY Tracking
  <1>3. e.amount \in Int
    BY DepositFacts
  <1>4. Amount(r, SpentOf(q)) = Amount(q, SpentOf(q)) /\ Amount(q, SpentOf(q)) \in Int
    <2>1. \A i \in SpentOf(q) : q[i].amount \in Int
      BY <1>2
    <2>. QED
      BY <1>2, <2>1, AmountSame
  <1>5. ASSUME NEW l \in Listings
        PROVE  Gained(r, SpentOf(q), l) = Gained(q, SpentOf(q), l)
    <2>1. \A i \in SpentOf(q) : q[i].shares[l] \in Int
      BY <1>2 DEF Shares
    <2>2. Gained(r, SpentOf(q), l) = Gained(q, SpentOf(q), l) /\ Gained(q, SpentOf(q), l) \in Int
      BY <1>2, <2>1, GainedSame
    <2>. QED
      BY <2>2
  <1>6. /\ Amount(r, PaidOf(q) \cup {Len(q) + 1}) = Amount(q, PaidOf(q)) + e.amount
        /\ Amount(q, PaidOf(q)) \in Int
    <2>1. r \in Seq(Rows) /\ Len(q) \in Nat /\ r[Len(q) + 1] = e /\ \A i \in 1..Len(q) : r[i] = q[i]
      BY Grown
    <2>2. \A i \in S : r[i] = q[i] /\ q[i].amount \in Int
      BY <1>2, <2>1
    <2>3. Amount(q, S) \in Int
      <3>1. \A i \in S : q[i].amount \in Int
        BY <2>2
      <3>. QED
        BY <1>2, <3>1, AmountSame
    <2>. DEFINE n == Len(q) + 1
    <2>4. n \notin S /\ r[n] = e
      BY <1>2, <2>1
    <2>5. IsFiniteSet(S)
      BY <1>2, <2>1, Numbers
    <2>. HIDE DEF n, S
    <2>6. r[n].amount \in Int
      BY <1>3, <2>4
    <2>7. Amount(r, S \cup {n}) = Amount(q, S) + r[n].amount
      BY <2>1, <2>2, <2>4, <2>5, <2>6, AmountMore
    <2>. QED
      BY <2>3, <2>4, <2>7 DEF n, S
  <1>. QED
    BY <1>1, <1>4, <1>5, <1>6

LEMMA ExplainsDeposit ==
  ASSUME NEW q \in Seq(Rows), NEW e \in Rows, NEW r, Longer(q, e, r), e \in Deposits,
         NEW c \in Nat, NEW sh \in Shares, NEW m \in Board, NEW g \in Int,
         Type(q, "deposit") # {}, StartOf(q) # None => SinceOf(q) \in 0..Len(q),
         Explains(q, c, sh, m, g)
  PROVE  Explains(r, c + e.amount, sh, m, g)
  <1>. SUFFICES ASSUME StartOf(r) # None
                PROVE  /\ c + e.amount = StartOf(r).content.cash + Amount(r, PaidOf(r)) - Amount(r, SpentOf(r))
                       /\ \A l \in Listings : sh[l] = StartOf(r).content.qty[l] + Gained(r, SpentOf(r), l)
                       /\ g = Stocks(sh, m) - Opening(StartOf(r).content) - Amount(r, SpentOf(r))
    BY DEF Explains
  <1>1. e.amount \in Nat
    BY DepositFacts
  <1>2. StartOf(r) = StartOf(q)
    BY PaidMore
  <1>3. /\ c = StartOf(q).content.cash + Amount(q, PaidOf(q)) - Amount(q, SpentOf(q))
        /\ \A l \in Listings : sh[l] = StartOf(q).content.qty[l] + Gained(q, SpentOf(q), l)
        /\ g = Stocks(sh, m) - Opening(StartOf(q).content) - Amount(q, SpentOf(q))
        /\ SinceOf(q) \in 0..Len(q)
    BY <1>2 DEF Explains
  <1>4. StartOf(q) \in Snapshots
    BY <1>2, Tracking
  <1>5. /\ Amount(r, PaidOf(r)) = Amount(q, PaidOf(q)) + e.amount /\ Amount(q, PaidOf(q)) \in Int
        /\ Amount(r, SpentOf(r)) = Amount(q, SpentOf(q)) /\ Amount(q, SpentOf(q)) \in Int
        /\ \A l \in Listings : Gained(r, SpentOf(r), l) = Gained(q, SpentOf(q), l)
    BY <1>2, <1>3, PaidSums
  <1>6. StartOf(q).content.cash \in Nat
    BY <1>4 DEF Snapshots, Contents
  <1>7. c + e.amount = StartOf(r).content.cash + Amount(r, PaidOf(r)) - Amount(r, SpentOf(r))
    <2>1. PICK a \in Nat : a = e.amount
      BY <1>1
    <2>. DEFINE paid == Amount(q, PaidOf(q))
                spent == Amount(q, SpentOf(q))
                start == StartOf(q).content.cash
    <2>2. c = start + paid - spent
      BY <1>3
    <2>3. paid \in Int /\ spent \in Int /\ start \in Nat
      BY <1>5, <1>6
    <2>4. Amount(r, PaidOf(r)) = paid + a /\ Amount(r, SpentOf(r)) = spent
      BY <1>5, <2>1
    <2>5. StartOf(r).content.cash = start
      BY <1>2
    <2>. HIDE DEF paid, spent, start
    <2>. QED
      BY <2>1, <2>2, <2>3, <2>4, <2>5
  <1>8. \A l \in Listings : sh[l] = StartOf(r).content.qty[l] + Gained(r, SpentOf(r), l)
    BY <1>2, <1>3, <1>5
  <1>9. g = Stocks(sh, m) - Opening(StartOf(r).content) - Amount(r, SpentOf(r))
    BY <1>2, <1>3, <1>5
  <1>. QED
    BY <1>7, <1>8, <1>9

LEMMA AmountTyped ==
  ASSUME NEW q \in Seq(Rows), NEW S, S \in SUBSET (1..Len(q)), \A i \in S : q[i].amount \in Int
  PROVE  Amount(q, S) \in Int
  <1>1. Len(q) \in Nat
    OBVIOUS
  <1>2. IsFiniteSet(S)
    BY <1>1, Numbers
  <1>. DEFINE f == [i \in S |-> q[i].amount]
  <1>3. Amount(q, S) = On(f, S)
    BY DEF Amount, On
  <1>4. \A i \in S : f[i] \in Int
    OBVIOUS
  <1>. HIDE DEF f
  <1>. QED
    BY <1>2, <1>3, <1>4, OnRemove

LEMMA SumsTyped ==
  ASSUME NEW q \in Seq(Rows), Type(q, "deposit") # {}, StartOf(q) # None
  PROVE  /\ StartOf(q).content \in Contents
         /\ Amount(q, PaidOf(q)) \in Int /\ Amount(q, SpentOf(q)) \in Int
  <1>1. /\ StartOf(q) \in Snapshots
        /\ PaidOf(q) \in SUBSET (1..Len(q)) /\ SpentOf(q) \in SUBSET (1..Len(q))
        /\ \A i \in PaidOf(q) : q[i].type = "deposit" /\ q[i].amount \in Nat
        /\ \A i \in SpentOf(q) : q[i].type = "execution" /\ q[i] \in Executions
                                 /\ q[i].amount \in Nat /\ q[i].shares \in Shares
    BY Tracking
  <1>2. /\ \A i \in PaidOf(q) : q[i].amount \in Int
        /\ \A i \in SpentOf(q) : q[i].amount \in Int
    BY <1>1
  <1>3. Amount(q, PaidOf(q)) \in Int
    BY <1>1, <1>2, AmountTyped
  <1>4. Amount(q, SpentOf(q)) \in Int
    BY <1>1, <1>2, AmountTyped
  <1>. QED
    BY <1>1, <1>3, <1>4 DEF Snapshots

LEMMA ExplainsMove ==
  ASSUME NEW q \in Seq(Rows), NEW c \in Nat, NEW sh \in Shares, NEW m \in Board, NEW g \in Int,
         NEW l \in Listings, NEW p \in Price, Explains(q, c, sh, m, g)
  PROVE  Explains(q, c, sh, Moved(m, l, p), g + sh[l] * (p.close - m[l].close))
  <1>. SUFFICES ASSUME Type(q, "deposit") # {}, StartOf(q) # None
                PROVE  g + sh[l] * (p.close - m[l].close)
                         = Stocks(sh, Moved(m, l, p)) - Opening(StartOf(q).content)
                             - Amount(q, SpentOf(q))
    BY DEF Explains
  <1>. DEFINE up == sh[l] * (p.close - m[l].close)
  <1>1. Stocks(sh, Moved(m, l, p)) = Stocks(sh, m) + up /\ Stocks(sh, m) \in Nat
    BY StocksMove, StocksFacts
  <1>2. up \in Int
    <2>1. p.close \in Int /\ m[l].close \in Nat /\ sh[l] \in Nat
      BY PriceFacts, PriceTyped DEF Shares
    <2>. QED
      BY <2>1
  <1>3. g = Stocks(sh, m) - Opening(StartOf(q).content) - Amount(q, SpentOf(q))
    BY DEF Explains
  <1>4. StartOf(q) \in Snapshots /\ SpentOf(q) \in SUBSET (1..Len(q))
        /\ \A i \in SpentOf(q) : q[i].amount \in Nat
    BY Tracking
  <1>5. Opening(StartOf(q).content) \in Nat
    BY <1>4, OpeningTyped DEF Snapshots
  <1>6. Amount(q, SpentOf(q)) \in Int
    BY SumsTyped
  <1>. HIDE DEF up
  <1>7. g + up = Stocks(sh, Moved(m, l, p)) - Opening(StartOf(q).content) - Amount(q, SpentOf(q))
    BY <1>1, <1>2, <1>3, <1>5, <1>6
  <1>. QED
    BY <1>7 DEF up

LEMMA NothingAmounts ==
  ASSUME NEW q
  PROVE  Amount(q, {}) = 0 /\ \A l : Gained(q, {}, l) = 0
  <1>1. Amount(q, {}) = 0
    <2>1. Amount(q, {}) = On([i \in {} |-> q[i].amount], {})
      BY DEF Amount, On
    <2>. QED
      BY <2>1, OnEmpty
  <1>2. ASSUME NEW l
        PROVE  Gained(q, {}, l) = 0
    <2>1. Gained(q, {}, l) = On([i \in {} |-> q[i].shares[l]], {})
      BY DEF Gained, On
    <2>. QED
      BY <2>1, OnEmpty
  <1>. QED
    BY <1>1, <1>2

\* A manual change starts anew, at the prices it valued its holdings at.
LEMMA ExplainsBaseline ==
  ASSUME NEW q \in Seq(Rows), NEW e \in Rows, NEW r, Longer(q, e, r), e \in Baselines,
         NEW c \in Nat, NEW sh \in Shares, NEW m \in Board, NEW m0 \in Board,
         e.snap.content = Content(c, sh, m0)
  PROVE  Explains(r, c, sh, m, Stocks(sh, m) - Stocks(sh, m0))
  <1>1. r \in Seq(Rows) /\ Len(q) \in Nat /\ Len(r) = Len(q) + 1 /\ r[Len(q) + 1] = e
    BY Grown
  <1>2. e.type = "baseline"
    BY DEF Baselines
  <1>3. Type(r, "baseline") = Type(q, "baseline") \cup {Len(q) + 1}
    BY <1>2, GrownTypes
  <1>4. Max(Type(r, "baseline")) = Len(q) + 1
    <2>. DEFINE N == Type(r, "baseline")
                n == Len(q) + 1
    <2>1. n \in Nat /\ n \in N
      BY <1>1, <1>3
    <2>2. N \in SUBSET (1..n)
      BY <1>1, Within
    <2>. HIDE DEF N, n
    <2>3. N # {} => Max(N) \in N /\ \A j \in N : j <= Max(N)
      BY <2>1, <2>2, Numbers
    <2>4. Max(N) \in 1..n /\ n <= Max(N)
      BY <2>1, <2>2, <2>3
    <2>5. Max(N) = n
      BY <2>1, <2>4
    <2>. QED
      BY <2>5 DEF N, n
  <1>5. StartOf(r) = e.snap
    BY <1>1, <1>3, <1>4 DEF StartOf
  <1>6. SinceOf(r) = Len(q) + 1
    BY <1>3, <1>4 DEF SinceOf
  <1>7. PaidOf(r) = {} /\ SpentOf(r) = {}
    <2>1. ASSUME NEW t
          PROVE  After(r, t, Len(q) + 1) = {}
      BY <1>1 DEF After, Type, Upto
    <2>2. PaidOf(r) = After(r, "deposit", Len(q) + 1) /\ SpentOf(r) = After(r, "execution", Len(q) + 1)
      BY <1>3, <1>6 DEF PaidOf, SpentOf
    <2>. QED
      BY <2>1, <2>2
  <1>8. Amount(r, {}) = 0 /\ \A l \in Listings : Gained(r, {}, l) = 0
    BY NothingAmounts
  <1>9. Stocks(sh, m) \in Nat /\ Stocks(sh, m0) \in Nat
    BY StocksFacts
  <1>10. Opening(StartOf(r).content) = Stocks(sh, m0)
    BY <1>5, OpeningIsStocks
  <1>11. StartOf(r).content.cash = c /\ StartOf(r).content.qty = sh
    BY <1>5, ContentTyped
  <1>12. c = StartOf(r).content.cash + Amount(r, PaidOf(r)) - Amount(r, SpentOf(r))
    BY <1>7, <1>8, <1>11
  <1>13. \A l \in Listings : sh[l] = StartOf(r).content.qty[l] + Gained(r, SpentOf(r), l)
    BY <1>7, <1>8, <1>11 DEF Shares
  <1>14. Stocks(sh, m) - Stocks(sh, m0)
           = Stocks(sh, m) - Opening(StartOf(r).content) - Amount(r, SpentOf(r))
    BY <1>7, <1>8, <1>9, <1>10
  <1>. QED
    BY <1>12, <1>13, <1>14 DEF Explains

\* The first deposit starts at a snapshot after which nothing has been bought.
LEMMA ExplainsFirst ==
  ASSUME NEW q \in Seq(Rows), NEW e \in Rows, NEW r, Longer(q, e, r), e \in Deposits,
         NEW c \in Nat, NEW sh \in Shares, NEW m \in Board,
         Type(q, "deposit") = {}, Type(q, "baseline") = {},
         e.snap # None => /\ e.snap.content = Content(c, sh, m)
                          /\ After(q, "execution", e.snap.at) = {} /\ e.snap.at \in 0..Len(q)
  PROVE  Explains(r, c + e.amount, sh, m, 0)
  <1>1. r \in Seq(Rows) /\ Len(q) \in Nat /\ Len(r) = Len(q) + 1 /\ r[Len(q) + 1] = e
    BY Grown
  <1>2. e.type = "deposit"
    BY DEF Deposits
  <1>3. /\ Type(r, "deposit") = {Len(q) + 1} /\ Type(r, "baseline") = {}
        /\ Type(r, "execution") = Type(q, "execution")
    BY <1>2, GrownTypes
  <1>4. Min({Len(q) + 1}) = Len(q) + 1
    BY <1>1 DEF Min
  <1>5. StartOf(r) = e.snap
    BY <1>1, <1>3, <1>4 DEF StartOf
  <1>. SUFFICES ASSUME e.snap # None
                PROVE  Explains(r, c + e.amount, sh, m, 0)
    BY <1>5 DEF Explains
  <1>6. PaidOf(r) = {Len(q) + 1} /\ SpentOf(r) = {}
    BY <1>3, <1>5 DEF PaidOf, SpentOf, SinceOf, After
  <1>7. Amount(r, {}) = 0 /\ \A l \in Listings : Gained(r, {}, l) = 0
    BY NothingAmounts
  <1>8. e.amount \in Nat
    BY DepositFacts
  <1>9. Amount(r, {Len(q) + 1}) = e.amount
    <2>. DEFINE n == Len(q) + 1
    <2>1. r[n] = e
      BY <1>1
    <2>. HIDE DEF n
    <2>2. PICK S : S = {}
      OBVIOUS
    <2>3. IsFiniteSet(S) /\ n \notin S /\ \A i \in S : r[i] = r[i] /\ r[i].amount \in Int
      BY <2>2, FS_EmptySet
    <2>4. r[n].amount \in Int
      BY <1>8, <2>1
    <2>5. Amount(r, S \cup {n}) = Amount(r, S) + r[n].amount
      BY <1>1, <2>3, <2>4, AmountMore
    <2>6. S \cup {n} = {n}
      BY <2>2
    <2>. QED
      BY <1>7, <1>8, <2>1, <2>2, <2>5, <2>6 DEF n
  <1>10. Stocks(sh, m) \in Nat
    BY StocksFacts
  <1>11. Opening(StartOf(r).content) = Stocks(sh, m)
    BY <1>5, OpeningIsStocks
  <1>12. StartOf(r).content.cash = c /\ StartOf(r).content.qty = sh
    BY <1>5, ContentTyped
  <1>13. c + e.amount = StartOf(r).content.cash + Amount(r, PaidOf(r)) - Amount(r, SpentOf(r))
    BY <1>6, <1>7, <1>8, <1>9, <1>12
  <1>14. \A l \in Listings : sh[l] = StartOf(r).content.qty[l] + Gained(r, SpentOf(r), l)
    BY <1>6, <1>7, <1>12 DEF Shares
  <1>15. 0 = Stocks(sh, m) - Opening(StartOf(r).content) - Amount(r, SpentOf(r))
    BY <1>6, <1>7, <1>10, <1>11
  <1>. QED
    BY <1>13, <1>14, <1>15 DEF Explains

LEMMA ExecutionsAfter ==
  ASSUME NEW q \in Seq(Rows), NEW n, NEW is, is = After(q, "execution", n)
  PROVE  /\ is \in SUBSET (1..Len(q)) /\ IsFiniteSet(is)
         /\ \A i \in is : q[i].type = "execution" /\ q[i].amount \in Int /\ q[i].amount \in Nat
  <1>1. After(q, "execution", n) \in SUBSET (1..Len(q)) /\ Len(q) \in Nat
    BY Within
  <1>2. IsFiniteSet(After(q, "execution", n))
    BY <1>1, Numbers
  <1>3. \A i \in After(q, "execution", n) : q[i].type = "execution"
    BY DEF After, Type, Upto
  <1>4. \A i \in After(q, "execution", n) : q[i].amount \in Nat
    BY <1>1, <1>3, RowFacts
  <1>. QED
    BY <1>1, <1>2, <1>3, <1>4

LEMMA UntrackedExecution ==
  ASSUME NEW q \in Seq(Rows), NEW e \in Rows, NEW r, Longer(q, e, r), e \in Executions,
         NEW c \in Nat, NEW ss \in SUBSET Snapshots, \A s \in ss : s.at \in 0..Len(q),
         Untracked(q, c, ss)
  PROVE  Untracked(r, c - e.amount, ss)
  <1>1. e.type = "execution" /\ e.amount \in Nat
    BY DEF Executions
  <1>2. /\ Type(r, "deposit") = Type(q, "deposit") /\ Type(r, "baseline") = Type(q, "baseline")
        /\ Type(r, "execution") = Type(q, "execution") \cup {Len(q) + 1}
    BY <1>1, GrownTypes
  <1>. SUFFICES ASSUME Type(q, "deposit") = {}, NEW s \in ss
                PROVE  c - e.amount + Amount(r, After(r, "execution", s.at)) <= s.content.cash
    BY <1>2 DEF Untracked
  <1>3. c + Amount(q, After(q, "execution", s.at)) <= s.content.cash
    BY DEF Untracked
  <1>. DEFINE S == After(q, "execution", s.at)
              n == Len(q) + 1
  <1>4. r \in Seq(Rows) /\ Len(q) \in Nat /\ r[n] = e /\ \A i \in 1..Len(q) : r[i] = q[i]
    BY Grown
  <1>5. After(r, "execution", s.at) = S \cup {n}
    <2>1. s.at \in Nat /\ s.at < Len(q) + 1
      BY <1>4
    <2>. QED
      BY <1>2, <2>1 DEF After
  <1>6. /\ S \in SUBSET (1..Len(q)) /\ IsFiniteSet(S)
        /\ \A i \in S : q[i].amount \in Int
    BY ExecutionsAfter
  <1>7. n \notin S /\ \A i \in S : r[i] = q[i] /\ q[i].amount \in Int
    BY <1>4, <1>6
  <1>8. Amount(q, S) \in Int
    BY <1>6, AmountSame
  <1>. HIDE DEF S, n
  <1>9. r[n].amount \in Int
    BY <1>1, <1>4
  <1>10. Amount(r, S \cup {n}) = Amount(q, S) + r[n].amount
    <2>1. n \notin S
      BY <1>7
    <2>2. \A i \in S : r[i] = q[i] /\ q[i].amount \in Int
      BY <1>7
    <2>3. IsFiniteSet(S)
      BY <1>6
    <2>. QED
      BY <1>4, <1>9, <2>1, <2>2, <2>3, AmountMore
  <1>11. s.content.cash \in Nat
    BY DEF Snapshots, Contents
  <1>12. c + Amount(q, S) <= s.content.cash
    BY <1>3 DEF S
  <1>. QED
    <2>1. r[n].amount = e.amount
      BY <1>4
    <2>2. Amount(r, After(r, "execution", s.at)) = Amount(q, S) + e.amount
      BY <1>5, <1>10, <2>1
    <2>. QED
      BY <1>1, <1>8, <1>11, <1>12, <2>2

\* No purchase came after a snapshot that has the cash there is.
LEMMA UntrackedQuiet ==
  ASSUME NEW q \in Seq(Rows), NEW c \in Nat, NEW ss, NEW s \in ss, Untracked(q, c, ss),
         Type(q, "deposit") = {}, s.content.cash = c,
         \A i \in 1..Len(q) : q[i].type = "execution" => q[i].amount > 0
  PROVE  After(q, "execution", s.at) = {} /\ Type(q, "baseline") = {}
  <1>. DEFINE S == After(q, "execution", s.at)
              f == [i \in S |-> q[i].amount]
  <1>1. Type(q, "baseline") = {} /\ c + Amount(q, S) <= c
    BY DEF Untracked
  <1>2. /\ S \in SUBSET (1..Len(q)) /\ IsFiniteSet(S)
        /\ \A i \in S : q[i].type = "execution" /\ q[i].amount \in Nat
    BY ExecutionsAfter
  <1>3. Amount(q, S) = On(f, S)
    BY DEF Amount, On
  <1>4. \A i \in S : f[i] \in Nat /\ f[i] > 0
    BY <1>2
  <1>. HIDE DEF f
  <1>5. \A T \in SUBSET S : On(f, T) \in Nat /\ \A i \in T : f[i] <= On(f, T)
    BY <1>2, <1>4, OnNat
  <1>6. S \in SUBSET S
    OBVIOUS
  <1>. HIDE DEF S
  <1>7. On(f, S) \in Nat /\ On(f, S) <= 0
    BY <1>1, <1>3, <1>5, <1>6
  <1>8. S = {}
    BY <1>4, <1>5, <1>6, <1>7
  <1>. QED
    BY <1>1, <1>8 DEF S

LEMMA UntrackedSnapshot ==
  ASSUME NEW q \in Seq(Rows), NEW c \in Nat, NEW ss, NEW s, Untracked(q, c, ss),
         s \in ss \/ s.at = Len(q), Type(q, "deposit") = {} => c <= s.content.cash
  PROVE  Untracked(q, c, ss \cup {s})
  <1>. SUFFICES ASSUME Type(q, "deposit") = {}, s.at = Len(q)
                PROVE  c + Amount(q, After(q, "execution", s.at)) <= s.content.cash
    BY DEF Untracked
  <1>1. After(q, "execution", s.at) = {}
    BY DEF After, Type, Upto
  <1>2. Amount(q, {}) = 0
    BY NothingAmounts
  <1>3. c <= s.content.cash /\ c + 0 = c
    OBVIOUS
  <1>. QED
    BY <1>1, <1>2, <1>3

-----------------------------------------------------------------------------
(* The inductive invariant *)

Manual == [kind : {"manual"}, qty : Shares, market : Board, gain : Int]
Purchase == [kind : {"confirm", "buy"}, key : Keys, lock : SUBSET Listings]
Places == {"idle", "loaded", "opened", "valued", "deposits", "baseline", "purchases"}
Reading == [at : Places, cash : Nat, value : Int, fresh : BOOLEAN, gain : Int,
            deposits : Nat, baselines : Nat, purchases : Nat]

Typed ==
  /\ cash \in Nat /\ qty \in Shares /\ market \in Board
  /\ satellite \in Others \cup {None}
  /\ ledger \in Seq(Rows) /\ Len(ledger) <= MaxEvents
  /\ snaps \in SUBSET Snapshots
  /\ forms \in [Keys -> Plans \cup {None}]
  /\ txn \in Manual \cup Purchase \cup {None}
  /\ reader \in [Readers -> Reading]
  /\ moves \in 0..MaxMoves /\ gain \in Int

\* A snapshot holds the price of what is held, and came after rows that were written.
SnapsOK ==
  \A s \in snaps : s.at \in 0..Len(ledger) /\ DOMAIN s.content.market = Held(s.content.qty)

\* A row's snapshot is recorded, and a purchase buys and costs something.
RowsOK ==
  \A i \in 1..Len(ledger) :
    /\ ledger[i].type = "deposit" => ledger[i].snap \in snaps \cup {None}
    /\ ledger[i].type = "baseline" => ledger[i].snap \in snaps
    /\ ledger[i].type = "execution" => ledger[i].amount > 0 /\ Held(ledger[i].shares) # {}

FormsOK ==
  \A k \in Keys : forms[k] # None =>
    Buys(forms[k]) = Held(forms[k].shares) /\ Held(forms[k].shares) # {}

\* An open change knows the market's move of its new holdings; an open purchase stands on
\* what its form showed, and holds the market rows of what is held.
TxnOK ==
  /\ txn \in Manual \ {None} => txn.gain = Stocks(txn.qty, market) - Stocks(txn.qty, txn.market)
  /\ txn \in Purchase \ {None} =>
       /\ forms[txn.key] # None /\ Held(qty) \subseteq txn.lock
       /\ txn.kind = "buy" => forms[txn.key].content = Content(cash, qty, market)

\* Before the first deposit the cash only falls.
BeforeDeposits ==
  /\ Untracked(ledger, cash, snaps)
  /\ Type(ledger, "deposit") = {} =>
       \A r \in Readers : reader[r].at = "loaded" => cash <= reader[r].cash

\* Deposits and purchases since the boundary lead to the cash and the shares there are, and
\* what they leave unexplained of the value is the market's.
Explained == Explains(ledger, cash, qty, market, gain)

\* While a page is read there is no deposit and no manual change; until something is bought,
\* the value it has read is explained like that of now.
PageHolds(rd, q, c) ==
  QuietPages /\ rd.at \notin {"idle", "loaded"} =>
    /\ c <= rd.cash
    /\ rd.at \in {"deposits", "baseline", "purchases"} =>
         /\ rd.deposits <= Len(q)
         /\ Upto(q, "deposit", rd.deposits) = Type(q, "deposit")
    /\ rd.at \in {"baseline", "purchases"} =>
         /\ rd.baselines <= Len(q)
         /\ Upto(q, "baseline", rd.baselines) = Type(q, "baseline")
    /\ rd.at = "purchases" => rd.purchases <= Len(q)
    /\ rd.at # "opened" /\ rd.cash = c /\ Type(q, "deposit") # {} /\ StartOf(q) # None =>
         rd.value = StartOf(q).content.cash + Opening(StartOf(q).content)
                      + Amount(q, PaidOf(q)) + rd.gain

PagesOK == \A r \in Readers : PageHolds(reader[r], ledger, cash)

IInv ==
  /\ Typed /\ SnapsOK /\ RowsOK /\ FormsOK /\ TxnOK /\ BeforeDeposits /\ Explained /\ PagesOK

\* The model's operators on the ledger are those above.
LEMMA Bridge ==
  /\ \A t, n : OfType(t, n) = Upto(ledger, t, n)
  /\ \A t : OfType(t, Len(ledger)) = Type(ledger, t)
  /\ \A is : Total(is) = Amount(ledger, is)
  /\ \A is, l : Bought(is, l) = Gained(ledger, is, l)
  BY DEF OfType, Upto, Type, Total, Amount, Bought, Gained

LEMMA Tracks ==
  ASSUME Typed, NEW nd \in 0..Len(ledger), NEW nb \in 0..Len(ledger),
         Upto(ledger, "deposit", nd) = Type(ledger, "deposit"),
         Upto(ledger, "baseline", nb) = Type(ledger, "baseline")
  PROVE  /\ Boundary(nd, nb) = StartOf(ledger) /\ Tracked(nd, nb) = PaidOf(ledger)
         /\ \A np : PurchasesSince(nd, nb, np)
                      = {i \in Upto(ledger, "execution", np) : i > SinceOf(ledger)}
  <1>1. OfType("deposit", nd) = Type(ledger, "deposit") /\ OfType("baseline", nb) = Type(ledger, "baseline")
    BY Bridge
  <1>2. Boundary(nd, nb) = StartOf(ledger)
    BY <1>1 DEF Boundary, StartOf
  <1>3. Since(nd, nb) = SinceOf(ledger)
    BY <1>1, <1>2 DEF Since, SinceOf
  <1>4. Tracked(nd, nb) = PaidOf(ledger)
    BY <1>1, <1>3 DEF Tracked, PaidOf, After
  <1>5. ASSUME NEW np
        PROVE  PurchasesSince(nd, nb, np) = {i \in Upto(ledger, "execution", np) : i > SinceOf(ledger)}
    <2>1. OfType("execution", np) = Upto(ledger, "execution", np)
      BY Bridge
    <2>. QED
      BY <1>3, <2>1 DEF PurchasesSince
  <1>. QED
    BY <1>2, <1>4, <1>5

LEMMA RecordedFacts ==
  ASSUME Typed, SnapsOK, NEW c \in Nat, NEW q \in Shares, NEW m \in Board
  PROVE  /\ Recorded(c, q, m) \in Snapshots /\ Recorded(c, q, m).content = Content(c, q, m)
         /\ Recorded(c, q, m).at \in 0..Len(ledger)
         /\ Recorded(c, q, m) \in snaps \/ Recorded(c, q, m).at = Len(ledger)
         /\ DOMAIN Recorded(c, q, m).content.market = Held(q)
  <1>. DEFINE same == {s \in snaps : s.content = Content(c, q, m)}
  <1>1. Content(c, q, m) \in Contents /\ DOMAIN Content(c, q, m).market = Held(q)
    BY ContentTyped
  <1>2. Len(ledger) \in Nat
    BY DEF Typed
  <1>3. CASE same # {}
    <2>1. Recorded(c, q, m) \in same
      BY <1>3 DEF Recorded
    <2>2. Recorded(c, q, m) \in snaps /\ Recorded(c, q, m).content = Content(c, q, m)
      BY <2>1
    <2>. QED
      BY <1>1, <2>2 DEF Typed, SnapsOK
  <1>4. CASE same = {}
    <2>1. Recorded(c, q, m) = [content |-> Content(c, q, m), at |-> Len(ledger)]
      BY <1>4 DEF Recorded, SnapshotOf
    <2>. QED
      BY <1>1, <1>2, <2>1 DEF Snapshots
  <1>. QED
    BY <1>3, <1>4

LEMMA SinceBound ==
  ASSUME Typed, SnapsOK, RowsOK, Type(ledger, "deposit") # {}, StartOf(ledger) # None
  PROVE  SinceOf(ledger) \in 0..Len(ledger)
  <1>1. ledger \in Seq(Rows) /\ Len(ledger) \in Nat
    BY DEF Typed
  <1>2. CASE Type(ledger, "baseline") # {}
    <2>1. SinceOf(ledger) \in 1..Len(ledger)
      BY <1>1, <1>2, StartFacts
    <2>. QED
      BY <1>1, <2>1
  <1>3. CASE Type(ledger, "baseline") = {}
    <2>1. SinceOf(ledger) = StartOf(ledger).at
      BY <1>3 DEF SinceOf
    <2>2. PICK i \in 1..Len(ledger) :
            ledger[i].type \in {"deposit", "baseline"} /\ StartOf(ledger) = ledger[i].snap
      BY <1>1, StartFacts
    <2>3. StartOf(ledger) \in snaps
      BY <2>2 DEF RowsOK
    <2>. QED
      BY <2>1, <2>3 DEF SnapsOK
  <1>. QED
    BY <1>2, <1>3

LEMMA PageExecution ==
  ASSUME NEW q \in Seq(Rows), NEW e \in Rows, NEW r, Longer(q, e, r), e \in Executions,
         e.amount > 0, NEW c \in Nat, NEW rd \in Reading, PageHolds(rd, q, c)
  PROVE  PageHolds(rd, r, c - e.amount)
  <1>. SUFFICES ASSUME QuietPages, rd.at \notin {"idle", "loaded"}
                PROVE  PageHolds(rd, r, c - e.amount)
    BY DEF PageHolds
  <1>1. e.type = "execution" /\ e.amount \in Nat
    BY DEF Executions
  <1>2. Type(r, "deposit") = Type(q, "deposit") /\ Type(r, "baseline") = Type(q, "baseline")
    BY <1>1, GrownTypes
  <1>3. Len(q) \in Nat /\ Len(r) = Len(q) + 1
    BY Grown
  <1>4. rd.cash \in Nat /\ rd.deposits \in Nat /\ rd.baselines \in Nat /\ rd.purchases \in Nat
    BY DEF Reading
  <1>5. c <= rd.cash
    BY DEF PageHolds
  <1>6. c - e.amount <= rd.cash /\ rd.cash # c - e.amount
    BY <1>1, <1>4, <1>5
  <1>7. rd.at \in {"deposits", "baseline", "purchases"} =>
          /\ rd.deposits <= Len(r)
          /\ Upto(r, "deposit", rd.deposits) = Type(r, "deposit")
    <2>1. SUFFICES ASSUME rd.at \in {"deposits", "baseline", "purchases"}
                   PROVE  /\ rd.deposits <= Len(r)
                          /\ Upto(r, "deposit", rd.deposits) = Type(r, "deposit")
      OBVIOUS
    <2>2. rd.deposits <= Len(q) /\ Upto(q, "deposit", rd.deposits) = Type(q, "deposit")
      BY <2>1 DEF PageHolds
    <2>3. rd.deposits \in 0..Len(q)
      BY <1>3, <1>4, <2>2
    <2>4. Upto(r, "deposit", rd.deposits) = Upto(q, "deposit", rd.deposits)
      BY <2>3, GrownUpto
    <2>. QED
      BY <1>2, <1>3, <1>4, <2>2, <2>4
  <1>8. rd.at \in {"baseline", "purchases"} =>
          /\ rd.baselines <= Len(r)
          /\ Upto(r, "baseline", rd.baselines) = Type(r, "baseline")
    <2>1. SUFFICES ASSUME rd.at \in {"baseline", "purchases"}
                   PROVE  /\ rd.baselines <= Len(r)
                          /\ Upto(r, "baseline", rd.baselines) = Type(r, "baseline")
      OBVIOUS
    <2>2. rd.baselines <= Len(q) /\ Upto(q, "baseline", rd.baselines) = Type(q, "baseline")
      BY <2>1 DEF PageHolds
    <2>3. rd.baselines \in 0..Len(q)
      BY <1>3, <1>4, <2>2
    <2>4. Upto(r, "baseline", rd.baselines) = Upto(q, "baseline", rd.baselines)
      BY <2>3, GrownUpto
    <2>. QED
      BY <1>2, <1>3, <1>4, <2>2, <2>4
  <1>9. rd.at = "purchases" => rd.purchases <= Len(r)
    <2>1. rd.at = "purchases" => rd.purchases <= Len(q)
      BY DEF PageHolds
    <2>. QED
      BY <1>3, <1>4, <2>1
  <1>. QED
    BY <1>6, <1>7, <1>8, <1>9 DEF PageHolds

-----------------------------------------------------------------------------
(* Each action keeps the invariant *)

LEMMA Starts == Init => IInv
  <1>. SUFFICES ASSUME Init
                PROVE  IInv
    OBVIOUS
  <1>1. Min(Closes) \in Closes
    <2>1. Closes \in SUBSET Nat /\ Closes # {}
      BY ConstantsAssumption
    <2>2. \E n \in Closes : \A m \in Closes : n <= m
      BY <2>1, Least
    <2>. QED
      BY <2>2 DEF Min
  <1>2. cash \in Nat
    BY ConstantsAssumption DEF Init
  <1>3. qty \in Shares
    BY DEF Init, Shares
  <1>4. market \in Board
    <2>1. [session |-> 1, close |-> Min(Closes), asset |-> 0] \in Price
      BY <1>1, ConstantsAssumption DEF Price
    <2>. QED
      BY <2>1 DEF Init, Board
  <1>5. ledger = <<>> /\ ledger \in Seq(Rows) /\ Len(ledger) = 0
    BY DEF Init
  <1>6. Idle \in Reading
    BY DEF Idle, Reading, Places
  <1>7. Typed
    <2>1. satellite \in Others \cup {None} /\ snaps \in SUBSET Snapshots
      BY DEF Init
    <2>2. forms \in [Keys -> Plans \cup {None}] /\ txn \in Manual \cup Purchase \cup {None}
      BY DEF Init
    <2>3. reader \in [Readers -> Reading]
      BY <1>6 DEF Init
    <2>4. moves \in 0..MaxMoves /\ gain \in Int /\ Len(ledger) <= MaxEvents
      BY <1>5, ConstantsAssumption DEF Init
    <2>. QED
      BY <1>2, <1>3, <1>4, <1>5, <2>1, <2>2, <2>3, <2>4 DEF Typed
  <1>8. SnapsOK /\ RowsOK
    BY <1>5 DEF Init, SnapsOK, RowsOK
  <1>9. FormsOK
    BY DEF Init, FormsOK
  <1>10. TxnOK
    BY DEF Init, TxnOK
  <1>11. \A t : Type(ledger, t) = {}
    BY <1>5 DEF Type, Upto
  <1>12. BeforeDeposits
    <2>1. Untracked(ledger, cash, snaps)
      BY <1>11 DEF Untracked, Init
    <2>. QED
      BY <2>1 DEF BeforeDeposits, Init, Idle
  <1>13. Explained
    BY <1>11 DEF Explained, Explains
  <1>14. PagesOK
    BY DEF Init, PagesOK, PageHolds, Idle
  <1>. QED
    BY <1>7, <1>8, <1>9, <1>10, <1>12, <1>13, <1>14 DEF IInv

LEMMA SnapsKept ==
  ASSUME IInv, UNCHANGED <<snaps, ledger>>
  PROVE  SnapsOK' /\ RowsOK'
  BY DEF IInv, SnapsOK, RowsOK

LEMMA FormsKept ==
  ASSUME IInv, UNCHANGED forms
  PROVE  FormsOK'
  BY DEF IInv, FormsOK

LEMMA TxnKept ==
  ASSUME IInv, UNCHANGED <<txn, market, forms, qty, cash>>
  PROVE  TxnOK'
  BY DEF IInv, TxnOK

LEMMA BeforeKept ==
  ASSUME IInv, UNCHANGED <<ledger, cash, snaps, reader>>
  PROVE  BeforeDeposits'
  BY DEF IInv, BeforeDeposits

LEMMA ExplainedKept ==
  ASSUME IInv, UNCHANGED <<ledger, cash, qty, market, gain>>
  PROVE  Explained'
  BY DEF IInv, Explained

LEMMA PagesKept ==
  ASSUME IInv, UNCHANGED <<reader, ledger, cash>>
  PROVE  PagesOK'
  BY DEF IInv, PagesOK

\* One reader's step.
LEMMA ReaderStep ==
  ASSUME IInv, Known, UNCHANGED snaps, NEW r \in Readers, NEW rd \in Reading,
         reader' = [reader EXCEPT ![r] = rd],
         rd.at = "loaded" => cash <= rd.cash, PageHolds(rd, ledger, cash)
  PROVE  IInv'
  <1>1. UNCHANGED <<cash, qty, market, satellite, ledger, forms, txn, moves, gain>>
    BY DEF Known
  <1>2. reader' \in [Readers -> Reading] /\ reader'[r] = rd
        /\ \A x \in Readers \ {r} : reader'[x] = reader[x]
    BY DEF IInv, Typed
  <1>3. Typed'
    BY <1>1, <1>2 DEF IInv, Typed
  <1>4. SnapsOK' /\ RowsOK'
    BY <1>1, SnapsKept
  <1>5. FormsOK'
    BY <1>1, FormsKept
  <1>6. TxnOK'
    BY <1>1, TxnKept
  <1>7. BeforeDeposits'
    <2>1. Untracked(ledger, cash, snaps)'
      BY <1>1 DEF IInv, BeforeDeposits
    <2>2. ASSUME Type(ledger, "deposit") = {}, NEW x \in Readers, reader'[x].at = "loaded"
          PROVE  cash <= reader'[x].cash
      BY <1>2, <2>2 DEF IInv, BeforeDeposits
    <2>. QED
      BY <1>1, <2>1, <2>2 DEF BeforeDeposits
  <1>8. Explained'
    BY <1>1, ExplainedKept
  <1>9. PagesOK'
    <2>1. \A x \in Readers : PageHolds(reader'[x], ledger, cash)
      BY <1>2 DEF IInv, PagesOK
    <2>. QED
      BY <1>1, <2>1 DEF PagesOK
  <1>. QED
    BY <1>3, <1>4, <1>5, <1>6, <1>7, <1>8, <1>9 DEF IInv

LEMMA LoadStep ==
  ASSUME IInv, NEW r \in Readers, Load(r)
  PROVE  IInv'
  <1>. DEFINE rd == [Idle EXCEPT !.at = "loaded", !.cash = cash]
  <1>1. Known /\ UNCHANGED snaps /\ reader' = [reader EXCEPT ![r] = rd]
    BY DEF Load
  <1>2. cash \in Nat
    BY DEF IInv, Typed
  <1>3. rd \in Reading /\ rd.at = "loaded" /\ rd.cash = cash
    <2>1. Idle \in Reading
      BY DEF Idle, Reading, Places
    <2>. QED
      BY <1>2, <2>1 DEF Reading, Places
  <1>. HIDE DEF rd
  <1>4. PageHolds(rd, ledger, cash)
    BY <1>3 DEF PageHolds
  <1>5. rd.at = "loaded" => cash <= rd.cash
    BY <1>2, <1>3
  <1>. QED
    BY <1>1, <1>3, <1>4, <1>5, ReaderStep

LEMMA OpenPageStep ==
  ASSUME IInv, NEW r \in Readers, OpenPage(r)
  PROVE  IInv'
  <1>. DEFINE rd == [Idle EXCEPT !.at = "opened", !.cash = cash]
  <1>1. Known /\ UNCHANGED snaps /\ reader' = [reader EXCEPT ![r] = rd]
    BY DEF OpenPage
  <1>2. cash \in Nat
    BY DEF IInv, Typed
  <1>3. rd \in Reading /\ rd.at = "opened" /\ rd.cash = cash
    <2>1. Idle \in Reading
      BY DEF Idle, Reading, Places
    <2>. QED
      BY <1>2, <2>1 DEF Reading, Places
  <1>. HIDE DEF rd
  <1>4. PageHolds(rd, ledger, cash)
    BY <1>2, <1>3 DEF PageHolds
  <1>. QED
    BY <1>1, <1>3, <1>4, ReaderStep

LEMMA SendPageStep ==
  ASSUME IInv, NEW r \in Readers, SendPage(r)
  PROVE  IInv'
  <1>1. Known /\ UNCHANGED snaps /\ reader' = [reader EXCEPT ![r] = Idle]
    BY DEF SendPage
  <1>2. Idle \in Reading /\ Idle.at = "idle"
    BY DEF Idle, Reading, Places
  <1>3. PageHolds(Idle, ledger, cash)
    BY <1>2 DEF PageHolds
  <1>. QED
    BY <1>1, <1>2, <1>3, ReaderStep

LEMMA ValuePageStep ==
  ASSUME IInv, NEW r \in Readers, ValuePage(r)
  PROVE  IInv'
  <1>. DEFINE v == Value(reader[r].cash, qty, market)
              b == OneSession(Held(qty), market)
              rd == [reader[r] EXCEPT !.at = "valued", !.gain = gain, !.value = v, !.fresh = b]
  <1>1. /\ reader[r] \in Reading /\ reader[r].at = "opened" /\ reader[r].cash \in Nat
        /\ cash \in Nat /\ qty \in Shares /\ market \in Board /\ gain \in Int
        /\ reader \in [Readers -> Reading]
    BY DEF ValuePage, IInv, Typed, Reading
  <1>2. v = reader[r].cash + Stocks(qty, market) /\ v \in Int /\ Stocks(qty, market) \in Nat
    <2>1. Stocks(qty, market) \in Nat
      BY <1>1, StocksFacts
    <2>2. PICK c \in Nat : c = reader[r].cash
      BY <1>1
    <2>3. Value(c, qty, market) = c + Stocks(qty, market)
      BY <1>1, <2>2, ValueTyped
    <2>. QED
      BY <2>1, <2>2, <2>3
  <1>3. b \in BOOLEAN
    BY DEF OneSession
  <1>4. Known /\ UNCHANGED snaps /\ reader' = [reader EXCEPT ![r] = rd]
    <2>1. reader' = [reader EXCEPT ![r].at = "valued", ![r].gain = gain, ![r].value = v, ![r].fresh = b]
      BY DEF ValuePage
    <2>2. Known /\ UNCHANGED snaps
      BY DEF ValuePage
    <2>. HIDE DEF v, b
    <2>. QED
      BY <1>1, <2>1, <2>2
  <1>. HIDE DEF v, b
  <1>5. rd \in Reading /\ rd.at = "valued" /\ rd.cash = reader[r].cash /\ rd.value = v /\ rd.gain = gain
    BY <1>1, <1>2, <1>3 DEF Reading, Places
  <1>. HIDE DEF rd
  <1>6. QuietPages => cash <= reader[r].cash
    BY <1>1 DEF IInv, PagesOK, PageHolds
  <1>7. ASSUME rd.cash = cash, Type(ledger, "deposit") # {}, StartOf(ledger) # None
        PROVE  rd.value = StartOf(ledger).content.cash + Opening(StartOf(ledger).content)
                            + Amount(ledger, PaidOf(ledger)) + rd.gain
    <2>1. /\ cash = StartOf(ledger).content.cash + Amount(ledger, PaidOf(ledger)) - Amount(ledger, SpentOf(ledger))
          /\ gain = Stocks(qty, market) - Opening(StartOf(ledger).content) - Amount(ledger, SpentOf(ledger))
      BY <1>7 DEF IInv, Explained, Explains
    <2>2. ledger \in Seq(Rows)
      BY DEF IInv, Typed
    <2>3. /\ StartOf(ledger).content \in Contents
          /\ Amount(ledger, PaidOf(ledger)) \in Int /\ Amount(ledger, SpentOf(ledger)) \in Int
      BY <1>7, <2>2, SumsTyped
    <2>4. Opening(StartOf(ledger).content) \in Nat /\ StartOf(ledger).content.cash \in Nat
      BY <2>3, OpeningTyped DEF Contents
    <2>. QED
      BY <1>1, <1>2, <1>5, <1>7, <2>1, <2>3, <2>4
  <1>8. PageHolds(rd, ledger, cash)
    BY <1>5, <1>6, <1>7 DEF PageHolds
  <1>. QED
    BY <1>4, <1>5, <1>8, ReaderStep

LEMMA ReadDepositsStep ==
  ASSUME IInv, NEW r \in Readers, ReadDeposits(r)
  PROVE  IInv'
  <1>. DEFINE n == Len(ledger)
              rd == [reader[r] EXCEPT !.at = "deposits", !.deposits = n]
  <1>1. /\ reader[r] \in Reading /\ reader[r].at = "valued"
        /\ reader \in [Readers -> Reading] /\ n \in Nat
    BY DEF ReadDeposits, IInv, Typed
  <1>2. Known /\ UNCHANGED snaps /\ reader' = [reader EXCEPT ![r] = rd]
    BY <1>1 DEF ReadDeposits
  <1>3. /\ rd \in Reading /\ rd.at = "deposits" /\ rd.cash = reader[r].cash
        /\ rd.value = reader[r].value /\ rd.gain = reader[r].gain /\ rd.deposits = n
    BY <1>1 DEF Reading, Places
  <1>4. PageHolds(reader[r], ledger, cash)
    BY DEF IInv, PagesOK
  <1>5. n <= Len(ledger) /\ Upto(ledger, "deposit", n) = Type(ledger, "deposit")
    BY <1>1 DEF Type
  <1>. HIDE DEF rd, n
  <1>6. PageHolds(rd, ledger, cash)
    BY <1>1, <1>3, <1>4, <1>5 DEF PageHolds
  <1>. QED
    BY <1>2, <1>3, <1>6, ReaderStep

LEMMA ReadBaselineStep ==
  ASSUME IInv, NEW r \in Readers, ReadBaseline(r)
  PROVE  IInv'
  <1>. DEFINE n == Len(ledger)
              rd == [reader[r] EXCEPT !.at = "baseline", !.baselines = n]
  <1>1. /\ reader[r] \in Reading /\ reader[r].at = "deposits"
        /\ reader \in [Readers -> Reading] /\ n \in Nat
    BY DEF ReadBaseline, IInv, Typed
  <1>2. Known /\ UNCHANGED snaps /\ reader' = [reader EXCEPT ![r] = rd]
    BY <1>1 DEF ReadBaseline
  <1>3. /\ rd \in Reading /\ rd.at = "baseline" /\ rd.cash = reader[r].cash
        /\ rd.value = reader[r].value /\ rd.gain = reader[r].gain
        /\ rd.deposits = reader[r].deposits /\ rd.baselines = n
    BY <1>1 DEF Reading, Places
  <1>4. PageHolds(reader[r], ledger, cash)
    BY DEF IInv, PagesOK
  <1>5. n <= Len(ledger) /\ Upto(ledger, "baseline", n) = Type(ledger, "baseline")
    BY <1>1 DEF Type
  <1>. HIDE DEF rd, n
  <1>6. PageHolds(rd, ledger, cash)
    BY <1>1, <1>3, <1>4, <1>5 DEF PageHolds
  <1>. QED
    BY <1>2, <1>3, <1>6, ReaderStep

LEMMA ReadPurchasesStep ==
  ASSUME IInv, NEW r \in Readers, ReadPurchases(r)
  PROVE  IInv'
  <1>. DEFINE n == Len(ledger)
              rd == [reader[r] EXCEPT !.at = "purchases", !.purchases = n]
  <1>1. /\ reader[r] \in Reading /\ reader[r].at = "baseline"
        /\ reader \in [Readers -> Reading] /\ n \in Nat
    BY DEF ReadPurchases, IInv, Typed
  <1>2. Known /\ UNCHANGED snaps /\ reader' = [reader EXCEPT ![r] = rd]
    BY <1>1 DEF ReadPurchases
  <1>3. /\ rd \in Reading /\ rd.at = "purchases" /\ rd.cash = reader[r].cash
        /\ rd.value = reader[r].value /\ rd.gain = reader[r].gain
        /\ rd.deposits = reader[r].deposits /\ rd.baselines = reader[r].baselines
        /\ rd.purchases = n
    BY <1>1 DEF Reading, Places
  <1>4. PageHolds(reader[r], ledger, cash)
    BY DEF IInv, PagesOK
  <1>5. n <= Len(ledger)
    BY <1>1
  <1>. HIDE DEF rd, n
  <1>6. PageHolds(rd, ledger, cash)
    BY <1>1, <1>3, <1>4, <1>5 DEF PageHolds
  <1>. QED
    BY <1>2, <1>3, <1>6, ReaderStep

LEMMA MoreSnaps ==
  ASSUME IInv, NEW s \in Snapshots, s.at \in 0..Len(ledger),
         DOMAIN s.content.market = Held(s.content.qty),
         snaps' = snaps \cup {s}, UNCHANGED ledger
  PROVE  SnapsOK' /\ RowsOK' /\ (snaps \in SUBSET Snapshots)'
  <1>1. SnapsOK'
    BY DEF IInv, SnapsOK
  <1>2. RowsOK'
    BY DEF IInv, RowsOK
  <1>3. (snaps \in SUBSET Snapshots)'
    BY DEF IInv, Typed
  <1>. QED
    BY <1>1, <1>2, <1>3

LEMMA TakeSnapshotStep ==
  ASSUME IInv, NEW r \in Readers, TakeSnapshot(r)
  PROVE  IInv'
  <1>1. UNCHANGED <<cash, qty, market, satellite, ledger, forms, txn, moves, gain>>
    BY DEF TakeSnapshot, Known
  <1>2. /\ Typed /\ SnapsOK /\ reader[r] \in Reading /\ reader[r].at = "loaded"
        /\ reader \in [Readers -> Reading] /\ cash \in Nat /\ qty \in Shares /\ market \in Board
    BY DEF TakeSnapshot, IInv, Typed
  <1>3. reader[r].cash \in Nat
    BY <1>2 DEF Reading
  <1>. DEFINE c == reader[r].cash
              s == Recorded(c, qty, market)
  <1>4. snaps' = snaps \cup {s} /\ reader' = [reader EXCEPT ![r] = Idle]
    BY DEF TakeSnapshot
  <1>5. /\ s \in Snapshots /\ s.content = Content(c, qty, market)
        /\ s.at \in 0..Len(ledger)
        /\ s \in snaps \/ s.at = Len(ledger)
        /\ DOMAIN s.content.market = Held(qty)
    BY <1>2, <1>3, RecordedFacts
  <1>6. s.content.cash = c /\ s.content.qty = qty
    BY <1>2, <1>3, <1>5, ContentTyped
  <1>7. Idle \in Reading /\ Idle.at = "idle"
    BY DEF Idle, Reading, Places
  <1>. HIDE DEF s
  <1>8. SnapsOK' /\ RowsOK' /\ (snaps \in SUBSET Snapshots)'
    BY <1>1, <1>4, <1>5, <1>6, MoreSnaps
  <1>9. reader' \in [Readers -> Reading] /\ reader'[r] = Idle
        /\ \A x \in Readers \ {r} : reader'[x] = reader[x]
    BY <1>2, <1>4, <1>7
  <1>10. Typed'
    BY <1>1, <1>8, <1>9 DEF IInv, Typed
  <1>11. FormsOK'
    BY <1>1, FormsKept
  <1>12. TxnOK'
    BY <1>1, TxnKept
  <1>13. BeforeDeposits'
    <2>1. Untracked(ledger, cash, snaps) /\ (Type(ledger, "deposit") = {} => cash <= s.content.cash)
      BY <1>2, <1>6 DEF IInv, BeforeDeposits
    <2>2. ledger \in Seq(Rows)
      BY <1>2 DEF Typed
    <2>3. Untracked(ledger, cash, snaps \cup {s})
      BY <1>2, <1>5, <2>1, <2>2, UntrackedSnapshot
    <2>4. ASSUME Type(ledger, "deposit") = {}, NEW x \in Readers, reader'[x].at = "loaded"
          PROVE  cash <= reader'[x].cash
      BY <1>7, <1>9, <2>4 DEF IInv, BeforeDeposits
    <2>. QED
      BY <1>1, <1>4, <2>3, <2>4 DEF BeforeDeposits
  <1>14. Explained'
    BY <1>1, ExplainedKept
  <1>15. PagesOK'
    <2>1. \A x \in Readers : PageHolds(reader'[x], ledger, cash)
      BY <1>7, <1>9 DEF IInv, PagesOK, PageHolds
    <2>. QED
      BY <1>1, <2>1 DEF PagesOK
  <1>. QED
    BY <1>8, <1>10, <1>11, <1>12, <1>13, <1>14, <1>15 DEF IInv

LEMMA ChangeHoldingStep ==
  ASSUME IInv, NEW l \in Listings, NEW n \in 0..MaxShares, ChangeHolding(l, n)
  PROVE  IInv'
  <1>. DEFINE q == [qty EXCEPT ![l] = n]
              t == [kind |-> "manual", qty |-> q, market |-> market, gain |-> 0]
  <1>1. /\ UNCHANGED <<cash, qty, market, ledger, snaps, moves, gain, satellite, forms, reader>>
        /\ txn' = t
    BY DEF ChangeHolding, Unread
  <1>2. q \in Shares /\ market \in Board
    <2>1. n \in Nat
      BY ConstantsAssumption
    <2>. QED
      BY <2>1 DEF IInv, Typed, Shares
  <1>. HIDE DEF q
  <1>3. t \in Manual
    BY <1>2 DEF Manual
  <1>4. Typed'
    BY <1>1, <1>3 DEF IInv, Typed
  <1>5. SnapsOK' /\ RowsOK'
    BY <1>1, SnapsKept
  <1>6. FormsOK'
    BY <1>1, FormsKept
  <1>7. TxnOK'
    <2>1. Stocks(q, market) \in Nat
      BY <1>2, StocksFacts
    <2>2. t.gain = Stocks(t.qty, market) - Stocks(t.qty, t.market)
      BY <2>1
    <2>3. t \notin Purchase
      BY DEF Purchase
    <2>. HIDE DEF t
    <2>. QED
      BY <1>1, <2>2, <2>3 DEF TxnOK
  <1>8. BeforeDeposits'
    BY <1>1, BeforeKept
  <1>9. Explained'
    BY <1>1, ExplainedKept
  <1>10. PagesOK'
    BY <1>1, PagesKept
  <1>. QED
    BY <1>4, <1>5, <1>6, <1>7, <1>8, <1>9, <1>10 DEF IInv

LEMMA RollBackStep ==
  ASSUME IInv, RollBack
  PROVE  IInv'
  <1>1. /\ UNCHANGED <<cash, qty, market, ledger, snaps, moves, gain, satellite, forms, reader>>
        /\ txn' = None
    BY DEF RollBack, Unread
  <1>2. Typed'
    BY <1>1 DEF IInv, Typed
  <1>3. SnapsOK' /\ RowsOK'
    BY <1>1, SnapsKept
  <1>4. FormsOK'
    BY <1>1, FormsKept
  <1>5. TxnOK'
    BY <1>1 DEF TxnOK
  <1>6. BeforeDeposits'
    BY <1>1, BeforeKept
  <1>7. Explained'
    BY <1>1, ExplainedKept
  <1>8. PagesOK'
    BY <1>1, PagesKept
  <1>. QED
    BY <1>2, <1>3, <1>4, <1>5, <1>6, <1>7, <1>8 DEF IInv

LEMMA BeginConfirmStep ==
  ASSUME IInv, NEW k \in Keys, BeginConfirm(k)
  PROVE  IInv'
  <1>. DEFINE t == [kind |-> "confirm", key |-> k, lock |-> LockedListings(Plan)]
  <1>1. /\ UNCHANGED <<cash, qty, market, ledger, snaps, moves, gain, satellite, forms, reader>>
        /\ txn' = t /\ forms[k] # None
    BY DEF BeginConfirm, Unread
  <1>2. Held(qty) \subseteq LockedListings(Plan) /\ LockedListings(Plan) \in SUBSET Listings
    <2>1. Buys(Plan) = Held(Plan.shares)
      BY PlanTyped DEF IInv, Typed
    <2>. QED
      BY <2>1 DEF LockedListings, Held
  <1>3. t \in Purchase
    BY <1>2 DEF Purchase
  <1>4. Typed'
    BY <1>1, <1>3 DEF IInv, Typed
  <1>5. SnapsOK' /\ RowsOK'
    BY <1>1, SnapsKept
  <1>6. FormsOK'
    BY <1>1, FormsKept
  <1>7. TxnOK'
    <2>1. t \notin Manual
      BY DEF Manual
    <2>2. t.key = k /\ t.kind # "buy" /\ t.lock = LockedListings(Plan)
      OBVIOUS
    <2>. HIDE DEF t
    <2>. QED
      BY <1>1, <1>2, <2>1, <2>2 DEF TxnOK
  <1>8. BeforeDeposits'
    BY <1>1, BeforeKept
  <1>9. Explained'
    BY <1>1, ExplainedKept
  <1>10. PagesOK'
    BY <1>1, PagesKept
  <1>. QED
    BY <1>4, <1>5, <1>6, <1>7, <1>8, <1>9, <1>10 DEF IInv

LEMMA ReplanStep ==
  ASSUME IInv, Replan
  PROVE  IInv'
  <1>. DEFINE t == [kind |-> "buy", key |-> txn.key, lock |-> txn.lock]
  <1>1. /\ UNCHANGED <<cash, qty, market, ledger, snaps, moves, gain, satellite, forms, reader>>
        /\ txn' = t /\ txn # None /\ txn.kind = "confirm" /\ Plan = forms[txn.key]
    BY DEF Replan, Unread, AsShown
  <1>2. txn \in Purchase \ {None}
    BY <1>1 DEF IInv, Typed, Manual
  <1>3. t \in Purchase /\ t.key = txn.key /\ t.lock = txn.lock
    BY <1>2 DEF Purchase
  <1>4. Plan.content = Content(cash, qty, market)
    BY PlanTyped DEF IInv, Typed
  <1>5. forms[txn.key] # None /\ Held(qty) \subseteq txn.lock
    BY <1>2 DEF IInv, TxnOK
  <1>6. t \notin Manual
    BY DEF Manual
  <1>. HIDE DEF t
  <1>7. Typed'
    BY <1>1, <1>3 DEF IInv, Typed
  <1>8. SnapsOK' /\ RowsOK'
    BY <1>1, SnapsKept
  <1>9. FormsOK'
    BY <1>1, FormsKept
  <1>10. TxnOK'
    BY <1>1, <1>3, <1>4, <1>5, <1>6 DEF TxnOK
  <1>11. BeforeDeposits'
    BY <1>1, BeforeKept
  <1>12. Explained'
    BY <1>1, ExplainedKept
  <1>13. PagesOK'
    BY <1>1, PagesKept
  <1>. QED
    BY <1>7, <1>8, <1>9, <1>10, <1>11, <1>12, <1>13 DEF IInv

LEMMA ShowPlanStep ==
  ASSUME IInv, NEW k \in Keys, ShowPlan(k)
  PROVE  IInv'
  <1>1. /\ UNCHANGED <<cash, qty, market, satellite, ledger, snaps, txn, reader, moves, gain>>
        /\ forms' = [forms EXCEPT ![k] = Plan] /\ forms[k] = None /\ Buys(Plan) # {}
    BY DEF ShowPlan
  <1>2. Plan \in Plans /\ Buys(Plan) = Held(Plan.shares)
    BY PlanTyped DEF IInv, Typed
  <1>3. /\ forms \in [Keys -> Plans \cup {None}] /\ forms' \in [Keys -> Plans \cup {None}]
        /\ forms'[k] = Plan /\ \A x \in Keys \ {k} : forms'[x] = forms[x]
    <2>1. forms \in [Keys -> Plans \cup {None}]
      BY DEF IInv, Typed
    <2>. QED
      BY <1>1, <1>2, <2>1
  <1>4. Typed'
    BY <1>1, <1>3 DEF IInv, Typed
  <1>5. SnapsOK' /\ RowsOK'
    BY <1>1, SnapsKept
  <1>6. FormsOK'
    BY <1>1, <1>2, <1>3 DEF IInv, FormsOK
  <1>7. TxnOK'
    <2>1. ASSUME txn \in Purchase \ {None}
          PROVE  txn.key \in Keys /\ txn.key # k /\ forms'[txn.key] = forms[txn.key]
      <3>1. txn.key \in Keys
        BY <2>1 DEF Purchase
      <3>2. forms[txn.key] # None
        BY <2>1 DEF IInv, TxnOK
      <3>. QED
        BY <1>1, <1>3, <3>1, <3>2
    <2>. QED
      BY <1>1, <2>1 DEF IInv, TxnOK
  <1>8. BeforeDeposits'
    BY <1>1, BeforeKept
  <1>9. Explained'
    BY <1>1, ExplainedKept
  <1>10. PagesOK'
    BY <1>1, PagesKept
  <1>. QED
    BY <1>4, <1>5, <1>6, <1>7, <1>8, <1>9, <1>10 DEF IInv

LEMMA ReplaceAnalysisStep ==
  ASSUME IInv, ReplaceAnalysis
  PROVE  IInv'
  <1>1. /\ UNCHANGED <<cash, qty, market, ledger, snaps, forms, txn, reader, gain>>
        /\ moves' = moves + 1 /\ moves < MaxMoves /\ satellite' \in Others \cup {None}
    BY DEF ReplaceAnalysis
  <1>2. moves' \in 0..MaxMoves
    BY <1>1, ConstantsAssumption DEF IInv, Typed
  <1>3. Typed'
    BY <1>1, <1>2 DEF IInv, Typed
  <1>4. SnapsOK' /\ RowsOK'
    BY <1>1, SnapsKept
  <1>5. FormsOK'
    BY <1>1, FormsKept
  <1>6. TxnOK'
    BY <1>1, TxnKept
  <1>7. BeforeDeposits'
    BY <1>1, BeforeKept
  <1>8. Explained'
    BY <1>1, ExplainedKept
  <1>9. PagesOK'
    BY <1>1, PagesKept
  <1>. QED
    BY <1>3, <1>4, <1>5, <1>6, <1>7, <1>8, <1>9 DEF IInv

LEMMA MoveMarketStep ==
  ASSUME IInv, NEW l \in Listings, NEW d \in 0..1, NEW c \in Closes,
         MoveMarket(l, market[l].session + d, c)
  PROVE  IInv'
  <1>. DEFINE p == [session |-> market[l].session + d, close |-> c, asset |-> moves']
              up == qty[l] * (c - market[l].close)
  <1>1. /\ UNCHANGED <<cash, qty, ledger, snaps, satellite, forms, reader>>
        /\ moves' = moves + 1 /\ moves < MaxMoves /\ l \notin Locked
        /\ market' = [market EXCEPT ![l] = p] /\ gain' = gain + up
        /\ txn' = IF txn # None /\ txn.kind = "manual"
                    THEN [txn EXCEPT !.gain = @ + txn.qty[l] * (c - market[l].close)] ELSE txn
    BY DEF MoveMarket, Unread
  <1>2. /\ cash \in Nat /\ qty \in Shares /\ market \in Board /\ gain \in Int
        /\ ledger \in Seq(Rows) /\ txn \in Manual \cup Purchase \cup {None}
    BY DEF IInv, Typed
  <1>3. moves' \in 0..MaxMoves
    BY <1>1, ConstantsAssumption DEF IInv, Typed
  <1>4. p \in Price /\ p.close = c
    <2>1. market[l].session \in Nat
      BY <1>2, PriceFacts DEF Price
    <2>2. market[l].session + d \in Nat
      BY <2>1
    <2>. QED
      BY <1>3, <2>2 DEF Price
  <1>5. c \in Nat /\ market[l].close \in Nat
    BY <1>2, <1>4, PriceTyped, PriceFacts
  <1>. HIDE DEF p
  <1>6. market' = Moved(market, l, p) /\ market' \in Board
    BY <1>1, <1>2, <1>4, StocksMove DEF Moved
  <1>7. up \in Int
    BY <1>2, <1>5 DEF Shares
  <1>8. txn' \in Manual \cup Purchase \cup {None}
    <2>1. CASE txn \in Manual \ {None}
      <3>1. txn.kind = "manual" /\ txn.qty[l] \in Nat /\ txn.gain \in Int
        BY <2>1 DEF Manual, Shares
      <3>2. txn.gain + txn.qty[l] * (c - market[l].close) \in Int
        BY <1>5, <3>1
      <3>3. txn' = [txn EXCEPT !.gain = txn.gain + txn.qty[l] * (c - market[l].close)]
        BY <1>1, <2>1, <3>1
      <3>. QED
        BY <2>1, <3>2, <3>3 DEF Manual
    <2>2. CASE txn \notin Manual \ {None}
      <3>1. txn' = txn
        BY <1>1, <1>2, <2>2 DEF Purchase
      <3>. QED
        BY <1>2, <3>1
    <2>. QED
      BY <2>1, <2>2
  <1>9. Typed'
    BY <1>1, <1>3, <1>6, <1>7, <1>8 DEF IInv, Typed
  <1>10. SnapsOK' /\ RowsOK'
    BY <1>1, SnapsKept
  <1>11. FormsOK'
    BY <1>1, FormsKept
  <1>12. TxnOK'
    <2>1. CASE txn \in Manual \ {None}
      <3>1. /\ txn.kind = "manual" /\ txn.qty \in Shares /\ txn.gain \in Int /\ txn.market \in Board
            /\ txn.gain = Stocks(txn.qty, market) - Stocks(txn.qty, txn.market)
        BY <2>1 DEF IInv, TxnOK, Manual
      <3>. DEFINE move == txn.qty[l] * (c - market[l].close)
      <3>2. txn' = [txn EXCEPT !.gain = txn.gain + move]
        BY <1>1, <2>1, <3>1
      <3>3. txn'.qty = txn.qty /\ txn'.market = txn.market /\ txn'.gain = txn.gain + move
            /\ txn'.kind = "manual"
        BY <2>1, <3>2 DEF Manual
      <3>4. PICK q \in Shares : q = txn.qty
        BY <3>1
      <3>5. Stocks(q, Moved(market, l, p)) = Stocks(q, market) + q[l] * (p.close - market[l].close)
        BY <1>2, <1>4, StocksMove
      <3>6. Stocks(txn.qty, market) \in Nat /\ Stocks(txn.qty, txn.market) \in Nat
        <4>1. PICK m0 \in Board : m0 = txn.market
          BY <3>1
        <4>2. Stocks(q, market) \in Nat
          BY <1>2, StocksFacts
        <4>3. Stocks(q, m0) \in Nat
          BY StocksFacts
        <4>. QED
          BY <3>4, <4>1, <4>2, <4>3
      <3>7. move \in Int
        <4>1. txn.qty[l] \in Nat
          BY <3>1 DEF Shares
        <4>. QED
          BY <1>5, <4>1
      <3>8. Stocks(txn.qty, market') = Stocks(txn.qty, market) + move
        BY <1>4, <1>6, <3>4, <3>5
      <3>. HIDE DEF move
      <3>9. txn'.gain = Stocks(txn'.qty, market') - Stocks(txn'.qty, txn'.market)
        BY <3>1, <3>3, <3>6, <3>7, <3>8
      <3>10. txn' \notin Purchase
        BY <3>3 DEF Purchase
      <3>. QED
        BY <3>9, <3>10 DEF TxnOK
    <2>2. CASE txn \in Purchase \ {None}
      <3>1. txn' = txn /\ txn' \notin Manual
        BY <1>1, <2>2 DEF Manual, Purchase
      <3>2. /\ forms[txn.key] # None /\ Held(qty) \subseteq txn.lock
            /\ txn.kind = "buy" => forms[txn.key].content = Content(cash, qty, market)
        BY <2>2 DEF IInv, TxnOK
      <3>3. ASSUME txn.kind = "buy"
            PROVE  Content(cash, qty, market') = Content(cash, qty, market)
        <4>1. l \notin Held(qty)
          BY <1>1, <2>2, <3>2, <3>3 DEF Locked
        <4>2. \A x \in Held(qty) : market'[x] = market[x]
          BY <1>1, <1>2, <4>1 DEF Held, Board
        <4>3. [x \in Held(qty) |-> market'[x]] = [x \in Held(qty) |-> market[x]]
          BY <4>2
        <4>. QED
          BY <4>3 DEF Content
      <3>. QED
        BY <1>1, <3>1, <3>2, <3>3 DEF TxnOK
    <2>3. CASE txn = None
      BY <1>1, <2>3 DEF TxnOK
    <2>. QED
      BY <1>2, <2>1, <2>2, <2>3
  <1>13. BeforeDeposits'
    BY <1>1, BeforeKept
  <1>14. Explained'
    <2>1. Explains(ledger, cash, qty, market, gain)
      BY DEF IInv, Explained
    <2>2. Explains(ledger, cash, qty, Moved(market, l, p), gain + qty[l] * (p.close - market[l].close))
      BY <1>2, <1>4, <2>1, ExplainsMove
    <2>. QED
      BY <1>1, <1>4, <1>6, <2>2 DEF Explained
  <1>15. PagesOK'
    BY <1>1, PagesKept
  <1>. QED
    BY <1>9, <1>10, <1>11, <1>12, <1>13, <1>14, <1>15 DEF IInv

LEMMA MoreRows ==
  ASSUME IInv, NEW e \in Rows, NEW ss \in SUBSET Snapshots, snaps \subseteq ss,
         \A s \in ss : s \in snaps \/ (s.at \in 0..Len(ledger) /\ DOMAIN s.content.market = Held(s.content.qty)),
         snaps' = ss, Longer(ledger, e, ledger'),
         e.type = "deposit" => e.snap \in ss \cup {None},
         e.type = "baseline" => e.snap \in ss,
         e.type = "execution" => e.amount > 0 /\ Held(e.shares) # {}
  PROVE  SnapsOK' /\ RowsOK'
  <1>1. ledger \in Seq(Rows)
    BY DEF IInv, Typed
  <1>2. Len(ledger) \in Nat /\ Len(ledger') = Len(ledger) + 1 /\ ledger'[Len(ledger) + 1] = e
        /\ \A i \in 1..Len(ledger) : ledger'[i] = ledger[i]
    BY <1>1, Grown
  <1>3. SnapsOK'
    <2>1. ASSUME NEW s \in ss
          PROVE  s.at \in 0..Len(ledger') /\ DOMAIN s.content.market = Held(s.content.qty)
      <3>1. s.at \in 0..Len(ledger) /\ DOMAIN s.content.market = Held(s.content.qty)
        BY <2>1 DEF IInv, SnapsOK
      <3>. QED
        BY <1>2, <3>1
    <2>. QED
      BY <2>1 DEF SnapsOK, Held
  <1>4. RowsOK'
    <2>1. ASSUME NEW i \in 1..Len(ledger')
          PROVE  /\ ledger'[i].type = "deposit" => ledger'[i].snap \in ss \cup {None}
                 /\ ledger'[i].type = "baseline" => ledger'[i].snap \in ss
                 /\ ledger'[i].type = "execution" => ledger'[i].amount > 0 /\ Held(ledger'[i].shares) # {}
      <3>1. CASE i = Len(ledger) + 1
        BY <1>2, <3>1
      <3>2. CASE i # Len(ledger) + 1
        <4>1. i \in 1..Len(ledger) /\ ledger'[i] = ledger[i]
          BY <1>2, <3>2
        <4>2. /\ ledger[i].type = "deposit" => ledger[i].snap \in snaps \cup {None}
              /\ ledger[i].type = "baseline" => ledger[i].snap \in snaps
              /\ ledger[i].type = "execution" => ledger[i].amount > 0 /\ Held(ledger[i].shares) # {}
          BY <4>1 DEF IInv, RowsOK
        <4>. QED
          BY <4>1, <4>2
      <3>. QED
        BY <3>1, <3>2
    <2>. QED
      BY <2>1 DEF RowsOK, Held
  <1>. QED
    BY <1>3, <1>4

\* An open purchase, its plan and the row it will write.
LEMMA PurchaseFacts ==
  ASSUME IInv, Execute, NEW plan, plan = forms[txn.key]
  PROVE  /\ txn \in Purchase \ {None} /\ txn.key \in Keys
         /\ plan \in Plans /\ Held(plan.shares) # {}
         /\ Cost(plan) \in Nat /\ Cost(plan) > 0 /\ Cost(plan) <= cash
         /\ Cost(plan) = Stocks(plan.shares, market)
  <1>1. /\ txn # None /\ txn.kind = "buy"
        /\ \A l \in Buys(plan) : market[l] = plan.prices[l]
        /\ Cost(plan) <= cash
    BY DEF Execute, PricesStand
  <1>2. txn \in Purchase \ {None}
    BY <1>1 DEF IInv, Typed, Manual
  <1>3. txn.key \in Keys
    BY <1>2 DEF Purchase
  <1>4. plan # None
    BY <1>2 DEF IInv, TxnOK
  <1>5. plan \in Plans /\ Buys(plan) = Held(plan.shares) /\ Held(plan.shares) # {}
    BY <1>3, <1>4 DEF IInv, Typed, FormsOK
  <1>6. market \in Board
    BY DEF IInv, Typed
  <1>7. PICK p \in Plans : p = plan
    BY <1>5
  <1>8. PICK m \in Board : m = market
    BY <1>6
  <1>9. Buys(p) = Held(p.shares) /\ (\A l \in Buys(p) : m[l] = p.prices[l]) /\ Held(p.shares) # {}
    BY <1>1, <1>5, <1>7, <1>8
  <1>10. Cost(p) = Stocks(p.shares, m) /\ Cost(p) \in Nat /\ Cost(p) > 0
    BY <1>9, CostIsStocks
  <1>. QED
    BY <1>1, <1>2, <1>3, <1>5, <1>7, <1>8, <1>10

LEMMA ExecuteStep ==
  ASSUME IInv, Execute
  PROVE  IInv'
  <1>. DEFINE plan == forms[txn.key]
              n == Cost(plan)
              e == [type |-> "execution", key |-> txn.key, amount |-> n, shares |-> plan.shares]
  <1>1. /\ txn \in Purchase \ {None} /\ txn.key \in Keys
        /\ plan \in Plans /\ Held(plan.shares) # {}
        /\ n \in Nat /\ n > 0 /\ n <= cash
        /\ n = Stocks(plan.shares, market)
    BY PurchaseFacts
  <1>2. /\ UNCHANGED <<market, satellite, snaps, reader, moves, gain>>
        /\ Len(ledger) < MaxEvents /\ cash' = cash - n
        /\ qty' = Together(qty, plan.shares) /\ txn' = None
        /\ forms' = [forms EXCEPT ![txn.key] = None]
    BY DEF Execute, Room, Together
  <1>3. Longer(ledger, e, ledger')
    BY DEF Execute, Longer
  <1>4. plan.shares \in Shares
    BY <1>1 DEF Plans
  <1>5. e \in Executions /\ e.amount = n /\ e.shares = plan.shares /\ e.type = "execution"
    BY <1>1, <1>4 DEF Executions
  <1>. HIDE DEF e, n, plan
  <1>6. e \in Rows
    BY <1>5 DEF Rows
  <1>7. /\ cash \in Nat /\ qty \in Shares /\ market \in Board /\ gain \in Int
        /\ ledger \in Seq(Rows) /\ snaps \in SUBSET Snapshots
        /\ Typed /\ SnapsOK /\ RowsOK
        /\ forms \in [Keys -> Plans \cup {None}] /\ reader \in [Readers -> Reading]
    BY DEF IInv, Typed
  <1>8. ledger' \in Seq(Rows) /\ Len(ledger) \in Nat /\ Len(ledger') = Len(ledger) + 1
    BY <1>3, <1>6, <1>7, Grown
  <1>9. Len(ledger') <= MaxEvents
    BY <1>2, <1>8, ConstantsAssumption
  <1>10. cash' \in Nat /\ cash' = cash - e.amount /\ cash' <= cash
    BY <1>1, <1>2, <1>5, <1>7
  <1>11. qty' \in Shares
    <2>1. \A l \in Listings : qty[l] \in Nat /\ plan.shares[l] \in Nat
      BY <1>4, <1>7 DEF Shares
    <2>. QED
      BY <1>2, <2>1 DEF Together, Shares
  <1>12. forms' \in [Keys -> Plans \cup {None}]
    BY <1>2, <1>7
  <1>13. Typed'
    BY <1>2, <1>7, <1>8, <1>9, <1>10, <1>11, <1>12 DEF IInv, Typed
  <1>14. SnapsOK' /\ RowsOK'
    <2>1. e.type # "deposit" /\ e.type # "baseline"
      BY <1>5
    <2>2. e.amount > 0 /\ Held(e.shares) # {}
      BY <1>1, <1>5
    <2>3. snaps' = snaps /\ snaps \subseteq snaps
      BY <1>2
    <2>. QED
      BY <1>3, <1>6, <1>7, <2>1, <2>2, <2>3, MoreRows
  <1>15. FormsOK'
    BY <1>2, <1>7 DEF IInv, FormsOK, Buys, Held
  <1>16. TxnOK'
    BY <1>2 DEF TxnOK
  <1>17. BeforeDeposits'
    <2>1. Untracked(ledger, cash, snaps) /\ \A s \in snaps : s.at \in 0..Len(ledger)
      BY DEF IInv, BeforeDeposits, SnapsOK
    <2>2. Untracked(ledger', cash - e.amount, snaps)
      BY <1>3, <1>5, <1>6, <1>7, <2>1, UntrackedExecution
    <2>3. Type(ledger', "deposit") = Type(ledger, "deposit")
      <3>1. e.type # "deposit"
        BY <1>5
      <3>. QED
        BY <1>3, <1>6, <1>7, <3>1, GrownTypes
    <2>4. ASSUME Type(ledger, "deposit") = {}, NEW x \in Readers, reader[x].at = "loaded"
          PROVE  cash' <= reader[x].cash
      <3>1. cash <= reader[x].cash
        BY <2>4 DEF IInv, BeforeDeposits
      <3>2. reader[x].cash \in Nat
        BY <1>7 DEF Reading
      <3>. QED
        BY <1>7, <1>10, <3>1, <3>2
    <2>. QED
      BY <1>2, <1>10, <2>2, <2>3, <2>4 DEF BeforeDeposits
  <1>18. Explained'
    <2>1. Explains(ledger, cash, qty, market, gain)
      BY DEF IInv, Explained
    <2>2. Type(ledger, "deposit") # {} /\ StartOf(ledger) # None => SinceOf(ledger) \in 0..Len(ledger)
      BY <1>7, SinceBound
    <2>3. e.amount = Stocks(e.shares, market)
      BY <1>1, <1>5
    <2>4. Explains(ledger', cash - e.amount, Together(qty, e.shares), market, gain)
      BY <1>3, <1>5, <1>6, <1>7, <2>1, <2>2, <2>3, ExplainsExecution
    <2>. QED
      BY <1>2, <1>5, <1>10, <2>4 DEF Explained
  <1>19. PagesOK'
    <2>1. ASSUME NEW x \in Readers
          PROVE  PageHolds(reader[x], ledger', cash - e.amount)
      <3>1. reader[x] \in Reading /\ PageHolds(reader[x], ledger, cash)
        BY <1>7 DEF IInv, PagesOK
      <3>2. e.amount > 0
        BY <1>1, <1>5
      <3>. QED
        BY <1>3, <1>5, <1>6, <1>7, <3>1, <3>2, PageExecution
    <2>. QED
      BY <1>2, <1>10, <2>1 DEF PagesOK
  <1>. QED
    BY <1>13, <1>14, <1>15, <1>16, <1>17, <1>18, <1>19 DEF IInv

\* Nothing is promised of a page while one is read and pages do not wait.
LEMMA QuietPagesHold ==
  ASSUME Quiet, UNCHANGED reader
  PROVE  PagesOK'
  <1>. SUFFICES ASSUME QuietPages, NEW r \in Readers, reader[r].at \notin {"idle", "loaded"}
                PROVE  FALSE
    BY DEF PagesOK, PageHolds
  <1>. QED
    BY DEF Quiet, Pages

LEMMA DepositStep ==
  ASSUME IInv, NEW k \in Keys, NEW a \in Amounts, Deposit(k, a)
  PROVE  IInv'
  <1>. DEFINE eligible == OneSession(Held(qty), market)
              s == Recorded(cash, qty, market)
              sn == IF eligible THEN s ELSE None
              e == [type |-> "deposit", key |-> k, amount |-> a, snap |-> sn]
              ss == IF eligible THEN snaps \cup {s} ELSE snaps
  <1>1. /\ UNCHANGED <<qty, market, txn, moves, satellite, forms, reader>>
        /\ txn = None /\ Quiet /\ Len(ledger) < MaxEvents
        /\ cash' = cash + a /\ gain' = (IF HasDeposits THEN gain ELSE 0)
    BY DEF Deposit, Room, Unread
  <1>2. snaps' = ss /\ Longer(ledger, e, ledger')
    BY DEF Deposit, Longer
  <1>3. /\ cash \in Nat /\ qty \in Shares /\ market \in Board /\ gain \in Int
        /\ ledger \in Seq(Rows) /\ snaps \in SUBSET Snapshots
        /\ Typed /\ SnapsOK /\ RowsOK
    BY DEF IInv, Typed
  <1>4. /\ s \in Snapshots /\ s.content = Content(cash, qty, market)
        /\ s.at \in 0..Len(ledger)
        /\ s \in snaps \/ s.at = Len(ledger)
        /\ DOMAIN s.content.market = Held(qty)
    BY <1>3, RecordedFacts
  <1>5. s.content.cash = cash /\ s.content.qty = qty
    BY <1>3, <1>4, ContentTyped
  <1>. HIDE DEF s
  <1>6. /\ sn \in Snapshots \cup {None} /\ ss \in SUBSET Snapshots /\ snaps \subseteq ss
        /\ sn \in ss \cup {None} /\ (sn # None => sn = s)
        /\ \A x \in ss : x \in snaps \/ x = s
    BY <1>3, <1>4
  <1>7. e \in Deposits /\ e.amount = a /\ e.snap = sn /\ e.type = "deposit"
    BY <1>6 DEF Deposits
  <1>. HIDE DEF e, sn, ss, eligible
  <1>8. e \in Rows
    BY <1>7 DEF Rows
  <1>9. ledger' \in Seq(Rows) /\ Len(ledger) \in Nat /\ Len(ledger') = Len(ledger) + 1
    BY <1>2, <1>3, <1>8, Grown
  <1>10. Len(ledger') <= MaxEvents
    BY <1>1, <1>9, ConstantsAssumption
  <1>11. a \in Nat /\ cash' \in Nat /\ cash' = cash + e.amount
    <2>1. a \in Nat
      BY ConstantsAssumption
    <2>. QED
      BY <1>1, <1>3, <1>7, <2>1
  <1>12. gain' \in Int
    BY <1>1, <1>3
  <1>13. Typed'
    BY <1>1, <1>2, <1>3, <1>6, <1>9, <1>10, <1>11, <1>12 DEF IInv, Typed
  <1>14. SnapsOK' /\ RowsOK'
    <2>1. e.type # "baseline" /\ e.type # "execution" /\ e.snap \in ss \cup {None}
      BY <1>6, <1>7
    <2>2. \A x \in ss : x \in snaps \/ (x.at \in 0..Len(ledger) /\ DOMAIN x.content.market = Held(x.content.qty))
      BY <1>4, <1>5, <1>6
    <2>. QED
      BY <1>2, <1>6, <1>8, <2>1, <2>2, MoreRows
  <1>15. FormsOK'
    BY <1>1, FormsKept
  <1>16. TxnOK'
    BY <1>1 DEF TxnOK
  <1>17. Type(ledger', "deposit") # {}
    <2>1. e.type = "deposit"
      BY <1>7
    <2>2. Type(ledger', "deposit") = Type(ledger, "deposit") \cup {Len(ledger) + 1}
      BY <1>2, <1>3, <1>8, <2>1, GrownTypes
    <2>. QED
      BY <2>2
  <1>18. BeforeDeposits'
    BY <1>17 DEF BeforeDeposits, Untracked
  <1>19. Explained'
    <2>0. HasDeposits <=> Type(ledger, "deposit") # {}
      BY Bridge DEF HasDeposits
    <2>1. CASE Type(ledger, "deposit") # {}
      <3>1. Explains(ledger, cash, qty, market, gain)
        BY DEF IInv, Explained
      <3>2. StartOf(ledger) # None => SinceOf(ledger) \in 0..Len(ledger)
        BY <1>3, <2>1, SinceBound
      <3>3. Explains(ledger', cash + e.amount, qty, market, gain)
        BY <1>2, <1>3, <1>7, <1>8, <2>1, <3>1, <3>2, ExplainsDeposit
      <3>4. gain' = gain
        BY <1>1, <2>0, <2>1
      <3>. QED
        BY <1>1, <1>11, <3>3, <3>4 DEF Explained
    <2>2. CASE Type(ledger, "deposit") = {}
      <3>1. Untracked(ledger, cash, snaps)
        BY DEF IInv, BeforeDeposits
      <3>2. Type(ledger, "baseline") = {}
        BY <2>2, <3>1 DEF Untracked
      <3>3. After(ledger, "execution", s.at) = {}
        <4>1. CASE s \in snaps
          <5>1. \A i \in 1..Len(ledger) : ledger[i].type = "execution" => ledger[i].amount > 0
            BY <1>3 DEF RowsOK
          <5>. QED
            BY <1>3, <1>5, <2>2, <3>1, <4>1, <5>1, UntrackedQuiet
        <4>2. CASE s.at = Len(ledger)
          BY <4>2 DEF After, Type, Upto
        <4>. QED
          BY <1>4, <4>1, <4>2
      <3>4. e.snap # None => /\ e.snap.content = Content(cash, qty, market)
                             /\ After(ledger, "execution", e.snap.at) = {} /\ e.snap.at \in 0..Len(ledger)
        BY <1>4, <1>6, <1>7, <3>3
      <3>5. Explains(ledger', cash + e.amount, qty, market, 0)
        BY <1>2, <1>3, <1>7, <1>8, <2>2, <3>2, <3>4, ExplainsFirst
      <3>6. gain' = 0
        BY <1>1, <2>0, <2>2
      <3>. QED
        BY <1>1, <1>11, <3>5, <3>6 DEF Explained
    <2>. QED
      BY <2>1, <2>2
  <1>20. PagesOK'
    BY <1>1, QuietPagesHold
  <1>. QED
    BY <1>13, <1>14, <1>15, <1>16, <1>18, <1>19, <1>20 DEF IInv

LEMMA CommitHoldingStep ==
  ASSUME IInv, CommitHolding
  PROVE  IInv'
  <1>. DEFINE s == Recorded(cash, txn.qty, txn.market)
              e == [type |-> "baseline", snap |-> s]
  <1>1. /\ UNCHANGED <<cash, market, moves, satellite, forms, reader>>
        /\ txn # None /\ txn.kind = "manual" /\ Quiet /\ Len(ledger) < MaxEvents
        /\ qty' = txn.qty /\ gain' = txn.gain /\ txn' = None
    BY DEF CommitHolding, Room, Unread
  <1>2. /\ snaps' = (IF HasDeposits THEN snaps \cup {s} ELSE snaps)
        /\ HasDeposits => Longer(ledger, e, ledger')
        /\ ~HasDeposits => ledger' = ledger
    BY DEF CommitHolding, Baseline, Longer
  <1>3. txn \in Manual \ {None}
    BY <1>1 DEF IInv, Typed, Purchase
  <1>4. /\ txn.qty \in Shares /\ txn.market \in Board /\ txn.gain \in Int
        /\ txn.gain = Stocks(txn.qty, market) - Stocks(txn.qty, txn.market)
    BY <1>3 DEF IInv, TxnOK, Manual
  <1>5. /\ cash \in Nat /\ qty \in Shares /\ market \in Board
        /\ ledger \in Seq(Rows) /\ snaps \in SUBSET Snapshots
        /\ Typed /\ SnapsOK /\ RowsOK /\ Len(ledger) \in Nat
    BY DEF IInv, Typed
  <1>6. HasDeposits <=> Type(ledger, "deposit") # {}
    BY Bridge DEF HasDeposits
  <1>7. PICK q \in Shares : q = txn.qty
    BY <1>4
  <1>8. PICK m0 \in Board : m0 = txn.market
    BY <1>4
  <1>9. /\ s \in Snapshots /\ s.content = Content(cash, q, m0)
        /\ s.at \in 0..Len(ledger)
        /\ DOMAIN s.content.market = Held(q)
    BY <1>5, <1>7, <1>8, RecordedFacts
  <1>10. s.content.cash = cash /\ s.content.qty = q
    BY <1>5, <1>9, ContentTyped
  <1>. HIDE DEF s
  <1>11. e \in Baselines /\ e.snap = s /\ e.type = "baseline"
    BY <1>9 DEF Baselines
  <1>. HIDE DEF e
  <1>12. e \in Rows
    BY <1>11 DEF Rows
  <1>13. /\ ledger' \in Seq(Rows) /\ Len(ledger') <= MaxEvents
         /\ snaps' \in SUBSET Snapshots /\ SnapsOK' /\ RowsOK'
    <2>1. CASE HasDeposits
      <3>1. Longer(ledger, e, ledger') /\ snaps' = snaps \cup {s}
        BY <1>2, <2>1
      <3>2. ledger' \in Seq(Rows) /\ Len(ledger') = Len(ledger) + 1
        BY <1>5, <1>12, <3>1, Grown
      <3>3. Len(ledger') <= MaxEvents
        BY <1>1, <1>5, <3>2, ConstantsAssumption
      <3>. DEFINE ss == snaps \cup {s}
      <3>4. ss \in SUBSET Snapshots /\ snaps \subseteq ss /\ snaps' = ss /\ s \in ss
        BY <1>5, <1>9, <3>1
      <3>5. \A x \in ss : x \in snaps \/ (x.at \in 0..Len(ledger) /\ DOMAIN x.content.market = Held(x.content.qty))
        BY <1>9, <1>10
      <3>. HIDE DEF ss
      <3>6. e.type # "deposit" /\ e.type # "execution" /\ e.snap \in ss
        BY <1>11, <3>4
      <3>7. SnapsOK' /\ RowsOK'
        BY <1>12, <3>1, <3>4, <3>5, <3>6, MoreRows
      <3>. QED
        BY <3>2, <3>3, <3>4, <3>7
    <2>2. CASE ~HasDeposits
      <3>1. ledger' = ledger /\ snaps' = snaps
        BY <1>2, <2>2
      <3>2. SnapsOK' /\ RowsOK'
        BY <3>1, SnapsKept
      <3>. QED
        BY <1>5, <3>1, <3>2 DEF Typed
    <2>. QED
      BY <2>1, <2>2
  <1>14. Typed'
    BY <1>1, <1>4, <1>13 DEF IInv, Typed
  <1>15. FormsOK'
    BY <1>1, FormsKept
  <1>16. TxnOK'
    BY <1>1 DEF TxnOK
  <1>17. ASSUME HasDeposits
         PROVE  /\ Type(ledger', "deposit") # {}
                /\ Explains(ledger', cash, q, market, Stocks(q, market) - Stocks(q, m0))
    <2>1. Longer(ledger, e, ledger')
      BY <1>2, <1>17
    <2>2. e.snap.content = Content(cash, q, m0)
      BY <1>9, <1>11
    <2>3. Explains(ledger', cash, q, market, Stocks(q, market) - Stocks(q, m0))
      BY <1>5, <1>11, <1>12, <2>1, <2>2, ExplainsBaseline
    <2>4. e.type # "deposit"
      BY <1>11
    <2>5. Type(ledger', "deposit") = Type(ledger, "deposit")
      BY <1>5, <1>12, <2>1, <2>4, GrownTypes
    <2>. QED
      BY <1>6, <1>17, <2>3, <2>5
  <1>18. BeforeDeposits'
    <2>1. CASE HasDeposits
      BY <1>17, <2>1 DEF BeforeDeposits, Untracked
    <2>2. CASE ~HasDeposits
      <3>1. ledger' = ledger /\ snaps' = snaps
        BY <1>2, <2>2
      <3>. QED
        BY <1>1, <3>1, BeforeKept
    <2>. QED
      BY <2>1, <2>2
  <1>19. Explained'
    <2>1. CASE HasDeposits
      <3>1. gain' = Stocks(q, market) - Stocks(q, m0) /\ qty' = q
        BY <1>1, <1>4, <1>7, <1>8
      <3>. QED
        BY <1>1, <1>17, <2>1, <3>1 DEF Explained
    <2>2. CASE ~HasDeposits
      <3>1. ledger' = ledger
        BY <1>2, <2>2
      <3>. QED
        BY <1>6, <2>2, <3>1 DEF Explained, Explains
    <2>. QED
      BY <2>1, <2>2
  <1>20. PagesOK'
    BY <1>1, QuietPagesHold
  <1>. QED
    BY <1>13, <1>14, <1>15, <1>16, <1>18, <1>19, <1>20 DEF IInv

-----------------------------------------------------------------------------
(* The theorems *)

LEMMA NextStep == IInv /\ [Next]_vars => IInv'
  <1>. SUFFICES ASSUME IInv, [Next]_vars
                PROVE  IInv'
    OBVIOUS
  <1>1. ASSUME NEW l \in Listings, NEW n \in 0..MaxShares, ChangeHolding(l, n)
        PROVE  IInv'
    BY <1>1, ChangeHoldingStep
  <1>2. CASE CommitHolding
    BY <1>2, CommitHoldingStep
  <1>3. ASSUME NEW k \in Keys, NEW a \in Amounts, Deposit(k, a)
        PROVE  IInv'
    BY <1>3, DepositStep
  <1>4. ASSUME NEW k \in Keys, ShowPlan(k)
        PROVE  IInv'
    BY <1>4, ShowPlanStep
  <1>5. ASSUME NEW k \in Keys, BeginConfirm(k)
        PROVE  IInv'
    BY <1>5, BeginConfirmStep
  <1>6. CASE Replan
    BY <1>6, ReplanStep
  <1>7. CASE Execute
    BY <1>7, ExecuteStep
  <1>8. CASE RollBack
    BY <1>8, RollBackStep
  <1>9. ASSUME NEW l \in Listings, NEW d \in 0..1, NEW c \in Closes,
               MoveMarket(l, market[l].session + d, c)
        PROVE  IInv'
    BY <1>9, MoveMarketStep
  <1>10. CASE ReplaceAnalysis
    BY <1>10, ReplaceAnalysisStep
  <1>11. ASSUME NEW r \in Readers,
                \/ Load(r) \/ TakeSnapshot(r)
                \/ OpenPage(r) \/ ValuePage(r) \/ ReadDeposits(r)
                \/ ReadBaseline(r) \/ ReadPurchases(r) \/ SendPage(r)
         PROVE  IInv'
    BY <1>11, LoadStep, TakeSnapshotStep, OpenPageStep, ValuePageStep, ReadDepositsStep,
       ReadBaselineStep, ReadPurchasesStep, SendPageStep
  <1>12. CASE UNCHANGED vars
    <2>1. UNCHANGED <<cash, qty, market, satellite, ledger, snaps, forms, txn, reader, moves, gain>>
      BY <1>12 DEF vars
    <2>2. Typed'
      BY <2>1 DEF IInv, Typed
    <2>. QED
      BY <2>1, <2>2, SnapsKept, FormsKept, TxnKept, BeforeKept, ExplainedKept, PagesKept DEF IInv
  <1>. QED
    BY <1>1, <1>2, <1>3, <1>4, <1>5, <1>6, <1>7, <1>8, <1>9, <1>10, <1>11, <1>12 DEF Next

\* The inductive invariant: the ledger explains the cash, the shares and the market's move
\* at every moment, an open transaction stands on what it has read, and what a page has
\* read so far is still explained.
THEOREM Invariance == Spec => []IInv
  <1>1. Init => IInv
    BY Starts
  <1>2. IInv /\ [Next]_vars => IInv'
    BY NextStep
  <1>. QED
    BY <1>1, <1>2, PTL DEF Spec

\* Cash, holdings, prices, rows and snapshots keep their types; above all no purchase takes
\* the cash below zero (the check of the cost in confirm_monthly_contribution_plan).
THEOREM TypeCorrect == Spec => []TypeOK
  <1>1. IInv => TypeOK
    <2>. SUFFICES ASSUME IInv
                  PROVE  TypeOK
      OBVIOUS
    <2>1. /\ cash \in Nat /\ qty \in Shares /\ market \in [Listings -> Price]
          /\ satellite \in Others \cup {None} /\ Len(ledger) <= MaxEvents
          /\ DOMAIN forms = Keys /\ moves \in 0..MaxMoves /\ gain \in Int
      BY DEF IInv, Typed, Board
    <2>2. \A i \in DOMAIN ledger : ledger[i].type \in {"deposit", "baseline", "execution"}
      <3>1. ledger \in Seq(Rows) /\ DOMAIN ledger = 1..Len(ledger)
        BY DEF IInv, Typed
      <3>. QED
        BY <3>1, RowFacts
    <2>3. ASSUME NEW s \in snaps
          PROVE  /\ s.at \in 0..Len(ledger)
                 /\ s.content.cash \in Nat /\ s.content.qty \in Shares
                 /\ s.content.market \in [Held(s.content.qty) -> Price]
      <3>1. s.at \in 0..Len(ledger) /\ DOMAIN s.content.market = Held(s.content.qty)
        BY DEF IInv, SnapsOK
      <3>2. s.content \in Contents
        BY DEF IInv, Typed, Snapshots
      <3>3. s.content.cash \in Nat /\ s.content.qty \in Shares /\ s.content.market \in Markets
        BY <3>2 DEF Contents
      <3>4. PICK T \in SUBSET Listings : s.content.market \in [T -> Price]
        BY <3>3 DEF Markets
      <3>5. T = DOMAIN s.content.market
        BY <3>4
      <3>. QED
        BY <3>1, <3>3, <3>4, <3>5
    <2>4. txn # None => txn.kind \in {"manual", "confirm", "buy"}
      BY DEF IInv, Typed, Manual, Purchase
    <2>5. \A r \in Readers :
            reader[r].at \in {"idle", "loaded", "opened", "valued", "deposits", "baseline", "purchases"}
      BY DEF IInv, Typed, Reading, Places
    <2>. QED
      BY <2>1, <2>2, <2>3, <2>4, <2>5 DEF TypeOK
  <1>. QED
    BY <1>1, Invariance, PTL

LEMMA NowTracked ==
  ASSUME IInv
  PROVE  /\ ledger \in Seq(Rows) /\ Len(ledger) \in Nat
         /\ HasDeposits <=> Type(ledger, "deposit") # {}
         /\ OfType("deposit", Now) = Type(ledger, "deposit")
         /\ Boundary(Now, Now) = StartOf(ledger)
         /\ Tracked(Now, Now) = PaidOf(ledger)
         /\ PurchasesSince(Now, Now, Now) = SpentOf(ledger)
  <1>1. ledger \in Seq(Rows) /\ Len(ledger) \in Nat /\ Typed
    BY DEF IInv, Typed
  <1>2. PICK n \in 0..Len(ledger) : n = Len(ledger)
    BY <1>1
  <1>3. \A t : Upto(ledger, t, n) = Type(ledger, t)
    BY <1>2 DEF Type
  <1>4. Upto(ledger, "deposit", n) = Type(ledger, "deposit")
        /\ Upto(ledger, "baseline", n) = Type(ledger, "baseline")
        /\ Upto(ledger, "execution", n) = Type(ledger, "execution")
    BY <1>3
  <1>5. /\ Boundary(n, n) = StartOf(ledger) /\ Tracked(n, n) = PaidOf(ledger)
        /\ \A np : PurchasesSince(n, n, np)
                     = {i \in Upto(ledger, "execution", np) : i > SinceOf(ledger)}
    BY <1>1, <1>4, Tracks
  <1>6. PurchasesSince(n, n, n) = SpentOf(ledger)
    BY <1>4, <1>5 DEF SpentOf, After
  <1>7. HasDeposits <=> Type(ledger, "deposit") # {}
    BY Bridge DEF HasDeposits
  <1>8. OfType("deposit", Now) = Type(ledger, "deposit")
    BY Bridge DEF Now
  <1>9. Now = n
    BY <1>2 DEF Now
  <1>. QED
    BY <1>1, <1>5, <1>6, <1>7, <1>8, <1>9

\* From the boundary the portfolio tracks, deposits and purchases lead to the cash and to
\* the shares there are: calculate_contribution_performance never withholds the profit
\* because the two do not reconcile, whatever snapshot the boundary came from.
THEOREM LedgerAlwaysReconciles == Spec => []LedgerReconciles
  <1>1. IInv => LedgerReconciles
    <2>. SUFFICES ASSUME IInv, HasDeposits, StartOf(ledger) # None
                  PROVE  CashReconciles(StartOf(ledger), PaidOf(ledger), SpentOf(ledger), cash)
                         /\ SharesReconcile(StartOf(ledger), SpentOf(ledger))
      BY NowTracked DEF LedgerReconciles
    <2>1. /\ cash = StartOf(ledger).content.cash + Amount(ledger, PaidOf(ledger))
                      - Amount(ledger, SpentOf(ledger))
          /\ \A l \in Listings : qty[l] = StartOf(ledger).content.qty[l]
                                            + Gained(ledger, SpentOf(ledger), l)
      BY NowTracked DEF IInv, Explained, Explains
    <2>. QED
      BY <2>1, Bridge DEF CashReconciles, SharesReconcile
  <1>. QED
    BY <1>1, Invariance, PTL

LEMMA StartValueIs ==
  ASSUME NEW b
  PROVE  StartValue(b) = b.content.cash + Opening(b.content)
  BY DEF StartValue, Opening

\* The profit that the ledger yields is the market's move of what was held since the
\* boundary, to the last quantum: no deposit, no purchase and no manual change is ever
\* counted as profit.
THEOREM ProfitIsTheMarkets == Spec => []ProfitIsMarketMove
  <1>1. IInv => ProfitIsMarketMove
    <2>. DEFINE v == Value(cash, qty, market)
                fresh == OneSession(Held(qty), market)
                p == Performance(Now, Now, Now, cash, v, fresh)
                b == StartOf(ledger)
    <2>. SUFFICES ASSUME IInv, p.shown
                  PROVE  p.gain = gain
      BY DEF ProfitIsMarketMove
    <2>1. cash \in Nat /\ qty \in Shares /\ market \in Board /\ gain \in Int
      BY DEF IInv, Typed
    <2>2. v = cash + Stocks(qty, market) /\ Stocks(qty, market) \in Nat
      <3>1. cash \in Int
        BY <2>1
      <3>2. v = cash + Stocks(qty, market)
        BY <2>1, <3>1, ValueTyped
      <3>3. Stocks(qty, market) \in Nat
        BY <2>1, StocksFacts
      <3>. QED
        BY <3>2, <3>3
    <2>3. /\ p = [shown |-> TRUE, gain |-> v - (StartValue(b) + Total(PaidOf(ledger)))]
          /\ Type(ledger, "deposit") # {} /\ b # None
      <3>. HIDE DEF v, fresh
      <3>1. ~Withheld.shown
        BY DEF Withheld
      <3>. QED
        BY <3>1, NowTracked DEF Performance
    <2>4. /\ cash = b.content.cash + Amount(ledger, PaidOf(ledger)) - Amount(ledger, SpentOf(ledger))
          /\ gain = Stocks(qty, market) - Opening(b.content) - Amount(ledger, SpentOf(ledger))
      BY <2>3 DEF IInv, Explained, Explains
    <2>5. /\ b.content \in Contents
          /\ Amount(ledger, PaidOf(ledger)) \in Int /\ Amount(ledger, SpentOf(ledger)) \in Int
      BY <2>3, NowTracked, SumsTyped
    <2>6. b.content.cash \in Nat /\ Opening(b.content) \in Nat
      BY <2>5, OpeningTyped DEF Contents
    <2>7. Total(PaidOf(ledger)) = Amount(ledger, PaidOf(ledger))
          /\ StartValue(b) = b.content.cash + Opening(b.content)
      BY Bridge, StartValueIs
    <2>8. p.gain = v - (StartValue(b) + Total(PaidOf(ledger)))
      BY <2>3
    <2>. HIDE DEF p, v, b
    <2>. QED
      BY <2>1, <2>2, <2>4, <2>5, <2>6, <2>7, <2>8
  <1>. QED
    BY <1>1, Invariance, PTL

\* The rows of one step.
LEMMA RowsWritten ==
  ASSUME IInv, Next, ledger' # ledger
  PROVE  \/ Execute
         \/ \E e \in Rows : e.type # "execution" /\ Longer(ledger, e, ledger')
  <1>1. ASSUME NEW k \in Keys, NEW a \in Amounts, Deposit(k, a)
        PROVE  \E e \in Rows : e.type # "execution" /\ Longer(ledger, e, ledger')
    <2>. DEFINE s == Recorded(cash, qty, market)
                sn == IF OneSession(Held(qty), market) THEN s ELSE None
                e == [type |-> "deposit", key |-> k, amount |-> a, snap |-> sn]
    <2>1. Longer(ledger, e, ledger')
      BY <1>1 DEF Deposit, Longer
    <2>2. Typed /\ SnapsOK /\ cash \in Nat /\ qty \in Shares /\ market \in Board
      BY DEF IInv, Typed
    <2>3. s \in Snapshots
      BY <2>2, RecordedFacts
    <2>4. e \in Rows /\ e.type # "execution"
      BY <2>3 DEF Rows, Deposits
    <2>. HIDE DEF e
    <2>. QED
      BY <2>1, <2>4
  <1>2. ASSUME CommitHolding
        PROVE  \E e \in Rows : e.type # "execution" /\ Longer(ledger, e, ledger')
    <2>. DEFINE s == Recorded(cash, txn.qty, txn.market)
                e == [type |-> "baseline", snap |-> s]
    <2>1. Longer(ledger, e, ledger')
      BY <1>2 DEF CommitHolding, Baseline, Longer
    <2>2. txn \in Manual
      BY <1>2 DEF CommitHolding, IInv, Typed, Purchase
    <2>3. PICK q \in Shares : q = txn.qty
      BY <2>2 DEF Manual
    <2>4. PICK m0 \in Board : m0 = txn.market
      BY <2>2 DEF Manual
    <2>5. Typed /\ SnapsOK /\ cash \in Nat
      BY DEF IInv, Typed
    <2>6. s \in Snapshots
      BY <2>3, <2>4, <2>5, RecordedFacts
    <2>7. e \in Rows /\ e.type # "execution"
      BY <2>6 DEF Rows, Baselines
    <2>. HIDE DEF e
    <2>. QED
      BY <2>1, <2>7
  <1>3. ASSUME NEW l \in Listings, NEW n \in 0..MaxShares, ChangeHolding(l, n)
        PROVE  FALSE
    BY <1>3 DEF ChangeHolding
  <1>4. ASSUME NEW k \in Keys, ShowPlan(k) \/ BeginConfirm(k)
        PROVE  FALSE
    BY <1>4 DEF ShowPlan, BeginConfirm
  <1>5. Replan \/ RollBack => FALSE
    BY DEF Replan, RollBack
  <1>6. ASSUME NEW l \in Listings, NEW d \in 0..1, NEW c \in Closes,
               MoveMarket(l, market[l].session + d, c)
        PROVE  FALSE
    BY <1>6 DEF MoveMarket
  <1>7. ~ReplaceAnalysis
    BY DEF ReplaceAnalysis
  <1>8. ASSUME NEW r \in Readers,
                \/ Load(r) \/ TakeSnapshot(r)
                \/ OpenPage(r) \/ ValuePage(r) \/ ReadDeposits(r)
                \/ ReadBaseline(r) \/ ReadPurchases(r) \/ SendPage(r)
         PROVE  FALSE
    BY <1>8 DEF Load, TakeSnapshot, OpenPage, ValuePage, ReadDeposits, ReadBaseline,
       ReadPurchases, SendPage, Known
  <1>. QED
    BY <1>1, <1>2, <1>3, <1>4, <1>5, <1>6, <1>7, <1>8 DEF Next

\* A plan is executed only with the cash, the holdings and the prices its page showed, at
\* the moment the execution is recorded, although it is planned before the market rows are
\* locked and an unheld purchase's row may change until it is read again.
THEOREM ExecutedOnlyAsShown == Spec => ExecutedAsShown
  <1>. DEFINE A == \A i \in DOMAIN ledger' \ DOMAIN ledger : ledger'[i].type = "execution" =>
                     /\ forms[ledger'[i].key].content = Content(cash, qty, market)
                     /\ \A l \in Listings : ledger'[i].shares[l] > 0 =>
                          forms[ledger'[i].key].prices[l] = market'[l]
  <1>1. IInv /\ [Next]_vars => [A]_ledger
    <2>. SUFFICES ASSUME IInv, Next, ledger' # ledger,
                         NEW i \in DOMAIN ledger' \ DOMAIN ledger, ledger'[i].type = "execution"
                  PROVE  /\ forms[ledger'[i].key].content = Content(cash, qty, market)
                         /\ \A l \in Listings : ledger'[i].shares[l] > 0 =>
                              forms[ledger'[i].key].prices[l] = market'[l]
      BY DEF vars
    <2>1. ledger \in Seq(Rows) /\ Len(ledger) \in Nat
      BY DEF IInv, Typed
    <2>2. CASE Execute
      <3>. DEFINE plan == forms[txn.key]
                  e == [type |-> "execution", key |-> txn.key, amount |-> Cost(plan),
                        shares |-> plan.shares]
      <3>1. ledger' = Append(ledger, e) /\ market' = market
        BY <2>2 DEF Execute
      <3>2. i = Len(ledger) + 1 /\ ledger'[i] = e
        BY <2>1, <3>1
      <3>3. ledger'[i].key = txn.key /\ ledger'[i].shares = plan.shares
        BY <3>2
      <3>4. txn \in Purchase \ {None} /\ txn.key \in Keys /\ plan \in Plans
        BY <2>2, PurchaseFacts
      <3>5. txn.kind = "buy" /\ \A l \in Buys(plan) : market[l] = plan.prices[l]
        BY <2>2 DEF Execute, PricesStand
      <3>6. plan # None /\ plan.content = Content(cash, qty, market)
        BY <3>4, <3>5 DEF IInv, TxnOK
      <3>7. Buys(plan) = Held(plan.shares)
        BY <3>4, <3>6 DEF IInv, FormsOK
      <3>8. ASSUME NEW l \in Listings, plan.shares[l] > 0
            PROVE  plan.prices[l] = market'[l]
        BY <3>1, <3>5, <3>7, <3>8 DEF Held
      <3>. HIDE DEF plan, e
      <3>9. forms[ledger'[i].key] = plan
        BY <3>3 DEF plan
      <3>. QED
        BY <3>3, <3>6, <3>8, <3>9
    <2>3. ASSUME NEW e \in Rows, e.type # "execution", Longer(ledger, e, ledger')
          PROVE  FALSE
      <3>1. ledger' \in Seq(Rows) /\ Len(ledger') = Len(ledger) + 1 /\ ledger'[Len(ledger) + 1] = e
        BY <2>1, <2>3, Grown
      <3>2. i = Len(ledger) + 1
        BY <2>1, <3>1
      <3>. QED
        BY <2>3, <3>1, <3>2
    <2>. QED
      BY <2>2, <2>3, RowsWritten
  <1>. QED
    BY <1>1, Invariance, PTL DEF Spec, ExecutedAsShown

\* Purchases that lead to the same shares are all there are: each buys something.
LEMMA AllSeen ==
  ASSUME IInv, Type(ledger, "deposit") # {}, StartOf(ledger) # None,
         NEW ps \in SUBSET SpentOf(ledger),
         \A l \in Listings : Gained(ledger, ps, l) = Gained(ledger, SpentOf(ledger), l)
  PROVE  ps = SpentOf(ledger)
  <1>. DEFINE S == SpentOf(ledger)
  <1>1. ledger \in Seq(Rows) /\ Len(ledger) \in Nat
    BY DEF IInv, Typed
  <1>2. /\ S \in SUBSET (1..Len(ledger))
        /\ \A i \in S : ledger[i].type = "execution" /\ ledger[i].shares \in Shares
    BY <1>1, Tracking
  <1>3. IsFiniteSet(S)
    BY <1>1, <1>2, Numbers
  <1>. HIDE DEF S
  <1>. SUFFICES ASSUME NEW j \in S \ ps
                PROVE  FALSE
    BY DEF S
  <1>4. Held(ledger[j].shares) # {}
    BY <1>2 DEF IInv, RowsOK
  <1>5. PICK l \in Listings : ledger[j].shares[l] > 0
    BY <1>4 DEF Held
  <1>. DEFINE f == [i \in S |-> ledger[i].shares[l]]
  <1>6. \A i \in S : f[i] \in Nat
    BY <1>2 DEF Shares
  <1>7. On(f, S) = Gained(ledger, S, l)
    BY DEF On, Gained
  <1>8. On(f, ps) = Gained(ledger, ps, l)
    <2>1. [i \in ps |-> f[i]] = [i \in ps |-> ledger[i].shares[l]]
      BY DEF S
    <2>. QED
      BY <2>1 DEF On, Gained
  <1>9. f[j] > 0
    BY <1>5
  <1>. HIDE DEF f
  <1>10. ps \in SUBSET S /\ On(f, ps) = On(f, S)
    BY <1>7, <1>8 DEF S
  <1>11. On(f, ps) + f[j] <= On(f, S)
    BY <1>3, <1>6, <1>10, OnMonotone
  <1>12. On(f, S) \in Nat
    BY <1>3, <1>6, OnNat
  <1>. QED
    BY <1>6, <1>9, <1>10, <1>11, <1>12

\* While no deposit and no manual change commits under an open page, the profit it shows is
\* the market's move since the boundary, although its six queries see six states and a plan
\* may be executed between any two of them.
THEOREM PagesShowTheMarkets ==
  ASSUME QuietPages
  PROVE  Spec => []PageShowsMarketMove
  <1>1. IInv => PageShowsMarketMove
    <2>. SUFFICES ASSUME IInv, NEW r \in Readers, reader[r].at = "purchases", Reported(r).shown
                  PROVE  Reported(r).gain = reader[r].gain
      BY DEF PageShowsMarketMove
    <2>. DEFINE rd == reader[r]
                nd == rd.deposits
                nb == rd.baselines
                np == rd.purchases
                b == StartOf(ledger)
                ps == PurchasesSince(nd, nb, np)
    <2>1. /\ ledger \in Seq(Rows) /\ Len(ledger) \in Nat /\ Typed /\ cash \in Nat
          /\ rd \in Reading /\ rd.at = "purchases" /\ PageHolds(rd, ledger, cash)
      BY DEF IInv, Typed, PagesOK
    <2>2. /\ nd \in Nat /\ nb \in Nat /\ np \in Nat /\ rd.cash \in Nat
          /\ rd.value \in Int /\ rd.gain \in Int
      BY <2>1 DEF Reading
    <2>3. /\ nd <= Len(ledger) /\ nb <= Len(ledger) /\ np <= Len(ledger)
          /\ Upto(ledger, "deposit", nd) = Type(ledger, "deposit")
          /\ Upto(ledger, "baseline", nb) = Type(ledger, "baseline")
      BY <2>1, <2>2 DEF PageHolds
    <2>4. nd \in 0..Len(ledger) /\ nb \in 0..Len(ledger)
      BY <2>1, <2>2, <2>3
    <2>. HIDE DEF rd, nd, nb, np
    <2>5. /\ Boundary(nd, nb) = b /\ Tracked(nd, nb) = PaidOf(ledger)
          /\ ps = {i \in Upto(ledger, "execution", np) : i > SinceOf(ledger)}
      BY <2>1, <2>3, <2>4, Tracks
    <2>6. OfType("deposit", nd) = Type(ledger, "deposit")
      BY <2>3, Bridge
    <2>7. /\ Reported(r) = [shown |-> TRUE,
                            gain |-> rd.value - (StartValue(b) + Total(PaidOf(ledger)))]
          /\ Type(ledger, "deposit") # {} /\ b # None
          /\ CashReconciles(b, PaidOf(ledger), ps, rd.cash) /\ SharesReconcile(b, ps)
      <3>1. Reported(r) = Performance(nd, nb, np, rd.cash, rd.value, rd.fresh)
        BY DEF Reported, rd, nd, nb, np
      <3>2. ~Withheld.shown
        BY DEF Withheld
      <3>. QED
        BY <2>5, <2>6, <3>1, <3>2 DEF Performance
    <2>8. /\ cash = b.content.cash + Amount(ledger, PaidOf(ledger)) - Amount(ledger, SpentOf(ledger))
          /\ \A l \in Listings : qty[l] = b.content.qty[l] + Gained(ledger, SpentOf(ledger), l)
      BY <2>7 DEF IInv, Explained, Explains
    <2>9. ps \in SUBSET SpentOf(ledger)
      <3>1. Upto(ledger, "execution", np) \in SUBSET Type(ledger, "execution")
        BY <2>1, <2>2, <2>3 DEF Upto, Type, np
      <3>. QED
        BY <2>5, <3>1 DEF SpentOf, After
    <2>10. rd.cash = b.content.cash + Amount(ledger, PaidOf(ledger)) - Amount(ledger, ps)
           /\ \A l \in Listings : qty[l] = b.content.qty[l] + Gained(ledger, ps, l)
      BY <2>7, Bridge DEF CashReconciles, SharesReconcile
    <2>. HIDE DEF ps, b
    <2>11. ASSUME NEW l \in Listings
           PROVE  Gained(ledger, ps, l) = Gained(ledger, SpentOf(ledger), l)
      <3>1. b.content.qty[l] \in Nat
        <4>1. b.content \in Contents
          BY <2>1, <2>7, SumsTyped DEF b
        <4>. QED
          BY <4>1 DEF Contents, Shares
      <3>2. Gained(ledger, ps, l) \in Int /\ Gained(ledger, SpentOf(ledger), l) \in Int
        <4>. DEFINE S == SpentOf(ledger)
        <4>1. /\ S \in SUBSET (1..Len(ledger)) /\ \A i \in S : ledger[i].shares \in Shares
          BY <2>1, <2>7, Tracking DEF b
        <4>2. \A i \in S : ledger[i].shares[l] \in Int
          BY <4>1 DEF Shares
        <4>. HIDE DEF S
        <4>3. ps \in SUBSET S
          BY <2>9 DEF S
        <4>4. PICK e \in Rows : TRUE
          <5>1. 1..Len(ledger) # {}
            BY <2>1, <2>7 DEF Type, Upto
          <5>. QED
            BY <2>1, <5>1
        <4>5. PICK x : Longer(ledger, e, x)
          BY DEF Longer
        <4>6. Gained(ledger, S, l) \in Int
          BY <2>1, <4>1, <4>2, <4>5, GainedSame
        <4>7. Gained(ledger, ps, l) \in Int
          BY <2>1, <4>1, <4>2, <4>3, <4>5, GainedSame
        <4>. QED
          BY <4>6, <4>7 DEF S
      <3>. QED
        BY <2>8, <2>10, <3>1, <3>2
    <2>12. ps = SpentOf(ledger)
      BY <2>7, <2>9, <2>11, AllSeen DEF b
    <2>13. rd.cash = cash
      BY <2>8, <2>10, <2>12
    <2>14. rd.value = b.content.cash + Opening(b.content) + Amount(ledger, PaidOf(ledger)) + rd.gain
      BY <2>1, <2>7, <2>13 DEF PageHolds, b
    <2>15. b.content \in Contents /\ Amount(ledger, PaidOf(ledger)) \in Int
      BY <2>1, <2>7, SumsTyped DEF b
    <2>16. b.content.cash \in Nat /\ Opening(b.content) \in Nat
      BY <2>15, OpeningTyped DEF Contents
    <2>17. Total(PaidOf(ledger)) = Amount(ledger, PaidOf(ledger))
           /\ StartValue(b) = b.content.cash + Opening(b.content)
      BY Bridge, StartValueIs
    <2>18. Reported(r).gain = rd.value - (StartValue(b) + Total(PaidOf(ledger)))
      BY <2>7
    <2>19. Reported(r).gain = rd.gain
      BY <2>2, <2>14, <2>15, <2>16, <2>17, <2>18
    <2>. QED
      BY <2>19 DEF rd
  <1>. QED
    BY <1>1, Invariance, PTL
=============================================================================
