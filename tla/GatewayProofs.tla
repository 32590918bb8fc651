--------------------------- MODULE GatewayProofs ---------------------------
(***************************************************************************)
(* Proofs about Gateway, for any projects, aliases, texts, globs, limits   *)
(* and any order of calls.  KeptOk is inductive: every record of the       *)
(* broker is bound to its root (Bound, HostKnown) and the books of the     *)
(* store are exact (StoreOk).  What an answer says follows from it: for    *)
(* the path tools in PathFacts, for the queries in QueryFacts, where the   *)
(* automaton of a glob is compared with the language of the glob.          *)
(***************************************************************************)
EXTENDS PathIdentityProofs, Gateway, FiniteSetTheorems

-----------------------------------------------------------------------------
(* Recursion over results.                                                   *)

\* What holds at zero and is handed on by every step holds up to n.
LEMMA UpTo ==
  ASSUME NEW n \in Nat, NEW G, 0 \in G, \A i \in 1 .. n : i - 1 \in G => i \in G
  PROVE  \A i \in 0 .. n : i \in G
<1> DEFINE B == {k \in 0 .. n : k \notin G}
<1> SUFFICES ASSUME B # {} PROVE FALSE
  OBVIOUS
<1>1. PICK k \in B : \A m \in B : k <= m
  <2>1. B \subseteq Nat
    OBVIOUS
  <2> HIDE DEF B
  <2> QED
    BY <2>1, LeastNatural
<1>2. k \in 1 .. n
  OBVIOUS
<1>3. k - 1 \in G
  BY <1>1, <1>2
<1> QED
  BY <1>2, <1>3

\* A result that is a value carries it.
LEMMA OkCarries ==
  ASSUME NEW r, NEW x, r = Ok(x)
  PROVE  r.value = x
BY Zenon DEF Ok

\* A fold over results that stops at the first error, while its values are in P.
Folds(c, n, P, base, step) ==
  /\ c[0] = Ok(base)
  /\ \A i \in 1 .. n : /\ ~IsOk(c[i - 1]) => c[i] = c[i - 1]
                       /\ IsOk(c[i - 1]) /\ c[i - 1].value \in P => c[i] = step[i][c[i - 1].value]

Folded(n, P, base, step) ==
  /\ \E f : /\ f = [i \in 0 .. n |-> f[i]] /\ Folds(f, n, P, base, step)
            /\ \A i \in 0 .. n : IsOk(f[i]) => f[i].value \in P
  /\ \A c : Folds(c, n, P, base, step) => \A i \in 0 .. n : IsOk(c[i]) => \E p \in P : c[i] = Ok(p)

\* Such a fold exists, and every one ends in an error or in one of the values
\* that its steps keep to.
LEMMA FoldExists ==
  ASSUME NEW n \in Nat, NEW P, NEW base \in P, NEW R, NEW step \in [1 .. n -> [P -> R]],
         \A r \in R : IsOk(r) => \E p \in P : r = Ok(p)
  PROVE  Folded(n, P, base, step)
<1> DEFINE V == {Ok(p) : p \in P} \cup R
           next == [i \in 1 .. n |-> [r \in V |-> IF IsOk(r) THEN step[i][r.value] ELSE r]]
<1>1. \A r \in V : IsOk(r) => r.value \in P
  BY Outcomes
<1>2. \A i \in 1 .. n : \A p \in P : step[i][p] \in R
  OBVIOUS
<1>3. next \in [1 .. n -> [V -> V]]
  <2> SUFFICES ASSUME NEW i \in 1 .. n, NEW r \in V
               PROVE  (IF IsOk(r) THEN step[i][r.value] ELSE r) \in V
    OBVIOUS
  <2> HIDE DEF next
  <2>1. IsOk(r) => step[i][r.value] \in R
    BY <1>1, <1>2
  <2> QED
    BY <2>1
<1>4. Ok(base) \in V
  OBVIOUS
<1>5. \A i \in 1 .. n : \A r \in V : next[i][r] = IF IsOk(r) THEN step[i][r.value] ELSE r
  OBVIOUS
<1>6. \A r \in V : IsOk(r) => \E p \in P : r = Ok(p)
  OBVIOUS
<1>7. PICK f \in [0 .. n -> V] : Recursive(f, n, Ok(base), next)
  <2> HIDE DEF next, V
  <2> QED
    BY <1>3, <1>4, RecursionExists
<1> HIDE DEF next, V
<1>8. Folds(f, n, P, base, step)
  <2>1. f[0] = Ok(base) /\ \A i \in 1 .. n : f[i] = next[i][f[i - 1]]
    BY <1>7 DEF Recursive
  <2>2. \A i \in 1 .. n : f[i - 1] \in V
    OBVIOUS
  <2> QED
    BY <2>1, <2>2, <1>5 DEF Folds
<1>9. ASSUME NEW c, Folds(c, n, P, base, step)
      PROVE  \A i \in 0 .. n : c[i] \in V
  <2> DEFINE G == {i \in 0 .. n : c[i] \in V}
  <2>1. 0 \in G
    BY <1>4, <1>9 DEF Folds
  <2>2. ASSUME NEW i \in 1 .. n, i - 1 \in G PROVE i \in G
    <3>1. c[i - 1] \in V
      BY <2>2
    <3>2. c[i] = next[i][c[i - 1]]
      BY <3>1, <1>1, <1>5, <1>9 DEF Folds
    <3>3. next[i][c[i - 1]] \in V
      BY <3>1, <1>3
    <3> QED
      BY <3>2, <3>3
  <2>3. \A i \in 1 .. n : i - 1 \in G => i \in G
    BY <2>2
  <2>4. \A i \in 0 .. n : i \in G
    <3> HIDE DEF G
    <3> QED
      BY <2>1, <2>3, UpTo
  <2> QED
    BY <2>4
<1>10. \A i \in 0 .. n : IsOk(f[i]) => f[i].value \in P
  BY <1>1
<1>11. f = [i \in 0 .. n |-> f[i]]
  OBVIOUS
<1> QED
  BY <1>6, <1>8, <1>9, <1>10, <1>11 DEF Folded

(* Sums over finite sets.                                                    *)

\* The member that the sum takes first, the sum, and what defines its function.
Pick(s) == CHOOSE x \in s : TRUE
SumOf(g, S) == MapThenSumSet(LAMBDA p : g[p], S)
Adds(h, g, S) == h = [s \in SUBSET S |-> IF s = {} THEN 0 ELSE g[Pick(s)] + h[s \ {Pick(s)}]]

LEMMA PickIsMember == \A s : s # {} => Pick(s) \in s
  BY Zenon DEF Pick

LEMMA SumIsChosen ==
  ASSUME NEW g, NEW S
  PROVE SumOf(g, S) = (CHOOSE h : Adds(h, g, S))[S]
BY Zenon DEF SumOf, MapThenSumSet, MapThenFoldSet, Adds, Pick

\* A set of bad subsets has a smallest one: how induction is done below.
LEMMA Smallest ==
  ASSUME NEW S, IsFiniteSet(S), NEW Bad, Bad \subseteq SUBSET S, Bad # {}
  PROVE  \E T \in Bad : \A U \in Bad : ~(U \subseteq T /\ U # T)
<1>1. IsWellFoundedOn(StrictSubsetOrdering(S), SUBSET S)
  BY FS_StrictSubsetOrderingWellFounded, FS_FiniteSubsetsOfFinite, Zenon
<1>2. PICK T \in Bad : \A U \in Bad : <<U, T>> \notin StrictSubsetOrdering(S)
  BY <1>1, WFMin, Zenon
<1>3. \A U \in Bad : <<U, T>> \in (SUBSET S) \X (SUBSET S)
  OBVIOUS
<1> QED
  BY <1>2, <1>3 DEF StrictSubsetOrdering

\* The recursive function of a sum: its equation, its restriction to a subset,
\* that there is only one and that there is one.
LEMMA AddsAt ==
  ASSUME NEW h, NEW g, NEW S, Adds(h, g, S), NEW s \in SUBSET S
  PROVE  h[s] = IF s = {} THEN 0 ELSE g[Pick(s)] + h[s \ {Pick(s)}]
<1> DEFINE H(x) == IF x = {} THEN 0 ELSE g[Pick(x)] + h[x \ {Pick(x)}]
<1>1. h = [x \in SUBSET S |-> H(x)]
  BY DEF Adds
<1> HIDE DEF H
<1>2. h[s] = H(s)
  BY <1>1
<1> QED
  BY <1>2 DEF H

LEMMA AddsBelow ==
  ASSUME NEW h, NEW g, NEW S, Adds(h, g, S), NEW T \in SUBSET S
  PROVE  Adds([s \in SUBSET T |-> h[s]], g, T)
<1> DEFINE k == [s \in SUBSET T |-> h[s]]
<1>1. \A s \in SUBSET T : k[s] = IF s = {} THEN 0 ELSE g[Pick(s)] + k[s \ {Pick(s)}]
  <2> SUFFICES ASSUME NEW s \in SUBSET T
               PROVE  k[s] = IF s = {} THEN 0 ELSE g[Pick(s)] + k[s \ {Pick(s)}]
    OBVIOUS
  <2>1. k[s] = h[s] /\ k[s \ {Pick(s)}] = h[s \ {Pick(s)}] /\ s \in SUBSET S
    OBVIOUS
  <2> QED
    BY <2>1, AddsAt
<1>2. k = [s \in SUBSET T |-> k[s]]
  OBVIOUS
<1> HIDE DEF k
<1>3. k = [s \in SUBSET T |-> IF s = {} THEN 0 ELSE g[Pick(s)] + k[s \ {Pick(s)}]]
  BY <1>1, <1>2
<1> QED
  BY <1>3 DEF k, Adds

LEMMA AddsOnce ==
  ASSUME NEW h, NEW k, NEW g, NEW S, IsFiniteSet(S), Adds(h, g, S), Adds(k, g, S)
  PROVE  h = k
<1> DEFINE Bad == {s \in SUBSET S : h[s] # k[s]}
<1>1. Bad = {}
  <2> SUFFICES ASSUME Bad # {} PROVE FALSE
    OBVIOUS
  <2>1. PICK T \in Bad : \A U \in Bad : ~(U \subseteq T /\ U # T)
    <3> HIDE DEF Bad
    <3>1. Bad \subseteq SUBSET S
      BY DEF Bad
    <3> QED
      BY <3>1, Smallest
  <2>2. T \in SUBSET S /\ h[T] # k[T]
    OBVIOUS
  <2>3. T # {}
    BY <2>2, AddsAt
  <2>4. Pick(T) \in T
    BY <2>3, PickIsMember
  <2>5. h[T \ {Pick(T)}] = k[T \ {Pick(T)}]
    BY <2>1, <2>4
  <2> QED
    BY <2>2, <2>3, <2>5, AddsAt
<1>2. h = [s \in SUBSET S |-> h[s]] /\ k = [s \in SUBSET S |-> k[s]]
  BY DEF Adds
<1> QED
  BY <1>1, <1>2

LEMMA AddsExists ==
  ASSUME NEW g, NEW S, IsFiniteSet(S)
  PROVE  \E h : Adds(h, g, S)
<1> DEFINE Bad == {s \in SUBSET S : ~\E h : Adds(h, g, s)}
<1> SUFFICES ASSUME Bad # {} PROVE FALSE
  OBVIOUS
<1>1. PICK T \in Bad : \A U \in Bad : ~(U \subseteq T /\ U # T)
  <2> HIDE DEF Bad
  <2>1. Bad \subseteq SUBSET S
    BY DEF Bad
  <2> QED
    BY <2>1, Smallest
<1>2. T \in SUBSET S /\ IsFiniteSet(T)
  BY FS_Subset
<1> DEFINE H(s) == CHOOSE h : Adds(h, g, s)
           V(s) == H(s)[s]
           h0 == [s \in SUBSET T |-> IF s = {} THEN 0 ELSE g[Pick(s)] + V(s \ {Pick(s)})]
<1>3. \A U \in SUBSET T : U # T => Adds(H(U), g, U)
  BY <1>1, <1>2
<1>4. \A U \in SUBSET T : U # T => V(U) = IF U = {} THEN 0 ELSE g[Pick(U)] + V(U \ {Pick(U)})
  <2> SUFFICES ASSUME NEW U \in SUBSET T, U # T
               PROVE  V(U) = IF U = {} THEN 0 ELSE g[Pick(U)] + V(U \ {Pick(U)})
    OBVIOUS
  <2>1. Adds(H(U), g, U)
    BY <1>3
  <2> DEFINE W == U \ {Pick(U)}
  <2>2. Adds([s \in SUBSET W |-> H(U)[s]], g, W)
    <3>1. W \in SUBSET U
      OBVIOUS
    <3> HIDE DEF H, W
    <3> QED BY <2>1, <3>1, AddsBelow
  <2>3. W # T /\ W \in SUBSET T /\ IsFiniteSet(W)
    <3>1. W \subseteq U /\ U \subseteq T /\ U # T
      OBVIOUS
    <3> QED
      BY <3>1, <1>2, FS_Subset
  <2>4. Adds(H(W), g, W)
    BY <1>3, <2>3
  <2>5. H(W) = [s \in SUBSET W |-> H(U)[s]]
    <3> HIDE DEF H, W
    <3> QED BY <2>2, <2>3, <2>4, AddsOnce
  <2>6. H(W)[W] = H(U)[W]
    <3> HIDE DEF H
    <3> QED BY <2>5
  <2>7. U \in SUBSET U
    OBVIOUS
  <2>8. H(U)[U] = IF U = {} THEN 0 ELSE g[Pick(U)] + H(U)[W]
    <3> HIDE DEF H
    <3> QED BY <2>1, <2>7, AddsAt
  <2> QED
    <3> HIDE DEF H
    <3> QED BY <2>6, <2>8
<1>5. \A s \in SUBSET T : h0[s \ {Pick(s)}] = V(s \ {Pick(s)}) \/ s = {}
  <2> SUFFICES ASSUME NEW s \in SUBSET T, s # {}
               PROVE h0[s \ {Pick(s)}] = V(s \ {Pick(s)})
    OBVIOUS
  <2> DEFINE W == s \ {Pick(s)}
  <2>1. W \in SUBSET T /\ W # T
    BY PickIsMember
  <2>2. h0[W] = IF W = {} THEN 0 ELSE g[Pick(W)] + V(W \ {Pick(W)})
    <3> HIDE DEF V, W
    <3> QED BY <2>1
  <2>3. V(W) = IF W = {} THEN 0 ELSE g[Pick(W)] + V(W \ {Pick(W)})
    <3> HIDE DEF V, W
    <3> QED BY <2>1, <1>4
  <2> QED
    BY <2>2, <2>3, Zenon
<1>6. h0 = [s \in SUBSET T |-> IF s = {} THEN 0 ELSE g[Pick(s)] + h0[s \ {Pick(s)}]]
  <2> HIDE DEF V
  <2>1. \A s \in SUBSET T : (IF s = {} THEN 0 ELSE g[Pick(s)] + V(s \ {Pick(s)}))
              = (IF s = {} THEN 0 ELSE g[Pick(s)] + h0[s \ {Pick(s)}])
    <3> HIDE DEF h0
    <3> QED BY <1>5
  <2> DEFINE k == h0
  <2>2. h0 = [s \in SUBSET T |-> (IF s = {} THEN 0 ELSE g[Pick(s)] + V(s \ {Pick(s)}))]
    OBVIOUS
  <2> HIDE DEF h0
  <2> QED BY <2>1, <2>2
<1>7. Adds(h0, g, T)
  <2> HIDE DEF h0
  <2> QED BY <1>6 DEF Adds
<1> QED
  BY <1>7

\* Sums over finite sets.
LEMMA SumIsAdded ==
  ASSUME NEW g, NEW S, IsFiniteSet(S), NEW h, Adds(h, g, S)
  PROVE  SumOf(g, S) = h[S]
<1>1. Adds(CHOOSE k : Adds(k, g, S), g, S)
  BY Zenon
<1> QED
  BY <1>1, SumIsChosen, AddsOnce, Zenon

LEMMA SumEquation ==
  ASSUME NEW g, NEW S, IsFiniteSet(S)
  PROVE  SumOf(g, S) = IF S = {} THEN 0 ELSE g[Pick(S)] + SumOf(g, S \ {Pick(S)})
<1>1. PICK h : Adds(h, g, S)
  BY AddsExists
<1> DEFINE T == S \ {Pick(S)}
<1>2. IsFiniteSet(T) /\ T \in SUBSET S
  BY FS_Subset
<1>3. Adds([s \in SUBSET T |-> h[s]], g, T)
  BY <1>1, AddsBelow
<1>4. SumOf(g, T) = [s \in SUBSET T |-> h[s]][T]
  <2> HIDE DEF T
  <2> QED BY <1>2, <1>3, SumIsAdded
<1>5. SumOf(g, T) = h[T]
  BY <1>4
<1> QED
  BY <1>1, <1>5, SumIsAdded, AddsAt

LEMMA SumType ==
  ASSUME NEW g, NEW S, IsFiniteSet(S), \A x \in S : g[x] \in Nat
  PROVE  SumOf(g, S) \in Nat
<1> DEFINE Bad == {T \in SUBSET S : SumOf(g, T) \notin Nat}
<1> SUFFICES ASSUME Bad # {} PROVE FALSE
  OBVIOUS
<1>1. PICK T \in Bad : \A U \in Bad : ~(U \subseteq T /\ U # T)
  <2> HIDE DEF Bad
  <2>1. Bad \subseteq SUBSET S
    BY DEF Bad
  <2> QED
    BY <2>1, Smallest
<1>2. T \in SUBSET S /\ SumOf(g, T) \notin Nat /\ IsFiniteSet(T)
  BY FS_Subset
<1>3. T # {} /\ SumOf(g, T) = g[Pick(T)] + SumOf(g, T \ {Pick(T)})
  <2>1. SumOf(g, T) = IF T = {} THEN 0 ELSE g[Pick(T)] + SumOf(g, T \ {Pick(T)})
    BY <1>2, SumEquation
  <2>2. T = {} => SumOf(g, T) = 0
    BY <2>1, Zenon
  <2>3. T # {}
    BY <1>2, <2>2
  <2> QED
    BY <2>1, <2>3, Zenon
<1>4. Pick(T) \in T
  BY <1>3, PickIsMember
<1>5. SumOf(g, T \ {Pick(T)}) \in Nat
  BY <1>1, <1>4
<1> QED
  BY <1>2, <1>3, <1>4, <1>5

LEMMA SumSame ==
  ASSUME NEW f, NEW g, NEW S, IsFiniteSet(S), \A x \in S : f[x] = g[x]
  PROVE  SumOf(f, S) = SumOf(g, S)
<1> DEFINE Bad == {T \in SUBSET S : SumOf(f, T) # SumOf(g, T)}
<1> SUFFICES ASSUME Bad # {} PROVE FALSE
  OBVIOUS
<1>1. PICK T \in Bad : \A U \in Bad : ~(U \subseteq T /\ U # T)
  <2> HIDE DEF Bad
  <2>1. Bad \subseteq SUBSET S
    BY DEF Bad
  <2> QED
    BY <2>1, Smallest
<1>2. T \in SUBSET S /\ SumOf(f, T) # SumOf(g, T) /\ IsFiniteSet(T)
  BY FS_Subset
<1>3. T # {}
  BY <1>2, SumEquation
<1>4. Pick(T) \in T
  BY <1>3, PickIsMember
<1>5. SumOf(f, T \ {Pick(T)}) = SumOf(g, T \ {Pick(T)})
  BY <1>1, <1>4
<1> QED
  BY <1>2, <1>3, <1>4, <1>5, SumEquation

LEMMA SumWithout ==
  ASSUME NEW g, NEW S, IsFiniteSet(S), \A x \in S : g[x] \in Nat, NEW p \in S
  PROVE  SumOf(g, S) = g[p] + SumOf(g, S \ {p})
<1> DEFINE Bad == {T \in SUBSET S : \E x \in T : SumOf(g, T) # g[x] + SumOf(g, T \ {x})}
<1> SUFFICES ASSUME Bad # {} PROVE FALSE
  OBVIOUS
<1>1. PICK T \in Bad : \A U \in Bad : ~(U \subseteq T /\ U # T)
  <2> HIDE DEF Bad
  <2>1. Bad \subseteq SUBSET S
    BY DEF Bad
  <2> QED
    BY <2>1, Smallest
<1>2. PICK x \in T : SumOf(g, T) # g[x] + SumOf(g, T \ {x})
  OBVIOUS
<1> DEFINE q == Pick(T)
<1>3. q \in T /\ SumOf(g, T) = g[q] + SumOf(g, T \ {q})
  BY FS_Subset, SumEquation, PickIsMember
<1> HIDE DEF q
<1>4. x # q
  BY <1>2, <1>3
<1>5. \A U \in SUBSET T : U # T => \A y \in U : SumOf(g, U) = g[y] + SumOf(g, U \ {y})
  BY <1>1
<1>6. SumOf(g, T \ {q}) = g[x] + SumOf(g, (T \ {q}) \ {x})
  BY <1>3, <1>4, <1>5
<1>7. SumOf(g, T \ {x}) = g[q] + SumOf(g, (T \ {x}) \ {q})
  BY <1>3, <1>4, <1>5
<1>8. (T \ {q}) \ {x} = (T \ {x}) \ {q}
  OBVIOUS
<1>9. SumOf(g, (T \ {q}) \ {x}) \in Nat
  <2>1. (T \ {q}) \ {x} \in SUBSET S
    OBVIOUS
  <2> QED
    BY <2>1, FS_Subset, SumType
<1>10. g[x] \in Nat /\ g[q] \in Nat
  BY <1>3
<1> HIDE DEF Bad
<1> QED
  BY <1>2, <1>3, <1>6, <1>7, <1>8, <1>9, <1>10

-----------------------------------------------------------------------------
(* The store.                                                                *)

\* A key that may be stored: its project is registered and its path is one its
\* scope allows.
KeyOk(key, ids) ==
  /\ key \in ids \X WorkflowScopes \X ScopedPaths
  /\ IsOk(normalizeScopedPath(key[2], key[3]))

ChargeOf(f) == [key \in DOMAIN f |-> KeyUnits + Len(key[3]) + Len(f[key])]

\* The books of a store: what it charges is what it keeps, within the caps.
StoreOk(f, u, ids) ==
  /\ IsFiniteSet(DOMAIN f) /\ f \in [DOMAIN f -> Seq(STRING)]
  /\ \A key \in DOMAIN f : KeyOk(key, ids)
  /\ u = SumOf(ChargeOf(f), DOMAIN f) /\ u <= MaxStoredUnits
  /\ Cardinality(DOMAIN f) <= MaxStoredEntries

Stores(ids) == {s \in [files : UNION {[D -> Seq(STRING)] : D \in SUBSET (ids \X WorkflowScopes \X ScopedPaths)},
                       units : Nat] : StoreOk(s.files, s.units, ids)}

\* The parts of a store, and what one text is charged.
LEMMA StoreParts ==
  ASSUME NEW f, NEW u, NEW ids, StoreOk(f, u, ids)
  PROVE  /\ [files |-> f, units |-> u] \in Stores(ids) /\ u \in Nat
         /\ \A key \in DOMAIN f : ChargeOf(f)[key] \in Nat
<1>1. KeyUnits \in Nat /\ ScopedPaths \subseteq Seq(STRING)
  BY GatewayAssumption DEF GatewayAssumption
<1>2. ASSUME NEW key \in DOMAIN f PROVE ChargeOf(f)[key] \in Nat
  <2>1. key[3] \in Seq(STRING) /\ f[key] \in Seq(STRING)
    BY <1>1 DEF StoreOk, KeyOk
  <2>2. Len(key[3]) \in Nat /\ Len(f[key]) \in Nat
    BY <2>1
  <2> QED
    BY <1>1, <2>2 DEF ChargeOf
<1>3. u \in Nat
  <2>1. SumOf(ChargeOf(f), DOMAIN f) \in Nat
    BY <1>2, SumType DEF StoreOk
  <2> QED
    BY <2>1 DEF StoreOk
<1>4. DOMAIN f \in SUBSET (ids \X WorkflowScopes \X ScopedPaths) /\ f \in [DOMAIN f -> Seq(STRING)]
  BY DEF StoreOk, KeyOk
<1>5. f \in UNION {[D -> Seq(STRING)] : D \in SUBSET (ids \X WorkflowScopes \X ScopedPaths)}
  BY <1>4
<1> QED
  BY <1>2, <1>3, <1>5 DEF Stores

\* Adding a text or replacing one changes the sum by its charge.
LEMMA SumPut ==
  ASSUME NEW f, NEW g, NEW S, IsFiniteSet(S), \A x \in S : f[x] \in Nat, NEW p, g[p] \in Nat,
         \A x \in S \ {p} : g[x] = f[x]
  PROVE  SumOf(g, S \cup {p}) = SumOf(f, S) + g[p] - (IF p \in S THEN f[p] ELSE 0)
<1>1. IsFiniteSet(S \cup {p}) /\ IsFiniteSet(S \ {p})
  BY FS_AddElement, FS_RemoveElement
<1>2. \A x \in S \cup {p} : g[x] \in Nat
  OBVIOUS
<1>3. SumOf(g, S \cup {p}) = g[p] + SumOf(g, (S \cup {p}) \ {p})
  BY <1>1, <1>2, SumWithout
<1>4. (S \cup {p}) \ {p} = S \ {p}
  OBVIOUS
<1>5. SumOf(g, S \ {p}) = SumOf(f, S \ {p})
  BY <1>1, SumSame
<1>6. SumOf(f, S \ {p}) \in Nat
  BY <1>1, SumType
<1> DEFINE rest == SumOf(f, S \ {p})
           fp == f[p]
           gp == g[p]
<1>9. SumOf(g, S \cup {p}) = gp + rest
  BY <1>3, <1>4, <1>5, Zenon
<1>7. CASE p \in S
  <2>1. SumOf(f, S) = fp + rest /\ fp \in Nat
    BY <1>7, SumWithout
  <2>2. rest \in Nat /\ gp \in Nat
    BY <1>6
  <2> HIDE DEF rest, fp, gp
  <2>3. gp + rest = fp + rest + gp - fp
    BY <2>1, <2>2
  <2>4. SumOf(g, S \cup {p}) = SumOf(f, S) + gp - (IF p \in S THEN fp ELSE 0)
    BY <1>7, <1>9, <2>1, <2>3, Zenon
  <2> QED
    BY <2>4 DEF gp, fp
<1>8. CASE p \notin S
  <2>1. S \ {p} = S
    BY <1>8
  <2>2. SumOf(f, S) = rest
    BY <2>1, Zenon
  <2>3. rest \in Nat /\ gp \in Nat
    BY <1>6
  <2> HIDE DEF rest, fp, gp
  <2>4. gp + rest = rest + gp - 0
    BY <2>3
  <2>5. SumOf(g, S \cup {p}) = SumOf(f, S) + gp - (IF p \in S THEN fp ELSE 0)
    BY <1>8, <1>9, <2>2, <2>4, Zenon
  <2> QED
    BY <2>5 DEF gp, fp
<1> QED
  BY <1>7, <1>8

\* A text that is stored leaves the books exact and within the caps.
LEMMA StoreKeeps ==
  ASSUME NEW store, NEW ids, StoreOk(store.files, store.units, ids), NEW key, KeyOk(key, ids), NEW text \in Seq(STRING)
  PROVE  LET r == storeScopedText(store, key, text)
         IN IsOk(r) => r = Ok([files |-> Put(store.files, key, text), units |-> r.value.units])
                       /\ StoreOk(r.value.files, r.value.units, ids)
<1> DEFINE f == store.files
           u == store.units
           new == key \notin DOMAIN f
           g == Put(f, key, text)
           w == u + (IF new THEN Units(key) ELSE 0) + Len(text) - (IF new THEN 0 ELSE Len(f[key]))
           full == \/ Len(text) > MaxValueUnits
                   \/ new /\ Cardinality(DOMAIN f) >= MaxStoredEntries
                   \/ w > MaxStoredUnits
           r == storeScopedText(store, key, text)
<1>1. r = Unless(full, "ERR_INVALID_PATH", Ok([files |-> g, units |-> w]))
  BY Zenon DEF storeScopedText, Put
<1>2. KeyUnits \in Nat /\ ScopedPaths \subseteq Seq(STRING) /\ MaxStoredUnits \in Nat /\ MaxStoredEntries \in Nat
  BY GatewayAssumption DEF GatewayAssumption
<1>3. IsFiniteSet(DOMAIN f) /\ f \in [DOMAIN f -> Seq(STRING)] /\ (\A k \in DOMAIN f : KeyOk(k, ids))
      /\ u = SumOf(ChargeOf(f), DOMAIN f) /\ Cardinality(DOMAIN f) <= MaxStoredEntries
  BY DEF StoreOk
<1>4. u \in Nat /\ \A k \in DOMAIN f : ChargeOf(f)[k] \in Nat
  BY StoreParts
<1>5. DOMAIN g = DOMAIN f \cup {key} /\ g \in [DOMAIN f \cup {key} -> Seq(STRING)]
      /\ g[key] = text /\ \A k \in DOMAIN f \ {key} : g[k] = f[k]
  BY <1>3 DEF Put
<1>6. key[3] \in Seq(STRING) /\ Len(key[3]) \in Nat /\ Len(text) \in Nat
  <2>1. key[3] \in Seq(STRING)
    BY <1>2 DEF KeyOk
  <2> QED
    BY <2>1
<1> HIDE DEF g, r
<1>7. ChargeOf(g)[key] = KeyUnits + Len(key[3]) + Len(text)
      /\ \A k \in DOMAIN f \ {key} : ChargeOf(g)[k] = ChargeOf(f)[k]
  BY <1>5 DEF ChargeOf
<1>8. ~new => ChargeOf(f)[key] = KeyUnits + Len(key[3]) + Len(f[key]) /\ Len(f[key]) \in Nat
  BY <1>3 DEF ChargeOf
<1>9. SumOf(ChargeOf(g), DOMAIN f \cup {key})
        = SumOf(ChargeOf(f), DOMAIN f) + ChargeOf(g)[key] - (IF key \in DOMAIN f THEN ChargeOf(f)[key] ELSE 0)
  <2>1. ChargeOf(g)[key] \in Nat
    BY <1>2, <1>6, <1>7
  <2> DEFINE cf == ChargeOf(f)
             cg == ChargeOf(g)
             D == DOMAIN f
  <2>2. IsFiniteSet(D) /\ (\A k \in D : cf[k] \in Nat) /\ (\A k \in D \ {key} : cg[k] = cf[k]) /\ cg[key] \in Nat
    BY <1>3, <1>4, <1>7, <2>1
  <2> HIDE DEF cf, cg, D
  <2>3. SumOf(cg, D \cup {key}) = SumOf(cf, D) + cg[key] - (IF key \in D THEN cf[key] ELSE 0)
    BY <2>2, SumPut
  <2> QED
    BY <2>3 DEF cf, cg, D
<1>10. w = SumOf(ChargeOf(g), DOMAIN g)
  <2> DEFINE a == SumOf(ChargeOf(g), DOMAIN f \cup {key})
             b == SumOf(ChargeOf(f), DOMAIN f)
  <2>1. a = b + ChargeOf(g)[key] - (IF key \in DOMAIN f THEN ChargeOf(f)[key] ELSE 0) /\ u = b
    BY <1>3, <1>9
  <2>2. a = SumOf(ChargeOf(g), DOMAIN g)
    BY <1>5
  <2>3. Units(key) = KeyUnits + Len(key[3])
    BY DEF Units
  <2> DEFINE l == Len(text)
             k3 == Len(key[3])
             old == Len(f[key])
             cg == ChargeOf(g)[key]
             cf == ChargeOf(f)[key]
             uk == Units(key)
  <2>5. /\ a = b + cg - (IF new THEN 0 ELSE cf) /\ u = b /\ u \in Nat /\ uk = KeyUnits + k3
        /\ cg = KeyUnits + k3 + l /\ (~new => cf = KeyUnits + k3 + old /\ old \in Nat)
        /\ l \in Nat /\ k3 \in Nat /\ w = u + (IF new THEN uk ELSE 0) + l - (IF new THEN 0 ELSE old)
    BY <1>4, <1>6, <1>7, <1>8, <2>1, <2>3, Zenon
  <2> HIDE DEF a, b, f, u, l, k3, old, cg, cf, uk, w, new
  <2>4. w = a
    BY <1>2, <2>5
  <2> QED
    BY <2>2, <2>4
<1>11. IsFiniteSet(DOMAIN g)
       /\ Cardinality(DOMAIN g) = IF new THEN Cardinality(DOMAIN f) + 1 ELSE Cardinality(DOMAIN f)
  <2> HIDE DEF f
  <2>1. ~new => DOMAIN f \cup {key} = DOMAIN f
    OBVIOUS
  <2> QED
    BY <1>3, <1>5, <2>1, FS_AddElement
<1>12. ASSUME ~full
       PROVE  StoreOk(g, w, ids)
  <2>1. Cardinality(DOMAIN f) \in Nat
    BY <1>3, FS_CardinalityType
  <2>2. Cardinality(DOMAIN g) <= MaxStoredEntries
    <3> HIDE DEF f, w
    <3> QED
      BY <1>2, <1>3, <1>11, <1>12, <2>1
  <2>3. w <= MaxStoredUnits
    <3>1. w \in Int
      <4>1. SumOf(ChargeOf(g), DOMAIN g) \in Nat
        <5>1. \A k \in DOMAIN g : ChargeOf(g)[k] \in Nat
          <6>1. ChargeOf(g)[key] \in Nat
            BY <1>2, <1>6, <1>7
          <6> QED
            BY <1>4, <1>5, <1>7, <6>1
        <5> QED
          BY <1>11, <5>1, SumType
      <4> HIDE DEF w
      <4> QED
        BY <1>10, <4>1
    <3>2. ~(w > MaxStoredUnits)
      BY <1>12
    <3> HIDE DEF w
    <3> QED
      BY <1>2, <3>1, <3>2
  <2>4. \A k \in DOMAIN g : KeyOk(k, ids)
    <3> HIDE DEF f
    <3> QED
      BY <1>3, <1>5
  <2> HIDE DEF f, w
  <2> QED
    BY <1>5, <1>10, <1>11, <2>2, <2>3, <2>4 DEF StoreOk
<1>13. CASE full
  <2> HIDE DEF full
  <2> QED
    BY <1>1, <1>13 DEF Unless, IsOk, Err, r
<1>14. CASE ~full
  <2>1. StoreOk(g, w, ids)
    BY <1>12, <1>14
  <2> HIDE DEF full, w, f
  <2>2. r = Ok([files |-> g, units |-> w])
    BY <1>1, <1>14 DEF Unless
  <2>3. r.value.files = g /\ r.value.units = w
    BY <2>2 DEF Ok
  <2>4. r = storeScopedText(store, key, text) /\ g = Put(f, key, text) /\ f = store.files
    BY DEF r, g, f
  <2> HIDE DEF g, r
  <2>5. IsOk(r) => r = Ok([files |-> Put(store.files, key, text), units |-> r.value.units])
                   /\ StoreOk(r.value.files, r.value.units, ids)
    BY <2>1, <2>2, <2>3, <2>4
  <2> QED
    BY <2>4, <2>5
<1> QED
  BY <1>13, <1>14

\* A store is one that a store is made of.
LEMMA StoreIs ==
  ASSUME NEW ids, NEW s \in Stores(ids)
  PROVE  s = [files |-> s.files, units |-> s.units] /\ StoreOk(s.files, s.units, ids)
BY DEF Stores

\* The empty store.
LEMMA EmptyStore ==
  ASSUME NEW ids
  PROVE  StoreOk(<<>>, 0, ids)
<1>1. DOMAIN <<>> = {} /\ <<>> \in [{} -> Seq(STRING)]
  OBVIOUS
<1>2. IsFiniteSet({}) /\ Cardinality({}) = 0
  BY FS_EmptySet
<1>3. SumOf(ChargeOf(<<>>), {}) = 0
  BY <1>2, SumEquation
<1>4. MaxStoredUnits \in Nat /\ MaxStoredEntries \in Nat
  BY GatewayAssumption DEF GatewayAssumption
<1> QED
  BY <1>1, <1>2, <1>3, <1>4 DEF StoreOk

\* The answer to a path that is resolved: a registered project and a path of its scope.
LEMMA Resolves ==
  ASSUME NEW id, NEW scope, NEW p, IsOk(resolveWorkflowPath(id, scope, p))
  PROVE  /\ id \in DOMAIN projects /\ IsOk(normalizeScopedPath(scope, p))
         /\ resolveWorkflowPath(id, scope, p) = normalizeScopedPath(scope, p)
<1>1. requireProject(id) = IF id \in DOMAIN projects THEN Ok(projects[id]) ELSE Err("ERR_INVALID_PATH")
  BY DEF requireProject
<1>2. resolveWorkflowPath(id, scope, p) =
        IF IsOk(requireProject(id)) THEN normalizeScopedPath(scope, p) ELSE requireProject(id)
  BY Zenon DEF resolveWorkflowPath, Then
<1>3. ~IsOk(Err("ERR_INVALID_PATH"))
  BY Outcomes
<1> QED
  BY <1>1, <1>2, <1>3

\* One seed leaves a store one, or is refused.
LEMMA SeedKeeps ==
  ASSUME NEW s \in Stores(DOMAIN projects), NEW seed \in GivenSeeds, IsOk(storeSeed(s, seed))
  PROVE  \E t \in Stores(DOMAIN projects) : storeSeed(s, seed) = Ok(t)
<1> DEFINE resolved == resolveWorkflowPath(seed.id, seed.scope, seed.path)
           key == scopedFileKey(seed.id, seed.scope, seed.path)
           r == storeScopedText(s, key, seed.text)
<1>1. storeSeed(s, seed) = IF IsOk(resolved) THEN r ELSE resolved
  BY Zenon DEF storeSeed, Then
<1>2. IsOk(resolved) /\ storeSeed(s, seed) = r
  <2> HIDE DEF resolved, r
  <2> QED
    BY <1>1
<1>3. seed.scope \in WorkflowScopes /\ seed.path \in ScopedPaths /\ seed.text \in Seq(STRING)
  BY DEF GivenSeeds
<1>4. seed.id \in DOMAIN projects /\ IsOk(normalizeScopedPath(seed.scope, seed.path))
  BY <1>2, Resolves
<1>5. KeyOk(key, DOMAIN projects)
  BY <1>3, <1>4 DEF KeyOk, scopedFileKey
<1>6. StoreOk(s.files, s.units, DOMAIN projects)
  BY StoreIs
<1> HIDE DEF key
<1>7. IsOk(r)
  BY <1>2
<1>8. r = Ok([files |-> Put(s.files, key, seed.text), units |-> r.value.units])
      /\ StoreOk(r.value.files, r.value.units, DOMAIN projects)
  BY <1>3, <1>5, <1>6, <1>7, StoreKeeps
<1> HIDE DEF r
<1>9. r.value.files = Put(s.files, key, seed.text) /\ r = Ok([files |-> r.value.files, units |-> r.value.units])
  BY <1>8 DEF Ok
<1>10. [files |-> r.value.files, units |-> r.value.units] \in Stores(DOMAIN projects)
  BY <1>8, StoreParts
<1> QED
  BY <1>2, <1>9, <1>10

\* The store that the seeds make, if all of them are taken.
LEMMA SeedsMakeStore ==
  ASSUME NEW seeds \in Seq(GivenSeeds), IsOk(seedStore(seeds))
  PROVE  \E t \in Stores(DOMAIN projects) : seedStore(seeds) = Ok(t)
<1> DEFINE P == Stores(DOMAIN projects)
           n == Len(seeds)
           base == [files |-> <<>>, units |-> 0]
           R == {storeSeed(s, seeds[i]) : s \in P, i \in 1 .. n}
           step == [i \in 1 .. n |-> [s \in P |-> storeSeed(s, seeds[i])]]
           Eq(h) == h = [i \in 0 .. Len(seeds) |->
                           IF i = 0 THEN Ok([files |-> <<>>, units |-> 0])
                           ELSE Then(h[i - 1], LAMBDA store : storeSeed(store, seeds[i]))]
           c == CHOOSE h : Eq(h)
<1>1. n \in Nat /\ \A i \in 1 .. n : seeds[i] \in GivenSeeds
  OBVIOUS
<1>2. base \in P
  BY EmptyStore, StoreParts
<1>3. \A r \in R : IsOk(r) => \E t \in P : r = Ok(t)
  BY <1>1, SeedKeeps
<1>4. step \in [1 .. n -> [P -> R]] /\ \A i \in 1 .. n : \A s \in P : step[i][s] = storeSeed(s, seeds[i])
  OBVIOUS
<1>5. \A h : Eq(h) <=> h = [i \in 0 .. n |->
                              IF i = 0 THEN Ok(base)
                              ELSE IF IsOk(h[i - 1]) THEN storeSeed(h[i - 1].value, seeds[i]) ELSE h[i - 1]]
  BY Zenon DEF Then
<1>6. seedStore(seeds) = c[n]
  BY Zenon DEF seedStore
<1>7. Folded(n, P, base, step)
  <2> HIDE DEF base, P, R, step, n
  <2>1. n \in Nat
    BY <1>1
  <2>2. step \in [1 .. n -> [P -> R]]
    BY <1>4
  <2> QED
    BY <1>2, <1>3, <2>1, <2>2, FoldExists
<1> HIDE DEF Eq, c, base, n, step, R, P
<1>8. PICK f : /\ f = [i \in 0 .. n |-> f[i]] /\ Folds(f, n, P, base, step)
               /\ \A i \in 0 .. n : IsOk(f[i]) => f[i].value \in P
  BY <1>7, Zenon DEF Folded
<1>9. Eq(f)
  <2>1. \A i \in 0 .. n : f[i] = IF i = 0 THEN Ok(base)
                                 ELSE IF IsOk(f[i - 1]) THEN storeSeed(f[i - 1].value, seeds[i]) ELSE f[i - 1]
    <3>1. f[0] = Ok(base)
      BY <1>8 DEF Folds
    <3>2. ASSUME NEW i \in 1 .. n
          PROVE  f[i] = IF IsOk(f[i - 1]) THEN storeSeed(f[i - 1].value, seeds[i]) ELSE f[i - 1]
      <4>1. i - 1 \in 0 .. n
        BY <1>1
      <4> QED
        BY <4>1, <1>4, <1>8 DEF Folds
    <3>3. \A i \in 0 .. n : i = 0 \/ i \in 1 .. n
      BY <1>1
    <3> QED
      BY <3>1, <3>2, <3>3
  <2>2. f = [i \in 0 .. n |-> IF i = 0 THEN Ok(base)
                              ELSE IF IsOk(f[i - 1]) THEN storeSeed(f[i - 1].value, seeds[i]) ELSE f[i - 1]]
    BY <1>8, <2>1
  <2> QED
    BY <1>5, <2>2, Zenon
<1>10. c = [i \in 0 .. n |-> IF i = 0 THEN Ok(base)
                             ELSE IF IsOk(c[i - 1]) THEN storeSeed(c[i - 1].value, seeds[i]) ELSE c[i - 1]]
  <2>1. Eq(c)
    BY <1>9, Zenon DEF c
  <2> QED
    BY <1>5, <2>1, Zenon
<1>11. Folds(c, n, P, base, step)
  <2>1. c[0] = Ok(base)
    BY <1>1, <1>10
  <2>2. ASSUME NEW i \in 1 .. n
        PROVE  c[i] = IF IsOk(c[i - 1]) THEN storeSeed(c[i - 1].value, seeds[i]) ELSE c[i - 1]
    BY <1>1, <1>10
  <2> QED
    BY <1>4, <2>1, <2>2 DEF Folds
<1>12. \A i \in 0 .. n : IsOk(c[i]) => \E p \in P : c[i] = Ok(p)
  BY <1>7, <1>11, Zenon DEF Folded
<1>13. IsOk(c[n]) => \E p \in P : c[n] = Ok(p)
  BY <1>1, <1>12
<1> QED
  BY <1>6, <1>13 DEF P

-----------------------------------------------------------------------------
(* The broker.                                                               *)

Clients == Seq(STRING \cup {"gateway", "default"})
KeptAliases == [client : Clients, kind : HostKinds, hostRoot : Seq(STRING), opts : NativeOptions]
ReadAliases == [client : Clients, kind : HostKinds, hostRoot : Seq(STRING), opts : NativeOptions \cup {NoOptions}]
ProjectRecords ==
  [root : Seq(Symbols), opts : NativeOptions, hostRoot : Seq(STRING), aliases : Seq(KeptAliases)]

\* An absolute root in canonical form.
Anchored(r) ==
  \E kind, prefix : \E kept \in Seq(NamesOf(kind)) :
    kind # "relative" /\ RootAt(kind, prefix) /\ r = Whole(kind, prefix, kept)

\* What is so of every record, finished or not.
Bound(p) ==
  /\ p \in ProjectRecords /\ Anchored(p.root)
  /\ \A i, j \in 1 .. Len(p.aliases) : i # j => p.aliases[i].client # p.aliases[j].client
  /\ \A i \in 1 .. Len(p.aliases) : normalizeProjectRoot(p.aliases[i].hostRoot, p.aliases[i].opts) = Ok(p.root)

\* A native root given with the registration is that of an alias.
HostKnown(p) ==
  p.hostRoot # Undefined => \E i \in 1 .. Len(p.aliases) : p.aliases[i].hostRoot = p.hostRoot

LEMMA StringsAreSymbols ==
  STRING \subseteq Symbols /\ Seq(STRING) \subseteq Seq(Symbols)
<1>1. STRING \subseteq Symbols
  BY DEF Symbols
<1> HIDE DEF Symbols
<1> QED
  BY <1>1, SeqMonotonic

\* A native text that is taken as the root of a project has a canonical
\* absolute identity, the one that normalize returns.
LEMMA ProjectRootGives ==
  ASSUME NEW text \in Seq(STRING), NEW o \in NativeOptions, IsOk(normalizeProjectRoot(text, o))
  PROVE  \E r : normalizeProjectRoot(text, o) = Ok(r) /\ Normalize(text, o) = Ok(r) /\ Anchored(r) /\ r \in Seq(Symbols)
<1>1. text \in Seq(Symbols) /\ o.mountRoot \in Seq(Symbols) /\ o.trimOuterWhitespace \in BOOLEAN
  BY StringsAreSymbols DEF NativeOptions
<1> DEFINE n == Normalize(text, o)
           v == ValidateCanonical(n.value, FALSE)
<1>2. normalizeProjectRoot(text, o) =
        IF IsOk(n)
        THEN IF IsOk(v) THEN Unless(v.value.kind = "relative", "ERR_INVALID_PATH", Ok(n.value)) ELSE v
        ELSE n
  BY Zenon DEF normalizeProjectRoot, Then
<1>3. IsOk(n)
  <2> HIDE DEF n, v
  <2> QED
    BY <1>2
<1>4. PICK kind, prefix, kept : Made(kind, prefix, kept, o) /\ n = Ok(Whole(kind, prefix, kept))
  BY <1>1, <1>3, NormalizeGives
<1> DEFINE r == Whole(kind, prefix, kept)
<1>5. RootAt(kind, prefix) /\ kept \in Seq(NamesOf(kind))
  BY <1>4 DEF Made
<1>6. n.value = r
  BY <1>4, Outcomes
<1>7. v = Ok(Root(kind, prefix, RestOf(kind, prefix, kept)))
  <2>1. ValidateCanonical(r, FALSE) = Ok(Root(kind, prefix, RestOf(kind, prefix, kept)))
    BY <1>5, WholeIsCanonical
  <2> QED
    BY <1>6, <2>1, Zenon
<1>8. IsOk(v) /\ v.value.kind = kind
  <2> HIDE DEF v
  <2> QED
    BY <1>7, Outcomes
<1>9. r \in Seq(Symbols)
  BY <1>5, WholeText
<1> HIDE DEF n, v, r
<1>10. kind # "relative"
  BY <1>2, <1>3, <1>8, Outcomes DEF Unless
<1>11. normalizeProjectRoot(text, o) = Ok(r)
  BY <1>2, <1>3, <1>6, <1>8, <1>10 DEF Unless
<1>12. Anchored(r)
  BY <1>5, <1>10 DEF Anchored, r
<1>13. Normalize(text, o) = Ok(r)
  BY <1>4 DEF n, r
<1> QED
  BY <1>9, <1>11, <1>12, <1>13

\* The options an alias is read with are options.
LEMMA AliasOptionsGive ==
  ASSUME NEW alias \in ReadAliases, NEW inherited \in NativeOptions, IsOk(nativeAliasOptions(alias, inherited))
  PROVE  \E o \in NativeOptions : nativeAliasOptions(alias, inherited) = Ok(o)
<1> DEFINE kind == AliasKind(alias, inherited)
           base == CASE alias.opts # NoOptions -> alias.opts
                     [] alias.opts = NoOptions /\ inherited.sourceHost = kind -> inherited
                     [] OTHER -> DefaultOptions
           bad == \/ kind \notin NativeHosts
                  \/ alias.opts.sourceHost \notin {"undefined", kind}
                  \/ base.trimOuterWhitespace
                  \/ kind = "wsl" /\ ~base.wslEnabled
           o == [base EXCEPT !.sourceHost = kind]
<1>1. nativeAliasOptions(alias, inherited) = Unless(bad, "ERR_INVALID_PATH", Ok(o))
  BY Zenon DEF nativeAliasOptions
<1>2. kind \in HostKinds
  <2>1. alias.kind \in HostKinds /\ alias.opts.sourceHost \in HostKinds /\ inherited.sourceHost \in HostKinds
    <3>1. alias.kind \in HostKinds /\ alias.opts \in NativeOptions \cup {NoOptions}
      BY DEF ReadAliases
    <3>2. \A x \in NativeOptions : x.sourceHost \in HostKinds
      BY DEF NativeOptions
    <3>3. NoOptions.sourceHost \in HostKinds
      BY DEF NoOptions, HostKinds
    <3> QED
      BY <3>1, <3>2, <3>3
  <2>2. "posix" \in HostKinds
    BY DEF HostKinds
  <2>3. kind = IF alias.kind # "undefined" THEN alias.kind
               ELSE IF alias.opts.sourceHost # "undefined" THEN alias.opts.sourceHost
               ELSE IF inherited.sourceHost \in NativeHosts THEN inherited.sourceHost ELSE "posix"
    BY Zenon DEF AliasKind
  <2> HIDE DEF kind
  <2> QED
    BY <2>1, <2>2, <2>3
<1>3. DefaultOptions \in NativeOptions
  <2>1. "posix" \in HostKinds /\ <<>> \in Seq(STRING)
    BY DEF HostKinds
  <2> QED
    BY <2>1 DEF DefaultOptions, NativeOptions
<1>4. base \in NativeOptions
  <2>1. alias.opts # NoOptions => alias.opts \in NativeOptions
    BY DEF ReadAliases
  <2> HIDE DEF kind
  <2> QED
    BY <2>1, <1>3
<1>5. o \in NativeOptions
  <2> HIDE DEF base, kind
  <2> QED
    BY <1>2, <1>4 DEF NativeOptions
<1>6. ~bad
  <2> HIDE DEF bad, o
  <2> QED
    BY <1>1, Outcomes DEF Unless
<1> HIDE DEF bad, o
<1> QED
  BY <1>1, <1>5, <1>6 DEF Unless

\* What is made of an alias that is taken: its text reads as the project's root.
LEMMA AliasMade ==
  ASSUME NEW p \in ProjectRecords, NEW alias \in ReadAliases, IsOk(createPathAlias(p, alias))
  PROVE  \E created \in KeptAliases :
           /\ createPathAlias(p, alias) = Ok(created) /\ created.hostRoot = alias.hostRoot
           /\ normalizeProjectRoot(created.hostRoot, created.opts) = Ok(p.root)
<1> DEFINE strings == assertAliasStrings(alias)
           given == strings.value
           chosen == nativeAliasOptions(given, p.opts)
           o == chosen.value
           native == IF o.sourceHost = "win32" THEN Slashed(alias.hostRoot) ELSE alias.hostRoot
           dots == ToSet(Split(native)) \cap {<<".">>, <<".", ".">>} # {}
           bad == ~IsAbsoluteNative(native, o.sourceHost) \/ dots
           identity == normalizeProjectRoot(alias.hostRoot, o)
           made == [client |-> alias.client, kind |-> o.sourceHost, hostRoot |-> alias.hostRoot, opts |-> o]
           last1 == IF IsOk(identity) THEN Unless(identity.value # p.root, "ERR_INVALID_PATH", Ok(made)) ELSE identity
<1>1. createPathAlias(p, alias) =
        IF IsOk(strings) THEN IF IsOk(chosen) THEN Unless(bad, "ERR_INVALID_PATH", last1) ELSE chosen ELSE strings
  BY Zenon DEF createPathAlias, Then
<1>2. IsOk(strings) => given = alias
  <2> DEFINE marks == {i \in DOMAIN alias.client : alias.client[i] \in {"", NUL}}
             nul == Err(IF alias.client[Min(marks)] = "" THEN "ERR_INVALID_PATH" ELSE "ERR_NUL_BYTE")
  <2>1. strings = IF marks # {} THEN nul
                  ELSE Unless(alias.hostRoot = <<>>, "ERR_INVALID_PATH",
                              Unless(Has(alias.hostRoot, NUL), "ERR_NUL_BYTE", Ok(alias)))
    BY Zenon DEF assertAliasStrings
  <2>2. ~IsOk(nul)
    BY Outcomes
  <2> HIDE DEF marks, nul, strings
  <2>3. IsOk(strings) => strings = Ok(alias)
    BY <2>1, <2>2, Outcomes DEF Unless
  <2> QED
    BY <2>3, Outcomes
<1>3. IsOk(strings) /\ IsOk(chosen) /\ ~bad /\ IsOk(last1) /\ createPathAlias(p, alias) = last1
  <2> HIDE DEF strings, chosen, bad, last1
  <2> QED
    BY <1>1, Outcomes DEF Unless
<1>4. p.opts \in NativeOptions
  BY DEF ProjectRecords
<1>5. o \in NativeOptions
  <2>1. given = alias
    BY <1>2, <1>3
  <2>2. IsOk(nativeAliasOptions(alias, p.opts)) /\ chosen = nativeAliasOptions(alias, p.opts)
    BY <1>3, <2>1
  <2> HIDE DEF chosen
  <2>3. \E x \in NativeOptions : chosen = Ok(x)
    BY <1>4, <2>2, AliasOptionsGive
  <2> QED
    BY <2>3, Outcomes
<1> HIDE DEF strings, given, chosen, o, bad
<1>6. last1 = Ok(made) /\ identity.value = p.root /\ IsOk(identity)
  <2> HIDE DEF identity, made
  <2> QED
    BY <1>3, Outcomes DEF Unless
<1>7. alias.hostRoot \in Seq(STRING) /\ alias.client \in Clients
  BY DEF ReadAliases
<1>8. identity = Ok(p.root)
  <2>1. PICK r : identity = Ok(r)
    BY <1>5, <1>6, <1>7, ProjectRootGives
  <2> HIDE DEF identity
  <2> QED
    BY <1>6, <2>1, Outcomes
<1>9. made \in KeptAliases
  <2>1. o.sourceHost \in HostKinds
    BY <1>5 DEF NativeOptions
  <2> QED
    BY <1>5, <1>7, <2>1 DEF KeptAliases
<1>10. made.hostRoot = alias.hostRoot /\ made.opts = o
  OBVIOUS
<1> HIDE DEF made, last1
<1> QED
  BY <1>3, <1>6, <1>8, <1>9, <1>10

\* An alias that is added keeps what is so of a record.
LEMMA AddedBound ==
  ASSUME NEW p, Bound(p), NEW alias \in ReadAliases, IsOk(addPathAlias(p, alias))
  PROVE  \E q : /\ addPathAlias(p, alias) = Ok(q) /\ Bound(q) /\ q.root = p.root /\ q.hostRoot = p.hostRoot
                /\ Len(q.aliases) = Len(p.aliases) + 1
                /\ \A i \in 1 .. Len(p.aliases) : q.aliases[i] = p.aliases[i]
                /\ q.aliases[Len(q.aliases)].hostRoot = alias.hostRoot
<1> DEFINE made == createPathAlias(p, alias)
           a == made.value
           taken == \E i \in DOMAIN p.aliases : pathAliasKey(p.aliases[i]) = pathAliasKey(a)
           q == [p EXCEPT !.aliases = Append(@, a)]
           n == Len(p.aliases)
<1>1. addPathAlias(p, alias) = IF IsOk(made) THEN Unless(taken, "ERR_INVALID_PATH", Ok(q)) ELSE made
  BY Zenon DEF addPathAlias, Then
<1>2. p \in ProjectRecords
  BY DEF Bound
<1>3. IsOk(made) /\ ~taken /\ addPathAlias(p, alias) = Ok(q)
  <2> HIDE DEF made, taken, q
  <2> QED
    BY <1>1, Outcomes DEF Unless
<1>4. a \in KeptAliases /\ a.hostRoot = alias.hostRoot /\ normalizeProjectRoot(a.hostRoot, a.opts) = Ok(p.root)
  <2>1. PICK created \in KeptAliases :
          /\ made = Ok(created) /\ created.hostRoot = alias.hostRoot
          /\ normalizeProjectRoot(created.hostRoot, created.opts) = Ok(p.root)
    BY <1>2, <1>3, AliasMade
  <2>2. a = created
    BY <2>1, Outcomes
  <2> HIDE DEF a, made
  <2> QED
    BY <2>1, <2>2
<1> HIDE DEF made, a
<1>5. p.aliases \in Seq(KeptAliases) /\ n \in Nat /\ DOMAIN p.aliases = 1 .. n
  BY <1>2 DEF ProjectRecords
<1>6. q \in ProjectRecords /\ q.root = p.root /\ q.hostRoot = p.hostRoot /\ q.aliases = Append(p.aliases, a)
  <2>1. Append(p.aliases, a) \in Seq(KeptAliases)
    BY <1>4, <1>5
  <2> QED
    BY <1>2, <2>1 DEF ProjectRecords
<1> HIDE DEF q
<1>7. /\ Len(q.aliases) = n + 1 /\ q.aliases[n + 1] = a
      /\ \A i \in 1 .. n : q.aliases[i] = p.aliases[i]
  BY <1>4, <1>5, <1>6
<1>8. \A i \in 1 .. n : p.aliases[i].client # a.client
  BY <1>3, <1>5 DEF pathAliasKey
<1>9. /\ Anchored(p.root)
      /\ \A i, j \in 1 .. n : i # j => p.aliases[i].client # p.aliases[j].client
      /\ \A i \in 1 .. n : normalizeProjectRoot(p.aliases[i].hostRoot, p.aliases[i].opts) = Ok(p.root)
  BY DEF Bound
<1>10. \A i \in 1 .. n + 1 : i = n + 1 \/ i \in 1 .. n
  BY <1>5
<1>11. \A i, j \in 1 .. Len(q.aliases) : i # j => q.aliases[i].client # q.aliases[j].client
  <2> HIDE DEF n
  <2> SUFFICES ASSUME NEW i \in 1 .. n + 1, NEW j \in 1 .. n + 1, i # j
               PROVE  q.aliases[i].client # q.aliases[j].client
    BY <1>7
  <2>1. CASE i = n + 1
    <3>1. j \in 1 .. n
      BY <1>10, <2>1
    <3> QED
      BY <2>1, <3>1, <1>7, <1>8
  <2>2. CASE j = n + 1
    <3>1. i \in 1 .. n
      BY <1>10, <2>2
    <3> QED
      BY <2>2, <3>1, <1>7, <1>8
  <2>3. CASE i \in 1 .. n /\ j \in 1 .. n
    BY <2>3, <1>7, <1>9
  <2> QED
    BY <2>1, <2>2, <2>3, <1>10
<1>12. \A i \in 1 .. Len(q.aliases) : normalizeProjectRoot(q.aliases[i].hostRoot, q.aliases[i].opts) = Ok(q.root)
  <2> HIDE DEF n
  <2> QED
    BY <1>4, <1>6, <1>7, <1>9, <1>10
<1>13. Bound(q)
  BY <1>6, <1>9, <1>11, <1>12 DEF Bound
<1>14. q.aliases[Len(q.aliases)].hostRoot = alias.hostRoot
  <2> HIDE DEF n
  <2> QED
    BY <1>4, <1>7
<1> QED
  BY <1>3, <1>6, <1>7, <1>13, <1>14

\* A record that all aliases were added to is sound, and its first alias is
\* made of the first one given.
LEMMA AllBound ==
  ASSUME NEW p, Bound(p), p.aliases = <<>>, NEW aliases \in Seq(ReadAliases), IsOk(AllAliases(p, aliases))
  PROVE  \E q : /\ AllAliases(p, aliases) = Ok(q) /\ Bound(q) /\ q.hostRoot = p.hostRoot
                /\ aliases # <<>> => 1 \in 1 .. Len(q.aliases) /\ q.aliases[1].hostRoot = aliases[1].hostRoot
<1> DEFINE P == {q \in ProjectRecords : Bound(q) /\ q.hostRoot = p.hostRoot}
           n == Len(aliases)
           R == {addPathAlias(q, aliases[i]) : q \in P, i \in 1 .. n}
           step == [i \in 1 .. n |-> [q \in P |-> addPathAlias(q, aliases[i])]]
           Eq(h) == h = [i \in 0 .. Len(aliases) |->
                           IF i = 0 THEN Ok(p) ELSE Then(h[i - 1], LAMBDA q : addPathAlias(q, aliases[i]))]
           c == CHOOSE h : Eq(h)
<1>1. n \in Nat /\ \A i \in 1 .. n : aliases[i] \in ReadAliases
  OBVIOUS
<1>2. p \in P
  BY DEF Bound
<1>3. \A r \in R : IsOk(r) => \E q \in P : r = Ok(q)
  <2> SUFFICES ASSUME NEW q \in P, NEW i \in 1 .. n, IsOk(addPathAlias(q, aliases[i]))
               PROVE  \E t \in P : addPathAlias(q, aliases[i]) = Ok(t)
    OBVIOUS
  <2>1. PICK t : addPathAlias(q, aliases[i]) = Ok(t) /\ Bound(t) /\ t.hostRoot = q.hostRoot
    BY <1>1, AddedBound
  <2>2. t \in P
    BY <2>1 DEF Bound
  <2> QED
    BY <2>1, <2>2
<1>4. step \in [1 .. n -> [P -> R]] /\ \A i \in 1 .. n : \A q \in P : step[i][q] = addPathAlias(q, aliases[i])
  OBVIOUS
<1>5. \A h : Eq(h) <=> h = [i \in 0 .. n |->
                              IF i = 0 THEN Ok(p)
                              ELSE IF IsOk(h[i - 1]) THEN addPathAlias(h[i - 1].value, aliases[i]) ELSE h[i - 1]]
  BY Zenon DEF Then
<1>6. AllAliases(p, aliases) = c[n]
  BY Zenon DEF AllAliases
<1>7. Folded(n, P, p, step)
  <2> HIDE DEF P, R, step, n
  <2>1. n \in Nat
    BY <1>1
  <2>2. step \in [1 .. n -> [P -> R]]
    BY <1>4
  <2> QED
    BY <1>2, <1>3, <2>1, <2>2, FoldExists
<1> HIDE DEF Eq, c, n, step, R, P
<1>8. PICK f : /\ f = [i \in 0 .. n |-> f[i]] /\ Folds(f, n, P, p, step)
               /\ \A i \in 0 .. n : IsOk(f[i]) => f[i].value \in P
  BY <1>7, Zenon DEF Folded
<1>9. Eq(f)
  <2>1. \A i \in 0 .. n : f[i] = IF i = 0 THEN Ok(p)
                                 ELSE IF IsOk(f[i - 1]) THEN addPathAlias(f[i - 1].value, aliases[i]) ELSE f[i - 1]
    <3>1. f[0] = Ok(p)
      BY <1>8 DEF Folds
    <3>2. ASSUME NEW i \in 1 .. n
          PROVE  f[i] = IF IsOk(f[i - 1]) THEN addPathAlias(f[i - 1].value, aliases[i]) ELSE f[i - 1]
      <4>1. i - 1 \in 0 .. n
        BY <1>1
      <4> QED
        BY <4>1, <1>4, <1>8 DEF Folds
    <3>3. \A i \in 0 .. n : i = 0 \/ i \in 1 .. n
      BY <1>1
    <3> QED
      BY <3>1, <3>2, <3>3
  <2>2. f = [i \in 0 .. n |-> IF i = 0 THEN Ok(p)
                              ELSE IF IsOk(f[i - 1]) THEN addPathAlias(f[i - 1].value, aliases[i]) ELSE f[i - 1]]
    BY <1>8, <2>1
  <2> QED
    BY <1>5, <2>2, Zenon
<1>10. c = [i \in 0 .. n |-> IF i = 0 THEN Ok(p)
                             ELSE IF IsOk(c[i - 1]) THEN addPathAlias(c[i - 1].value, aliases[i]) ELSE c[i - 1]]
  <2>1. Eq(c)
    BY <1>9, Zenon DEF c
  <2> QED
    BY <1>5, <2>1, Zenon
<1>11. c[0] = Ok(p) /\ \A i \in 1 .. n :
         c[i] = IF IsOk(c[i - 1]) THEN addPathAlias(c[i - 1].value, aliases[i]) ELSE c[i - 1]
  <2>1. c[0] = Ok(p)
    BY <1>1, <1>10
  <2>2. ASSUME NEW i \in 1 .. n
        PROVE  c[i] = IF IsOk(c[i - 1]) THEN addPathAlias(c[i - 1].value, aliases[i]) ELSE c[i - 1]
    BY <1>1, <1>10
  <2> QED
    BY <2>1, <2>2
<1>12. \A i \in 0 .. n : IsOk(c[i]) => \E q \in P : c[i] = Ok(q)
  <2>1. Folds(c, n, P, p, step)
    BY <1>4, <1>11 DEF Folds
  <2> QED
    BY <1>7, <2>1, Zenon DEF Folded
<1> DEFINE G == {i \in 0 .. n : i >= 1 /\ IsOk(c[i]) =>
                   1 \in 1 .. Len(c[i].value.aliases) /\ c[i].value.aliases[1].hostRoot = aliases[1].hostRoot}
<1>13. ASSUME NEW i \in 1 .. n, i - 1 \in G PROVE i \in G
  <2> SUFFICES ASSUME IsOk(c[i])
               PROVE  1 \in 1 .. Len(c[i].value.aliases) /\ c[i].value.aliases[1].hostRoot = aliases[1].hostRoot
    BY <1>1
  <2>1. IsOk(c[i - 1])
    BY <1>11
  <2>2. PICK q \in P : c[i - 1] = Ok(q)
    <3>1. i - 1 \in 0 .. n
      BY <1>1
    <3> QED
      BY <1>12, <2>1, <3>1
  <2>3. Bound(q) /\ q.aliases \in Seq(KeptAliases)
    BY DEF P, ProjectRecords
  <2>4. c[i] = addPathAlias(q, aliases[i]) /\ aliases[i] \in ReadAliases
    BY <1>1, <1>11, <2>1, <2>2, Outcomes
  <2>5. PICK t : /\ c[i] = Ok(t) /\ Len(t.aliases) = Len(q.aliases) + 1
                 /\ \A j \in 1 .. Len(q.aliases) : t.aliases[j] = q.aliases[j]
                 /\ t.aliases[Len(t.aliases)].hostRoot = aliases[i].hostRoot
    <3>1. IsOk(addPathAlias(q, aliases[i]))
      BY <2>4
    <3>2. \E t : /\ addPathAlias(q, aliases[i]) = Ok(t) /\ Bound(t) /\ t.root = q.root /\ t.hostRoot = q.hostRoot
                 /\ Len(t.aliases) = Len(q.aliases) + 1
                 /\ \A j \in 1 .. Len(q.aliases) : t.aliases[j] = q.aliases[j]
                 /\ t.aliases[Len(t.aliases)].hostRoot = aliases[i].hostRoot
      BY <2>3, <2>4, <3>1, AddedBound
    <3> QED
      BY <2>4, <3>2
  <2>6. c[i].value = t /\ Len(q.aliases) \in Nat
    BY <2>3, <2>5, Outcomes
  <2>7. 1 \in 1 .. Len(t.aliases)
    BY <2>5, <2>6
  <2>8. CASE i = 1
    <3>1. q.aliases = <<>>
      BY <1>11, <2>2, <2>8, Outcomes
    <3> QED
      BY <2>5, <2>6, <2>7, <2>8, <3>1
  <2>9. CASE i # 1
    <3>1. 1 \in 1 .. Len(q.aliases) /\ q.aliases[1].hostRoot = aliases[1].hostRoot
      <4>1. i - 1 \in G /\ i - 1 >= 1 /\ c[i - 1].value = q
        BY <1>13, <2>2, <2>9, Outcomes
      <4> QED
        BY <4>1, <2>1
    <3> QED
      BY <2>5, <2>6, <2>7, <3>1
  <2> QED
    BY <2>8, <2>9
<1>14. \A i \in 0 .. n : i \in G
  <2>1. 0 \in G
    BY <1>1
  <2>2. \A i \in 1 .. n : i - 1 \in G => i \in G
    BY <1>13
  <2> HIDE DEF G
  <2> QED
    BY <1>1, <2>1, <2>2, UpTo
<1>15. IsOk(c[n]) /\ n \in 0 .. n
  BY <1>1, <1>6
<1>16. PICK q \in P : c[n] = Ok(q)
  BY <1>12, <1>15
<1>17. aliases # <<>> => n >= 1
  BY DEF n
<1>18. aliases # <<>> => 1 \in 1 .. Len(q.aliases) /\ q.aliases[1].hostRoot = aliases[1].hostRoot
  <2>1. c[n].value = q
    BY <1>16, Outcomes
  <2>2. n \in G
    BY <1>14, <1>15
  <2> QED
    BY <1>15, <1>17, <2>1, <2>2
<1>19. Bound(q) /\ q.hostRoot = p.hostRoot
  BY DEF P
<1> QED
  BY <1>6, <1>16, <1>18, <1>19

\* A registration that is taken makes a sound record.
LEMMA RecordBound ==
  ASSUME NEW reg \in GivenProjects, IsOk(ProjectRecord(reg))
  PROVE  \E q : ProjectRecord(reg) = Ok(q) /\ Bound(q) /\ HostKnown(q)
<1> DEFINE o == ProjectOptions(reg)
           identity == normalizeProjectRoot(reg.root, o)
           p == NewRecord(reg, identity.value)
           first == IF reg.hostRoot = Undefined THEN <<>> ELSE <<DefaultAlias(reg)>>
           list == first \o reg.aliases
           bad == reg.hostRoot # Undefined /\ o.sourceHost \notin NativeHosts
           all == AllAliases(p, list)
<1>1. ProjectRecord(reg) =
        Unless(reg.id = "", "ERR_INVALID_PATH",
          Unless(reg.id = NUL, "ERR_NUL_BYTE",
            IF IsOk(identity) THEN Unless(bad, "ERR_INVALID_PATH", all) ELSE identity))
  BY Zenon DEF ProjectRecord, Then
<1>2. IsOk(identity) /\ IsOk(all) /\ ProjectRecord(reg) = all
  <2> HIDE DEF identity, bad, all
  <2> QED
    BY <1>1, Outcomes DEF Unless
<1>3. reg.root \in Seq(STRING) /\ o \in NativeOptions /\ reg.hostRoot \in Seq(STRING) /\ reg.aliases \in Seq(GivenAliases)
  <2>1. reg.opts \in NativeOptions
    BY DEF GivenProjects
  <2>2. o \in NativeOptions
    BY <2>1 DEF ProjectOptions, NativeOptions, HostKinds
  <2> QED
    BY <2>2 DEF GivenProjects
<1>4. Anchored(identity.value) /\ identity.value \in Seq(Symbols)
  <2>1. PICK r : identity = Ok(r) /\ Anchored(r) /\ r \in Seq(Symbols)
    BY <1>2, <1>3, ProjectRootGives
  <2>2. identity.value = r
    BY <2>1, Outcomes
  <2> HIDE DEF identity
  <2> QED
    BY <2>1, <2>2
<1> HIDE DEF identity
<1>5. p \in ProjectRecords /\ p.root = identity.value /\ p.aliases = <<>> /\ p.hostRoot = reg.hostRoot
  BY <1>3, <1>4 DEF NewRecord, ProjectRecords
<1> HIDE DEF p
<1>6. Bound(p)
  BY <1>4, <1>5 DEF Bound
<1>7. GivenAliases \subseteq ReadAliases
  <2>1. Seq(STRING) \subseteq Clients
    BY SeqMonotonic DEF Clients
  <2> QED
    BY <2>1 DEF GivenAliases, ReadAliases
<1>8. DefaultAlias(reg) \in ReadAliases /\ DefaultAlias(reg).hostRoot = reg.hostRoot
  <2>1. <<"gateway", "default", "default">> \in Clients
    BY DEF Clients
  <2>2. o.sourceHost \in HostKinds
    BY <1>3 DEF NativeOptions
  <2> HIDE DEF Clients
  <2> QED
    BY <1>3, <2>1, <2>2 DEF DefaultAlias, ReadAliases
<1>9. reg.aliases \in Seq(ReadAliases) /\ first \in Seq(ReadAliases)
  BY <1>3, <1>7, <1>8, SeqMonotonic
<1>10. list \in Seq(ReadAliases)
  <2> HIDE DEF first
  <2> QED
    BY <1>9
<1>11. reg.hostRoot # Undefined => list # <<>> /\ list[1] = DefaultAlias(reg)
  <2>1. reg.hostRoot # Undefined => list = <<DefaultAlias(reg)>> \o reg.aliases
    BY Zenon
  <2>2. (<<DefaultAlias(reg)>> \o reg.aliases) # <<>> /\ (<<DefaultAlias(reg)>> \o reg.aliases)[1] = DefaultAlias(reg)
    BY <1>8, <1>9
  <2> HIDE DEF list
  <2> QED
    BY <2>1, <2>2
<1> HIDE DEF first, list
<1>12. PICK q : /\ all = Ok(q) /\ Bound(q) /\ q.hostRoot = p.hostRoot
                /\ list # <<>> => 1 \in 1 .. Len(q.aliases) /\ q.aliases[1].hostRoot = list[1].hostRoot
  BY <1>2, <1>5, <1>6, <1>10, AllBound
<1>13. HostKnown(q)
  BY <1>5, <1>8, <1>11, <1>12 DEF HostKnown
<1> QED
  BY <1>2, <1>12, <1>13

-----------------------------------------------------------------------------
(* The inductive invariant of the broker and the store.                      *)

\* Every record is sound, and the books of the store are exact.
KeptOk ==
  /\ projects \in [DOMAIN projects -> ProjectRecords]
  /\ \A id \in DOMAIN projects : Bound(projects[id]) /\ HostKnown(projects[id])
  /\ bridge \in BOOLEAN
  /\ StoreOk(files, units, DOMAIN projects)

\* A call that keeps everything.
Kept == UNCHANGED <<projects, bridge, files, units>>

LEMMA KeptKeeps ==
  KeptOk /\ Kept => KeptOk'
BY DEF KeptOk, Kept

\* The store stays exact when projects are added.
LEMMA MoreProjects ==
  ASSUME NEW f, NEW u, NEW ids, NEW more, StoreOk(f, u, ids), ids \subseteq more
  PROVE  StoreOk(f, u, more)
BY DEF StoreOk, KeyOk

LEMMA InitKeeps ==
  GatewayInit => KeptOk
<1> SUFFICES ASSUME GatewayInit PROVE KeptOk
  OBVIOUS
<1>1. projects = <<>> /\ bridge = FALSE /\ files = <<>> /\ units = 0
  BY DEF GatewayInit
<1>2. DOMAIN <<>> = {} /\ <<>> \in [{} -> ProjectRecords]
  OBVIOUS
<1>3. StoreOk(<<>>, 0, DOMAIN projects)
  BY EmptyStore
<1> QED
  BY <1>1, <1>2, <1>3 DEF KeptOk

LEMMA RegisterKeeps ==
  ASSUME KeptOk, NEW reg \in Registrations, RegisterProject(reg)
  PROVE  KeptOk' /\ (answer'.code # "ok" => Kept)
<1> DEFINE record == ProjectRecord(reg)
<1>1. /\ projects' = IF IsOk(record) THEN Put(projects, reg.id, record.value) ELSE projects
      /\ answer'.code = record.code
      /\ bridge' = bridge /\ files' = files /\ units' = units
  BY DEF RegisterProject, Answers
<1>2. reg \in GivenProjects
  BY GatewayAssumption DEF GatewayAssumption
<1> HIDE DEF record
<1>3. CASE ~IsOk(record)
  <2>1. Kept
    BY <1>1, <1>3 DEF Kept
  <2> QED
    BY <2>1, KeptKeeps
<1>4. CASE IsOk(record)
  <2>1. PICK q : record = Ok(q) /\ Bound(q) /\ HostKnown(q)
    BY <1>2, <1>4, RecordBound DEF record
  <2>2. record.value = q
    BY <2>1, Outcomes
  <2>3. projects' = Put(projects, reg.id, q)
    BY <1>1, <1>4, <2>2
  <2>4. q \in ProjectRecords
    BY <2>1 DEF Bound
  <2>5. /\ DOMAIN projects' = DOMAIN projects \cup {reg.id}
        /\ projects' \in [DOMAIN projects' -> ProjectRecords]
        /\ \A id \in DOMAIN projects' : projects'[id] = IF id = reg.id THEN q ELSE projects[id]
    BY <2>3, <2>4 DEF Put, KeptOk
  <2>6. \A id \in DOMAIN projects' : Bound(projects'[id]) /\ HostKnown(projects'[id])
    BY <2>1, <2>5 DEF KeptOk
  <2>7. StoreOk(files, units, DOMAIN projects')
    BY <2>5, MoreProjects DEF KeptOk
  <2>8. answer'.code = "ok"
    BY <1>1, <2>1, Outcomes DEF IsOk
  <2> QED
    BY <1>1, <2>5, <2>6, <2>7, <2>8 DEF KeptOk
<1> QED
  BY <1>3, <1>4

LEMMA RegisterAliasKeeps ==
  ASSUME KeptOk, NEW id \in Projects, NEW alias \in AliasRegistrations, RegisterPathAlias(id, alias)
  PROVE  KeptOk' /\ (answer'.code # "ok" => Kept)
<1> DEFINE known == requireProject(id)
           added == Then(known, LAMBDA project : addPathAlias(project, alias))
<1>1. /\ projects' = IF IsOk(added) THEN [projects EXCEPT ![id] = added.value] ELSE projects
      /\ answer'.code = added.code
      /\ bridge' = bridge /\ files' = files /\ units' = units
  BY DEF RegisterPathAlias, Answers
<1>2. added = IF IsOk(known) THEN addPathAlias(known.value, alias) ELSE known
  BY Zenon DEF Then
<1>3. alias \in ReadAliases
  <2>1. alias \in GivenAliases
    BY GatewayAssumption DEF GatewayAssumption
  <2>2. Seq(STRING) \subseteq Clients
    BY SeqMonotonic DEF Clients
  <2> QED
    BY <2>1, <2>2 DEF GivenAliases, ReadAliases
<1>4. known = IF id \in DOMAIN projects THEN Ok(projects[id]) ELSE Err("ERR_INVALID_PATH")
  BY DEF requireProject
<1> HIDE DEF known, added
<1>5. CASE ~IsOk(added)
  <2>1. Kept
    BY <1>1, <1>5 DEF Kept
  <2> QED
    BY <2>1, KeptKeeps
<1>6. CASE IsOk(added)
  <2>1. id \in DOMAIN projects /\ known.value = projects[id] /\ added = addPathAlias(projects[id], alias)
    BY <1>2, <1>4, <1>6, Outcomes
  <2>2. Bound(projects[id]) /\ HostKnown(projects[id])
    BY <2>1 DEF KeptOk
  <2>3. PICK q : /\ added = Ok(q) /\ Bound(q) /\ q.hostRoot = projects[id].hostRoot
                 /\ Len(q.aliases) = Len(projects[id].aliases) + 1
                 /\ \A i \in 1 .. Len(projects[id].aliases) : q.aliases[i] = projects[id].aliases[i]
    <3>1. IsOk(addPathAlias(projects[id], alias))
      BY <1>6, <2>1
    <3> QED
      BY <1>3, <2>1, <2>2, <3>1, AddedBound
  <2>4. HostKnown(q)
    <3>1. Len(projects[id].aliases) \in Nat
      BY <2>2 DEF Bound, ProjectRecords
    <3>2. \A i \in 1 .. Len(projects[id].aliases) : i \in 1 .. Len(q.aliases)
      BY <2>3, <3>1
    <3> QED
      BY <2>2, <2>3, <3>2 DEF HostKnown
  <2>5. q \in ProjectRecords /\ added.value = q
    BY <2>3, Outcomes DEF Bound
  <2>6. projects \in [DOMAIN projects -> ProjectRecords]
    BY DEF KeptOk
  <2>7. projects' = [projects EXCEPT ![id] = q]
    BY <1>1, <1>6, <2>5
  <2>8. /\ DOMAIN projects' = DOMAIN projects
        /\ projects' \in [DOMAIN projects' -> ProjectRecords]
        /\ \A i \in DOMAIN projects' : projects'[i] = IF i = id THEN q ELSE projects[i]
    BY <2>1, <2>5, <2>6, <2>7
  <2>9. \A i \in DOMAIN projects' : Bound(projects'[i]) /\ HostKnown(projects'[i])
    BY <2>3, <2>4, <2>8 DEF KeptOk
  <2>10. StoreOk(files, units, DOMAIN projects')
    BY <2>8 DEF KeptOk
  <2>11. answer'.code = "ok"
    BY <1>1, <2>3, Outcomes DEF IsOk
  <2> QED
    BY <1>1, <2>8, <2>9, <2>10, <2>11 DEF KeptOk
<1> QED
  BY <1>5, <1>6

LEMMA ConstructKeeps ==
  ASSUME KeptOk, NEW seeds \in Seeds, Construct(seeds)
  PROVE  KeptOk' /\ (answer'.code # "ok" => Kept)
<1> DEFINE seeded == seedStore(seeds)
<1>1. /\ ~bridge /\ bridge' = IsOk(seeded)
      /\ files' = IF IsOk(seeded) THEN seeded.value.files ELSE files
      /\ units' = IF IsOk(seeded) THEN seeded.value.units ELSE units
      /\ projects' = projects /\ answer'.code = seeded.code
  BY DEF Construct, Answers
<1>2. seeds \in Seq(GivenSeeds)
  BY GatewayAssumption DEF GatewayAssumption
<1> HIDE DEF seeded
<1>3. bridge' \in BOOLEAN /\ (IsOk(seeded) <=> seeded.code = "ok")
  BY <1>1 DEF IsOk
<1>4. CASE ~IsOk(seeded)
  <2>0. bridge \in BOOLEAN /\ bridge' \in BOOLEAN /\ ~bridge /\ ~bridge'
    <3>1. bridge \in BOOLEAN
      BY DEF KeptOk
    <3>2. ~bridge
      BY <1>1
    <3>3. ~bridge'
      BY <1>1, <1>4
    <3> QED
      BY <1>3, <3>1, <3>2, <3>3
  <2>1. bridge' = bridge
    BY <2>0
  <2>2. Kept
    BY <1>1, <1>4, <2>1 DEF Kept
  <2> QED
    BY <2>2, KeptKeeps
<1>5. CASE IsOk(seeded)
  <2>1. PICK t \in Stores(DOMAIN projects) : seeded = Ok(t)
    BY <1>2, <1>5, SeedsMakeStore DEF seeded
  <2>2. seeded.value = t
    BY <2>1, Outcomes
  <2>3. StoreOk(files', units', DOMAIN projects)
    BY <1>1, <1>5, <2>2, StoreIs
  <2>4. answer'.code = "ok"
    BY <1>1, <1>3, <1>5
  <2> QED
    BY <1>1, <1>3, <2>3, <2>4 DEF KeptOk
<1> QED
  BY <1>4, <1>5

LEMMA WriteKeeps ==
  ASSUME KeptOk, NEW via, NEW id, NEW scope \in WorkflowScopes, NEW p \in ScopedPaths, NEW text \in Texts, NEW n,
         WriteScopedText(via, id, scope, p, text, n)
  PROVE  KeptOk' /\ (answer'.code # "ok" => Kept)
<1> DEFINE key == scopedFileKey(id, scope, p)
           store == [files |-> files, units |-> units]
           args == ToolArguments(via, <<p, text>>)
           limit == boundedPositiveInteger(n, MaxValueUnits)
           resolved == resolveWorkflowPath(id, scope, p)
           put == storeScopedText(store, key, text)
           stored == IF IsOk(args)
                     THEN IF IsOk(limit)
                          THEN Unless(Len(text) > limit.value, "ERR_INVALID_PATH", IF IsOk(resolved) THEN put ELSE resolved)
                          ELSE limit
                     ELSE args
<1>1. /\ files' = IF IsOk(stored) THEN stored.value.files ELSE files
      /\ units' = IF IsOk(stored) THEN stored.value.units ELSE units
      /\ answer' = [tool |-> "write", args |-> key,
                    code |-> (IF IsOk(stored) THEN Ok(Len(text)) ELSE stored).code,
                    value |-> (IF IsOk(stored) THEN Ok(Len(text)) ELSE stored).value]
      /\ projects' = projects /\ bridge' = bridge
  BY Zenon DEF WriteScopedText, Answers, Then
<1>2. answer'.code = (IF IsOk(stored) THEN Ok(Len(text)) ELSE stored).code
  <2> HIDE DEF stored, key
  <2> QED
    BY <1>1
<1>3. IsOk(stored) => IsOk(resolved) /\ stored = put
  <2> HIDE DEF args, limit, resolved, put
  <2> QED
    BY Outcomes DEF Unless
<1> HIDE DEF stored
<1>4. CASE ~IsOk(stored)
  <2>1. Kept
    BY <1>1, <1>4 DEF Kept
  <2> QED
    BY <2>1, KeptKeeps
<1>5. CASE IsOk(stored)
  <2>1. id \in DOMAIN projects /\ IsOk(normalizeScopedPath(scope, p))
    BY <1>3, <1>5, Resolves
  <2>2. KeyOk(key, DOMAIN projects)
    BY <2>1 DEF KeyOk, scopedFileKey
  <2>3. store.files = files /\ store.units = units /\ StoreOk(files, units, DOMAIN projects)
    BY DEF KeptOk
  <2>4. text \in Seq(STRING)
    BY GatewayAssumption DEF GatewayAssumption
  <2> HIDE DEF store, key
  <2>5. StoreOk(put.value.files, put.value.units, DOMAIN projects)
    BY <1>3, <1>5, <2>2, <2>3, <2>4, StoreKeeps
  <2>6. StoreOk(files', units', DOMAIN projects)
    BY <1>1, <1>3, <1>5, <2>5
  <2>7. answer'.code = "ok"
    BY <1>2, <1>5, Outcomes DEF IsOk
  <2> QED
    BY <1>1, <2>6, <2>7 DEF KeptOk
<1> QED
  BY <1>4, <1>5

\* The other calls keep everything, whatever they answer.
LEMMA OthersKeep ==
  /\ \A id, selector : ResolveHostRoot(id, selector) => Kept
  /\ (ServiceCall => Kept) /\ (NameCall => Kept)
  /\ \A via, id, p, name, n : ValidatePath(via, id, p, name, n) => Kept
  /\ \A id, p, n : ReadText(id, p, n) => Kept
  /\ \A via, command, id, p, name : WriteCommand(via, command, id, p, name) => Kept
  /\ \A id, scope, p, n : ReadScopedText(id, scope, p, n) => Kept
  /\ \A id, scope, prefix, n : ListScoped(id, scope, prefix, n) => Kept
  /\ \A id, scope, glob, n : GlobScoped(id, scope, glob, n) => Kept
  /\ Deliver => Kept
<1>1. \A id, selector : ResolveHostRoot(id, selector) => Kept
  BY DEF ResolveHostRoot, Kept
<1>2. ServiceCall => Kept
  BY DEF ServiceCall, Kept
<1>3. NameCall => Kept
  BY DEF NameCall, Kept
<1>4. \A via, id, p, name, n : ValidatePath(via, id, p, name, n) => Kept
  BY DEF ValidatePath, Kept
<1>5. \A id, p, n : ReadText(id, p, n) => Kept
  BY DEF ReadText, Kept
<1>6. \A via, command, id, p, name : WriteCommand(via, command, id, p, name) => Kept
  BY DEF WriteCommand, Kept
<1>7. \A id, scope, p, n : ReadScopedText(id, scope, p, n) => Kept
  BY DEF ReadScopedText, Kept
<1>8. \A id, scope, prefix, n : ListScoped(id, scope, prefix, n) => Kept
  BY DEF ListScoped, Kept
<1>9. \A id, scope, glob, n : GlobScoped(id, scope, glob, n) => Kept
  BY DEF GlobScoped, Kept
<1>10. Deliver => Kept
  BY DEF Deliver, Kept
<1> QED
  BY <1>1, <1>2, <1>3, <1>4, <1>5, <1>6, <1>7, <1>8, <1>9, <1>10

\* Every step keeps the invariant, and one that answers with an error keeps everything.
LEMMA NextKeeps ==
  ASSUME KeptOk, [GatewayNext]_gatewayVars
  PROVE  KeptOk' /\ (answer'.code # "ok" => Kept)
<1>1. CASE UNCHANGED gatewayVars
  <2>1. Kept
    BY <1>1 DEF gatewayVars, Kept
  <2> QED
    BY <2>1, KeptKeeps
<1>2. CASE Deliver
  <2>1. Kept
    <3>1. Deliver => Kept
      BY OthersKeep, Zenon
    <3> QED
      BY <1>2, <3>1, Zenon
  <2> QED
    BY <2>1, KeptKeeps
<1>3. CASE \E seeds \in Seeds : Construct(seeds)
  BY <1>3, ConstructKeeps
<1>4. CASE ServiceCall \/ NameCall
  <2>1. Kept
    <3>1. (ServiceCall => Kept) /\ (NameCall => Kept)
      BY OthersKeep, Zenon
    <3> QED
      BY <1>4, <3>1, Zenon
  <2> QED
    BY <2>1, KeptKeeps
<1>5. CASE BrokerCall
  <2>1. CASE \E reg \in Registrations : RegisterProject(reg)
    BY <2>1, RegisterKeeps
  <2>2. CASE \E id \in Projects, alias \in AliasRegistrations : RegisterPathAlias(id, alias)
    BY <2>2, RegisterAliasKeeps
  <2>3. CASE \E id \in Projects, selector \in Selectors : ResolveHostRoot(id, selector)
    BY <2>3, OthersKeep, KeptKeeps
  <2> QED
    BY <1>5, <2>1, <2>2, <2>3 DEF BrokerCall
<1>6. CASE ToolCall
  <2>1. PICK id \in Projects, via \in Vias :
          \/ \E p \in UnityPaths, name \in FileNames, n \in NameLimits : ValidatePath(via, id, p, name, n)
          \/ \E p \in UnityPaths, n \in Limits : ReadText(id, p, n)
          \/ \E command \in {"assets.refresh", "scene.save"}, p \in UnityPaths \cup {Undefined},
                name \in FileNames : WriteCommand(via, command, id, p, name)
          \/ \E scope \in WorkflowScopes, n \in Limits :
               \/ \E p \in ScopedPaths : \/ ReadScopedText(id, scope, p, n)
                                         \/ \E text \in Texts : WriteScopedText(via, id, scope, p, text, n)
               \/ \E prefix \in ScopedPaths \cup {Undefined} : ListScoped(id, scope, prefix, n)
               \/ \E glob \in Globs : GlobScoped(id, scope, glob, n)
    BY <1>6 DEF ToolCall
  <2>2. Kept \/ \E scope \in WorkflowScopes, n \in Limits, p \in ScopedPaths, text \in Texts :
                  WriteScopedText(via, id, scope, p, text, n)
    BY <2>1, OthersKeep, Zenon
  <2>3. CASE Kept
    BY <2>3, KeptKeeps
  <2>4. CASE \E scope \in WorkflowScopes, n \in Limits, p \in ScopedPaths, text \in Texts :
               WriteScopedText(via, id, scope, p, text, n)
    BY <2>4, WriteKeeps
  <2> QED
    BY <2>2, <2>3, <2>4
<1> QED
  BY <1>1, <1>2, <1>3, <1>4, <1>5, <1>6 DEF GatewayNext

-----------------------------------------------------------------------------
(* Paths below one another, and the names of a scoped path.                  *)

\* A text is another one or goes on after it with a slash exactly when its
\* names begin with those of the other.
LEMMA UnderMeans ==
  ASSUME NEW S, "/" \in S, NEW v \in Seq(S), NEW w \in Seq(S)
  PROVE  (v = w \/ StartsWith(v, Append(w, "/"))) <=> IsPrefix(Split(w), Split(v))
<1> DEFINE a == Split(v)
           b == Split(w)
<1>1. a \in PiecesOf(S) /\ b \in PiecesOf(S)
  BY SplitType
<1>2. a \in Seq(PartsOf(S)) /\ b \in Seq(PartsOf(S)) /\ b # <<>>
  BY <1>1 DEF PiecesOf
<1>3. Joined(a) = v /\ Joined(b) = w
  BY JoinedOfSplit
<1>4. Append(w, "/") \in Seq(S)
  OBVIOUS
<1> HIDE DEF a, b
<1>5. ASSUME v = w PROVE IsPrefix(b, a)
  <2>1. a = b
    BY <1>5 DEF a, b
  <2>2. b \in Seq(PartsOf(S)) /\ Len(b) \in Nat
    BY <1>2
  <2> QED
    BY <2>1, <2>2 DEF IsPrefix
<1>6. ASSUME StartsWith(v, Append(w, "/")) PROVE IsPrefix(b, a)
  <2> DEFINE t == From(v, Len(Append(w, "/")) + 1)
  <2>1. v = Append(w, "/") \o t /\ t \in Seq(S)
    BY <1>4, <1>6, StartsWithGives
  <2> HIDE DEF t
  <2>2. v = w \o <<"/">> \o t
    BY <2>1, SlashBetween
  <2>3. a = b \o Split(t)
    BY <2>1, <2>2, SplitOfConcat DEF a, b
  <2>4. Split(t) \in Seq(PartsOf(S))
    BY <2>1, SplitType DEF PiecesOf
  <2>5. StartsWith(b \o Split(t), b)
    BY <1>2, <2>4, StartsWithConcat
  <2> QED
    BY <2>3, <2>5 DEF StartsWith
<1>7. ASSUME IsPrefix(b, a) PROVE v = w \/ StartsWith(v, Append(w, "/"))
  <2> DEFINE q == From(a, Len(b) + 1)
  <2>1. a = b \o q /\ q \in Seq(PartsOf(S))
    BY <1>2, <1>7, StartsWithGives DEF StartsWith
  <2> HIDE DEF q
  <2>2. CASE q = <<>>
    <3>1. a = b
      BY <1>2, <2>1, <2>2
    <3> QED
      BY <1>3, <3>1
  <2>3. CASE q # <<>>
    <3>1. q \in PiecesOf(S)
      BY <2>1, <2>3 DEF PiecesOf
    <3>2. Joined(b \o q) = Joined(b) \o <<"/">> \o Joined(q)
      BY <1>1, <3>1, JoinedOfConcat DEF b
    <3>3. Joined(q) \in Seq(S)
      BY <2>1, JoinedType
    <3>4. v = w \o <<"/">> \o Joined(q)
      BY <1>3, <2>1, <3>2
    <3>5. v = Append(w, "/") \o Joined(q)
      BY <3>3, <3>4, SlashBetween
    <3>6. StartsWith(Append(w, "/") \o Joined(q), Append(w, "/"))
      BY <1>4, <3>3, StartsWithConcat
    <3> QED
      BY <3>5, <3>6
  <2> QED
    BY <2>2, <2>3
<1> QED
  BY <1>5, <1>6, <1>7 DEF a, b

\* The same for one name.
LEMMA UnderName ==
  ASSUME NEW S, "/" \in S, NEW v \in Seq(S), NEW p \in PartsOf(S)
  PROVE  (v = p \/ StartsWith(v, Append(p, "/"))) <=> Split(v)[1] = p
<1> DEFINE a == Split(v)
<1>1. a \in Seq(PartsOf(S)) /\ a # <<>> /\ Len(a) \in Nat \ {0}
  BY SplitType, PiecesHaveLast DEF PiecesOf
<1>2. p \in Seq(S) /\ Split(p) = <<p>>
  BY PartsAreTexts, SplitOfPart
<1> HIDE DEF a
<1>3. IsPrefix(<<p>>, a) <=> a[1] = p
  <2>1. <<p>> \in Seq(PartsOf(S))
    OBVIOUS
  <2>2. StartsWith(a, <<p>>) <=> Len(<<p>>) <= Len(a) /\ \A i \in 1 .. Len(<<p>>) : a[i] = <<p>>[i]
    BY <1>1, <2>1, StartsWithMeans
  <2>3. Len(<<p>>) = 1 /\ <<p>>[1] = p /\ Len(a) >= 1
    BY <1>1
  <2> QED
    BY <2>2, <2>3 DEF StartsWith
<1> QED
  BY <1>2, <1>3, UnderMeans DEF a

\* The symbols of a Windows path, which every kind of root allows.
NarrowNames == RealNames(Symbols \ {NUL, "\\"})

LEMMA NarrowNamesFit ==
  \A kind : NarrowNames \subseteq NamesOf(kind)
BY DEF NarrowNames, NamesOf, RealNames, PartsOf, Alphabet

\* What the checks of a scoped text leave: names that every kind of root
\* allows, joined again to the same text.
Scoped(v) ==
  /\ v \in Seq(Symbols) /\ v # <<>> /\ ~Has(v, NUL) /\ ~Has(v, "\\") /\ ToSet(v) \cap EncodedSeparators = {}
  /\ ~NeedsRelativeMarker(v)
  /\ Split(v) \in Seq(NarrowNames) /\ Split(v) # <<>> /\ Joined(Split(v)) = v

LEMMA SyntaxMeans ==
  ASSUME NEW v \in Seq(Symbols), v # <<>>, ScopedSyntax(v) = "ok"
  PROVE  Scoped(v)
<1>1. /\ ~Has(v, NUL) /\ ToSet(v) \cap EncodedSeparators = {}
      /\ ~NeedsRelativeMarker(v) /\ ~Has(v, "\\") /\ ~HasDotDot(v)
      /\ ~\E part \in ToSet(Split(v)) :
           \/ part \in {<<>>, <<".">>}
           \/ Has(part, ":") \/ EndsWith(part, ".") \/ EndsWith(part, " ")
           \/ Len(part) > MaxPartLength
  BY DEF ScopedSyntax
<1> DEFINE S == Symbols \ {NUL, "\\"}
           ps == Split(v)
<1>2. "/" \in Symbols /\ "/" \in S
  BY DEF Symbols, Written, NUL
<1>3. v \in Seq(S)
  <2>1. v \in Seq(Symbols \ {NUL})
    BY <1>1, HasMeans
  <2>2. v \in Seq((Symbols \ {NUL}) \ {"\\"})
    BY <1>1, <2>1, HasMeans
  <2>3. (Symbols \ {NUL}) \ {"\\"} = S
    OBVIOUS
  <2> QED
    BY <2>2, <2>3, Zenon
<1>4. ps \in Seq(PartsOf(S)) /\ ps # <<>> /\ Joined(ps) = v
  BY <1>2, <1>3, SplitType, JoinedOfSplit DEF PiecesOf
<1> HIDE DEF S, ps
<1>5. ASSUME NEW i \in 1 .. Len(ps) PROVE ps[i] \in PartsOf(S) \ DotNames
  <2>1. ps[i] \in PartsOf(S)
    BY <1>4
  <2>2. ps[i] \in ToSet(ps)
    BY <1>4 DEF ToSet
  <2>3. ps[i] \notin {<<>>, <<".">>} /\ ps[i] # <<".", ".">>
    BY <1>1, <2>2 DEF HasDotDot, ps
  <2> QED
    BY <2>1, <2>3 DEF DotNames
<1>6. ps \in Seq(PartsOf(S) \ DotNames)
  BY <1>4, <1>5
<1>7. NarrowNames = PartsOf(S) \ DotNames
  BY DEF NarrowNames, RealNames, S
<1> QED
  BY <1>1, <1>4, <1>6, <1>7 DEF Scoped, ps

\* A scoped text is the relative path of its names, as the script wants it.
LEMMA ScopedIsAccepted ==
  ASSUME NEW v, Scoped(v)
  PROVE  AssertCanonicalRelativePath(v, TRUE)
<1> DEFINE ps == Split(v)
<1>1. ps \in Seq(NamesOf("relative"))
  BY NarrowNamesFit, SeqMonotonic DEF Scoped
<1>2. v = Whole("relative", <<>>, ps)
  BY Zenon DEF Scoped, Whole, MarkRelative
<1>3. AssertCanonicalRelativePath(v, FALSE)
  BY <1>1, <1>2, RelativeIsAccepted
<1>4. "/" \in Symbols /\ NarrowNames \subseteq RealNames(Symbols)
  BY DEF NarrowNames, RealNames, PartsOf, Symbols, Written
<1>5. ps \in Seq(RealNames(Symbols)) /\ ps # <<>>
  BY <1>4, SeqMonotonic DEF Scoped
<1>6. ~StartsWith(v, <<".", "/">>)
  <2>1. ~StartsWith(Joined(ps), <<".", "/">>)
    BY <1>4, <1>5, JoinedStarts
  <2> QED
    BY <2>1 DEF Scoped
<1> QED
  BY <1>3, <1>6 DEF AssertCanonicalRelativePath, Scoped

\* A path that a scope takes is a scoped text the scope allows, and its
\* project-relative path puts the folder of the scope before it.
LEMMA ScopeTakes ==
  ASSUME NEW scope, NEW p \in Seq(Symbols), IsOk(normalizeScopedPath(scope, p))
  PROVE  /\ Scoped(p) /\ ScopeAllows(scope, p)
         /\ normalizeScopedPath(scope, p) = Ok(ScopePrefix(scope) \o p)
<1> DEFINE clean == validateScopedRelativeInput(p)
           manifest(c) == scope = "package_manifest" /\ c \notin Manifests /\ startsWithAny(c, Manifests)
           last1(c) == Unless(manifest(c), "ERR_INVALID_PATH",
                         Unless(~ScopeAllows(scope, c), "ERR_OUTSIDE_ROOT", Ok(ScopePrefix(scope) \o c)))
<1>1. normalizeScopedPath(scope, p) = IF IsOk(clean) THEN last1(clean.value) ELSE clean
  BY Zenon DEF normalizeScopedPath, Then
<1>2. IsOk(clean)
  <2> HIDE DEF clean, last1
  <2> QED
    BY <1>1
<1>3. p # <<>> /\ ScopedSyntax(p) = "ok" /\ clean = Ok(p)
  <2>1. \A c : Err(c).code = c
    BY DEF Err
  <2> QED
    BY <1>2, <2>1 DEF validateScopedRelativeInput, Unless, IsOk
<1>4. Scoped(p)
  BY <1>3, SyntaxMeans
<1>5. clean.value = p
  BY <1>3, Outcomes
<1> HIDE DEF clean
<1>6. normalizeScopedPath(scope, p) = last1(p)
  BY <1>1, <1>2, <1>5
<1>7. ~manifest(p) /\ ScopeAllows(scope, p)
  <2> HIDE DEF manifest
  <2>1. \A c : Err(c).code = c
    BY DEF Err
  <2> QED
    BY <1>6, <2>1 DEF Unless, IsOk
<1>8. last1(p) = Ok(ScopePrefix(scope) \o p)
  <2> HIDE DEF manifest
  <2> QED
    BY <1>7 DEF Unless
<1> QED
  BY <1>4, <1>6, <1>7, <1>8
-----------------------------------------------------------------------------
(* What the invariant says of the registry and of the store.                 *)

LEMMA RecordsAreSound ==
  KeptOk => AliasesSound
<1> SUFFICES ASSUME KeptOk, NEW id \in DOMAIN projects
             PROVE  LET q == projects[id]
                    IN /\ AssertCanonicalPath(q.root)
                       /\ \A i, j \in DOMAIN q.aliases : i # j => q.aliases[i].client # q.aliases[j].client
                       /\ \A i \in DOMAIN q.aliases :
                            normalizeProjectRoot(q.aliases[i].hostRoot, q.aliases[i].opts) = Ok(q.root)
  BY Zenon DEF AliasesSound
<1> DEFINE q == projects[id]
<1>1. Bound(q)
  BY DEF KeptOk
<1> HIDE DEF q
<1>2. AssertCanonicalPath(q.root)
  <2>1. PICK kind, prefix, kept : /\ kept \in Seq(NamesOf(kind)) /\ RootAt(kind, prefix)
                                  /\ q.root = Whole(kind, prefix, kept)
    BY <1>1 DEF Bound, Anchored
  <2> QED
    BY <2>1, WholeIsAccepted
<1>3. DOMAIN q.aliases = 1 .. Len(q.aliases)
  <2>1. q.aliases \in Seq(KeptAliases)
    BY <1>1 DEF Bound, ProjectRecords
  <2> QED
    BY <2>1
<1> QED
  BY <1>1, <1>2, <1>3 DEF Bound, q

\* A stored key lies where its scope says.
LEMMA KeysLieInScope ==
  ASSUME NEW key, NEW ids, KeyOk(key, ids)
  PROVE  /\ key[1] \in ids
         /\ AssertCanonicalRelativePath(key[3], TRUE)
         /\ key[2] = "artifact" => Split(key[3])[1] \in {<<"job-artifacts">>, <<"screenshots">>}
         /\ key[2] = "knowledge" => Split(key[3])[1] # <<"Assets">>
<1>1. key[1] \in ids /\ key[3] \in ScopedPaths
  BY DEF KeyOk
<1>2. key[3] \in Seq(Symbols)
  BY <1>1, GatewayAssumption, StringsAreSymbols DEF GatewayAssumption
<1>3. Scoped(key[3]) /\ ScopeAllows(key[2], key[3])
  BY <1>2, ScopeTakes DEF KeyOk
<1>4. AssertCanonicalRelativePath(key[3], TRUE)
  BY <1>3, ScopedIsAccepted
<1> DEFINE S == Symbols \cup {"job-artifacts", "screenshots", "Assets"}
           v == key[3]
<1>5. v \in Seq(S) /\ "/" \in S
  BY <1>2, SeqMonotonic DEF Symbols, Written
<1>6. \A n \in {"job-artifacts", "screenshots", "Assets"} : <<n>> \in PartsOf(S)
  BY DEF PartsOf, S
<1> HIDE DEF S, v
<1>7. \A n \in {"job-artifacts", "screenshots", "Assets"} :
        (v = <<n>> \/ StartsWith(v, Append(<<n>>, "/"))) <=> Split(v)[1] = <<n>>
  BY <1>5, <1>6, UnderName
<1>8. ASSUME key[2] = "artifact" PROVE Split(v)[1] \in {<<"job-artifacts">>, <<"screenshots">>}
  <2>1. startsWithAny(v, ArtifactFolders)
    BY <1>3, <1>8 DEF ScopeAllows, v
  <2> QED
    BY <1>7, <2>1 DEF startsWithAny, ArtifactFolders
<1>9. ASSUME key[2] = "knowledge" PROVE Split(v)[1] # <<"Assets">>
  <2>1. ~startsWithAny(v, ScopeRoots)
    BY <1>3, <1>9 DEF ScopeAllows, isPlainScopeRelative, v
  <2>2. <<"Assets">> \in ScopeRoots
    BY DEF ScopeRoots
  <2> QED
    BY <1>7, <2>1, <2>2 DEF startsWithAny
<1> QED
  BY <1>1, <1>4, <1>8, <1>9 DEF v

LEMMA BooksAreExact ==
  KeptOk => StoreExact
<1> SUFFICES ASSUME KeptOk PROVE StoreExact
  OBVIOUS
<1>1. StoreOk(files, units, DOMAIN projects)
  BY DEF KeptOk
<1>2. LET charge == [key \in DOMAIN files |-> KeyUnits + Len(key[3]) + Len(files[key])]
      IN units = MapThenSumSet(LAMBDA key : charge[key], DOMAIN files)
  BY <1>1, Zenon DEF StoreOk, SumOf, ChargeOf
<1>3. units <= MaxStoredUnits /\ Cardinality(DOMAIN files) <= MaxStoredEntries
  BY <1>1 DEF StoreOk
<1>4. \A key \in DOMAIN files :
         /\ key[1] \in DOMAIN projects
         /\ AssertCanonicalRelativePath(key[3], TRUE)
         /\ key[2] = "artifact" => Split(key[3])[1] \in {<<"job-artifacts">>, <<"screenshots">>}
         /\ key[2] = "knowledge" => Split(key[3])[1] # <<"Assets">>
  BY <1>1, KeysLieInScope DEF StoreOk
<1> QED
  BY <1>2, <1>3, <1>4, Zenon DEF StoreExact

-----------------------------------------------------------------------------
(* The theorems.                                                             *)

\* Every record of the broker is sound and the books of the store are exact,
\* whatever was registered, replaced, stored and refused before.
THEOREM GatewayKeeps == GatewaySpec => []KeptOk
<1>1. GatewayInit => KeptOk
  BY InitKeeps
<1>2. KeptOk /\ [GatewayNext]_gatewayVars => KeptOk'
  BY NextKeeps
<1> QED
  BY <1>1, <1>2, PTL DEF GatewaySpec

\* The root of each project is canonical, no two of its aliases answer to one
\* client, and each alias reads as the identity of its project.
THEOREM AliasesAreSound == GatewaySpec => []AliasesSound
BY GatewayKeeps, RecordsAreSound, PTL

\* The units charged are those of the texts kept, the caps hold, and every text
\* lies in the folder of its scope, under a registered project.
THEOREM StoreIsExact == GatewaySpec => []StoreExact
BY GatewayKeeps, BooksAreExact, PTL

\* A call that answers with an error leaves everything as it was.
THEOREM RefusalsChangeNothing == GatewaySpec => RefusedChangesNothing
<1>1. KeptOk /\ [GatewayNext]_gatewayVars
        => [answer'.code # "ok" => UNCHANGED <<projects, bridge, files, units>>]_gatewayVars
  BY NextKeeps DEF Kept
<1> QED
  BY <1>1, GatewayKeeps, PTL DEF GatewaySpec, RefusedChangesNothing
-----------------------------------------------------------------------------
(* Unity paths.                                                              *)

\* The names that a Unity path is made of.
UnityNames == RealNames(Symbols \ {NUL, "\\", ":"})

LEMMA UnityNamesFit ==
  UnityNames \subseteq NarrowNames /\ \A kind : UnityNames \subseteq NamesOf(kind)
BY DEF UnityNames, NarrowNames, NamesOf, RealNames, PartsOf, Alphabet

\* What normalizeRelative returns, other than a dot, are names joined.
LEMMA OperandGives ==
  ASSUME NEW S, NEW v \in Seq(S), v # <<".">>, IsOk(NormalizeRelative(v))
  PROVE  \E kept \in Seq(RealNames(S)) : kept # <<>> /\ NormalizeRelative(v) = Ok(Joined(kept))
<1> DEFINE cc == CleanComponents(v, FALSE, "ERR_OUTSIDE_ROOT")
           fin == IF IsOk(cc) THEN Unless(cc.value = <<>>, "ERR_EMPTY_PATH", Ok(Joined(cc.value))) ELSE cc
<1>1. NormalizeRelative(v) =
        Unless(v = <<>>, "ERR_EMPTY_PATH",
          Unless(Has(v, NUL), "ERR_NUL_BYTE",
            Unless(IsAbsolutePathLike(v), "ERR_ABSOLUTE_PATH",
              Unless(IsDriveRelative(v), "ERR_DRIVE_RELATIVE_PATH",
                Unless(Has(v, "\\"), "ERR_INVALID_PATH", fin)))))
  BY Zenon DEF NormalizeRelative, Then
<1>2. \A c : Err(c).code = c
  BY DEF Err
<1>3. NormalizeRelative(v) = fin /\ IsOk(fin)
  <2> HIDE DEF fin
  <2> QED
    BY <1>1, <1>2 DEF Unless, IsOk
<1>4. cc \in CleanResults(Split(v), "ERR_OUTSIDE_ROOT") /\ NamesIn(Split(v)) \subseteq RealNames(S)
  <2>1. "ERR_OUTSIDE_ROOT" # "ok"
    OBVIOUS
  <2> QED
    BY <2>1, CleanedAreNames, Zenon
<1> HIDE DEF cc
<1>5. IsOk(cc) /\ cc.value # <<>> /\ fin = Ok(Joined(cc.value))
  BY <1>2, <1>3 DEF Unless, IsOk
<1>6. PICK kept \in Seq(NamesIn(Split(v))) : cc = Ok(kept)
  BY <1>2, <1>4, <1>5 DEF CleanResults, IsOk
<1>7. cc.value = kept
  BY <1>6, Outcomes
<1>8. kept \in Seq(RealNames(S))
  BY <1>4, SeqMonotonic
<1> QED
  BY <1>3, <1>5, <1>7, <1>8

\* Nothing begins with a component it is not as long as.
LEMMA DotIsNoRoot ==
  ~isAllowedUnityRoot(<<".">>)
<1> DEFINE S == {".", "/", "Assets", "Packages"}
<1>1. <<".">> \in Seq(S) /\ \A n \in {"Assets", "Packages"} : <<n>> \in PartsOf(S)
  BY DEF PartsOf
<1>2. "/" \in S /\ <<".">> \in PartsOf(S)
  BY DEF PartsOf
<1> HIDE DEF S
<1>3. Split(<<".">>) = <<<<".">>>>
  BY <1>2, SplitOfPart
<1>4. \A n \in {"Assets", "Packages"} : Split(<<".">>)[1] # <<n>>
  BY <1>3
<1>5. \A n \in {"Assets", "Packages"} : ~(<<".">> = <<n>> \/ StartsWith(<<".">>, Append(<<n>>, "/")))
  BY <1>1, <1>2, <1>4, UnderName
<1> QED
  BY <1>5 DEF isAllowedUnityRoot, startsWithAny

LEMMA UnityGives ==
  ASSUME NEW text \in Seq(Symbols), IsOk(normalizeUnityAssetPath(text))
  PROVE  \E ps \in Seq(UnityNames) :
           /\ ps # <<>> /\ normalizeUnityAssetPath(text) = Ok(Joined(ps)) /\ isAllowedUnityRoot(Joined(ps))
<1> DEFINE v == Slashed(text)
           r == NormalizeRelative(v)
           fin == IF IsOk(r) THEN Unless(~isAllowedUnityRoot(r.value), "ERR_INVALID_PATH", Ok(r.value)) ELSE r
<1>1. normalizeUnityAssetPath(text) =
        Unless(text = <<>>, "ERR_EMPTY_PATH",
          Unless(Has(text, NUL), "ERR_NUL_BYTE",
            Unless(NeedsRelativeMarker(v), "ERR_ABSOLUTE_PATH",
              Unless(HasDotDot(v), "ERR_OUTSIDE_ROOT",
                Unless(Has(v, ":"), "ERR_INVALID_PATH", fin)))))
  BY Zenon DEF normalizeUnityAssetPath, Then
<1>2. \A c : Err(c).code = c
  BY DEF Err
<1>3. normalizeUnityAssetPath(text) = fin /\ IsOk(fin) /\ ~Has(text, NUL) /\ ~Has(v, ":")
  <2> HIDE DEF fin, v
  <2> QED
    BY <1>1, <1>2 DEF Unless, IsOk
<1>4. IsOk(r) /\ isAllowedUnityRoot(r.value) /\ fin = Ok(r.value)
  <2> HIDE DEF r
  <2> QED
    BY <1>2, <1>3 DEF Unless, IsOk
<1> DEFINE S == Symbols \ {NUL, "\\", ":"}
<1>5. v \in Seq(S)
  <2>1. {"/", "\\"} \subseteq Symbols /\ NUL # "/" /\ "/" # "\\"
    BY DEF Symbols, Written, NUL
  <2>2. v \in Seq(Symbols) /\ Len(v) = Len(text)
        /\ \A i \in 1 .. Len(text) : v[i] = IF text[i] = "\\" THEN "/" ELSE text[i]
    BY <2>1, SlashesMean
  <2>3. \A i \in 1 .. Len(text) : text[i] # NUL
    BY <1>3, HasMeans
  <2>4. \A i \in 1 .. Len(v) : v[i] # ":"
    BY <1>3, <2>2, HasMeans
  <2> HIDE DEF v
  <2>5. \A i \in 1 .. Len(v) : v[i] \in S
    BY <2>1, <2>2, <2>3, <2>4
  <2>6. Len(v) \in Nat /\ v \in [1 .. Len(v) -> Symbols]
    BY <2>2
  <2>7. v \in [1 .. Len(v) -> S]
    BY <2>5, <2>6
  <2> QED
    BY <2>6, <2>7
<1>6. v # <<".">>
  <2>1. v = <<".">> => r = Ok(<<".">>)
    BY DEF NormalizeRelative
  <2>2. v = <<".">> => r.value = <<".">>
    BY <2>1, Outcomes
  <2> HIDE DEF r, v
  <2> QED
    BY <1>4, <2>2, DotIsNoRoot
<1>7. PICK kept \in Seq(RealNames(S)) : kept # <<>> /\ r = Ok(Joined(kept))
  <2> HIDE DEF S, v
  <2> QED
    BY <1>4, <1>5, <1>6, OperandGives
<1>8. kept \in Seq(UnityNames)
  BY <1>7 DEF UnityNames
<1>9. r.value = Joined(kept)
  BY <1>7, Outcomes
<1> HIDE DEF r, fin, v
<1> QED
  BY <1>3, <1>4, <1>7, <1>8, <1>9

\* Names of a Unity path, joined.
LEMMA UnityText ==
  ASSUME NEW ps \in Seq(UnityNames), ps # <<>>
  PROVE  LET c == Joined(ps)
         IN /\ c \in Seq(Symbols \ {NUL, "\\", ":"}) /\ c \in Seq(Symbols) /\ c # <<>> /\ c # <<".">> /\ c[1] # "/"
            /\ Split(c) = ps /\ ~Has(c, "\\") /\ ~Has(c, NUL) /\ ~Has(c, ":")
            /\ ~NeedsRelativeMarker(c) /\ MarkRelative(c) = c /\ ~StartsWith(c, <<".", "/">>) /\ Slashed(c) = c
<1> DEFINE S == Symbols \ {NUL, "\\", ":"}
           c == Joined(ps)
<1>1. "/" \in S /\ S \subseteq Symbols /\ NUL \notin S /\ "\\" \notin S /\ ":" \notin S
  BY DEF Symbols, Written, NUL
<1>2. ps \in Seq(RealNames(S))
  BY DEF UnityNames
<1> HIDE DEF S
<1>3. /\ c \in Seq(S) /\ Len(c) \in Nat \ {0} /\ c[1] # "/"
      /\ Split(c) = ps /\ c # <<".">> /\ ~StartsWith(c, <<".", "/">>)
  BY <1>1, <1>2, JoinedStarts
<1> HIDE DEF c
<1>4. c \in Seq(Symbols) /\ c # <<>>
  BY <1>1, <1>3, SeqMonotonic
<1>5. ~Has(c, "\\") /\ ~Has(c, NUL) /\ ~Has(c, ":")
  BY <1>1, <1>3, HasMeans
<1>6. ~NeedsRelativeMarker(c)
  <2>1. Len(c) >= 2 => c[2] \in S
    BY <1>3
  <2> QED
    BY <1>1, <1>3, <2>1, DriveRootMeans
<1>7. MarkRelative(c) = c
  BY <1>4, <1>6 DEF MarkRelative
<1>8. Slashed(c) = c
  <2>1. {"/", "\\"} \subseteq Symbols
    BY DEF Symbols, Written
  <2>2. Slashed(c) \in Seq(Symbols) /\ Len(Slashed(c)) = Len(c)
        /\ \A i \in 1 .. Len(c) : Slashed(c)[i] = IF c[i] = "\\" THEN "/" ELSE c[i]
    BY <1>4, <2>1, SlashesMean
  <2>3. \A i \in 1 .. Len(c) : Slashed(c)[i] = c[i]
    BY <1>4, <1>5, <2>2, HasMeans
  <2> DEFINE u == Slashed(c)
  <2>4. u \in Seq(Symbols) /\ Len(u) = Len(c) /\ \A i \in 1 .. Len(c) : u[i] = c[i]
    BY <2>2, <2>3
  <2> HIDE DEF u
  <2>5. u = c
    BY <1>4, <2>4
  <2> QED
    BY <2>5 DEF u
<1> QED
  BY <1>3, <1>4, <1>5, <1>6, <1>7, <1>8 DEF S, c

LEMMA PairAppended ==
  ASSUME NEW T, NEW a \in T, NEW b \in T
  PROVE  Append(<<a>>, b) = <<a, b>>
<1> DEFINE s == Append(<<a>>, b)
           t == <<a, b>>
<1>1. s \in Seq(T) /\ Len(s) = 2 /\ s[1] = a /\ s[2] = b
  OBVIOUS
<1>2. t \in Seq(T) /\ Len(t) = 2 /\ t[1] = a /\ t[2] = b
  OBVIOUS
<1> HIDE DEF s, t
<1>3. s = t
  BY <1>1, <1>2
<1> QED
  BY <1>3 DEF s, t

\* A Unity path is a relative path to the script.
LEMMA UnityIsAccepted ==
  ASSUME NEW ps \in Seq(UnityNames), ps # <<>>, isAllowedUnityRoot(Joined(ps))
  PROVE  assertUnityBridgePath(Joined(ps))
<1> DEFINE c == Joined(ps)
<1>1. ps \in Seq(NamesOf("relative"))
  BY UnityNamesFit, SeqMonotonic
<1>2. ~Has(c, "\\") /\ MarkRelative(c) = c /\ ~StartsWith(c, <<".", "/">>)
  BY UnityText
<1>3. Whole("relative", <<>>, ps) = c
  BY <1>2, Zenon DEF Whole
<1>4. AssertCanonicalRelativePath(c, FALSE)
  BY <1>1, <1>3, RelativeIsAccepted
<1> HIDE DEF c
<1>5. AssertCanonicalRelativePath(c, TRUE)
  BY <1>2, <1>4 DEF AssertCanonicalRelativePath
<1>6. isAllowedUnityPath(c)
  <2>1. Append(<<"Assets">>, "/") = <<"Assets", "/">> /\ Append(<<"Packages">>, "/") = <<"Packages", "/">>
    <3> DEFINE T == {"Assets", "Packages", "/"}
    <3>1. "Assets" \in T /\ "Packages" \in T /\ "/" \in T
      OBVIOUS
    <3> HIDE DEF T
    <3> QED
      BY <3>1, PairAppended
  <2>2. startsWithAny(c, {<<"Assets">>, <<"Packages">>})
    BY DEF isAllowedUnityRoot, c
  <2> QED
    BY <2>1, <2>2 DEF startsWithAny, isAllowedUnityPath
<1> QED
  BY <1>5, <1>6 DEF assertUnityBridgePath, c

\* A Unity path that was normalized is taken as it is.
LEMMA UnityAgain ==
  ASSUME NEW ps \in Seq(UnityNames), ps # <<>>, isAllowedUnityRoot(Joined(ps))
  PROVE  normalizeUnityAssetPath(Joined(ps)) = Ok(Joined(ps))
<1> DEFINE S == Symbols \ {NUL, "\\", ":"}
           c == Joined(ps)
           cc == CleanComponents(c, FALSE, "ERR_OUTSIDE_ROOT")
<1>1. /\ c \in Seq(S) /\ c \in Seq(Symbols) /\ c # <<>> /\ c # <<".">> /\ c[1] # "/"
      /\ Split(c) = ps /\ ~Has(c, "\\") /\ ~Has(c, NUL) /\ ~Has(c, ":")
      /\ ~NeedsRelativeMarker(c) /\ Slashed(c) = c
  BY UnityText
<1>2. ps \in Seq(RealNames(S)) /\ "/" \in S
  BY DEF UnityNames, Symbols, Written, NUL
<1> HIDE DEF S
<1>3. cc = Ok(ps)
  <2>1. Reads(c, ps)
    BY <1>2, ReadsJoined
  <2> HIDE DEF c
  <2> QED
    BY <1>1, <1>2, <2>1, CleanReads
<1> HIDE DEF cc
<1>4. NormalizeRelative(c) =
        Unless(c = <<>>, "ERR_EMPTY_PATH",
          Unless(Has(c, NUL), "ERR_NUL_BYTE",
            Unless(IsAbsolutePathLike(c), "ERR_ABSOLUTE_PATH",
              Unless(IsDriveRelative(c), "ERR_DRIVE_RELATIVE_PATH",
                Unless(Has(c, "\\"), "ERR_INVALID_PATH",
                  IF IsOk(cc) THEN Unless(cc.value = <<>>, "ERR_EMPTY_PATH", Ok(Joined(cc.value))) ELSE cc)))))
  BY <1>1, Zenon DEF NormalizeRelative, Then, cc
<1>5. ~IsAbsolutePathLike(c) /\ ~IsDriveRelative(c)
  <2>1. ~StartsWith(c, <<"/">>)
    BY <1>1, <1>2, StartSlash
  <2>2. ~StartsWith(c, <<"\\", "\\">>)
    <3> DEFINE p == <<"\\", "\\">>
    <3>1. p \in Seq(Symbols) /\ Len(p) = 2 /\ p[1] = "\\"
      <4>1. "\\" \in Symbols
        BY DEF Symbols, Written
      <4> QED
        BY <4>1
    <3> HIDE DEF p, c
    <3>2. StartsWith(c, p) <=> Len(p) <= Len(c) /\ \A i \in 1 .. Len(p) : c[i] = p[i]
      <4>1. c \in Seq(Symbols) /\ p \in Seq(Symbols)
        BY <1>1, <3>1
      <4> QED
        BY <4>1, StartsWithMeans
    <3>3. \A i \in 1 .. Len(c) : c[i] # "\\"
      BY <1>1, HasMeans
    <3>4. Len(c) \in Nat
      BY <1>1
    <3>5. StartsWith(c, p) => 1 \in 1 .. Len(c) /\ c[1] = "\\"
      BY <3>1, <3>2, <3>4
    <3>6. ~StartsWith(c, p)
      BY <3>3, <3>5
    <3> QED
      BY <3>6 DEF p
  <2>3. ~HasDriveRoot(Slashed(c)) /\ ~IsDriveRelative(c)
    BY <1>1 DEF HasDriveRoot, IsDriveRelative
  <2> QED
    BY <2>1, <2>2, <2>3 DEF IsAbsolutePathLike
<1>6. NormalizeRelative(c) = Ok(c)
  <2>1. IsOk(cc) /\ cc.value = ps
    BY <1>3, Outcomes
  <2> HIDE DEF c
  <2>2. NormalizeRelative(c) = Ok(Joined(ps))
    BY <1>1, <1>4, <1>5, <2>1 DEF Unless
  <2> QED
    BY <2>2 DEF c
<1>7. ~HasDotDot(c)
  <2>1. \A part \in ToSet(ps) : part \in RealNames(S)
    BY <1>2 DEF ToSet
  <2>2. \A part \in ToSet(Split(c)) : part # <<".", ".">>
    BY <1>1, <2>1 DEF RealNames, DotNames
  <2> QED
    BY <2>2 DEF HasDotDot
<1> HIDE DEF c
<1> DEFINE r == NormalizeRelative(c)
<1>8. normalizeUnityAssetPath(c) =
        Unless(c = <<>>, "ERR_EMPTY_PATH",
          Unless(Has(c, NUL), "ERR_NUL_BYTE",
            Unless(NeedsRelativeMarker(c), "ERR_ABSOLUTE_PATH",
              Unless(HasDotDot(c), "ERR_OUTSIDE_ROOT",
                Unless(Has(c, ":"), "ERR_INVALID_PATH",
                  IF IsOk(r) THEN Unless(~isAllowedUnityRoot(r.value), "ERR_INVALID_PATH", Ok(r.value)) ELSE r)))))
  BY <1>1, Zenon DEF normalizeUnityAssetPath, Then
<1>9. IsOk(r) /\ r.value = c /\ isAllowedUnityRoot(c)
  BY <1>6, Outcomes DEF c
<1> HIDE DEF r
<1>10. normalizeUnityAssetPath(c) = Ok(c)
  BY <1>1, <1>7, <1>8, <1>9 DEF Unless
<1> QED
  BY <1>10 DEF c
-----------------------------------------------------------------------------
(* Scoped paths.                                                             *)

\* The words the gateway puts before a scoped path.
FolderWords == {"Assets", "UnityMcpKnowledge", "Library", "SGGUnityMcp", "Temp"}

LEMMA ScopedWord ==
  ASSUME NEW x \in FolderWords
  PROVE  Scoped(<<x>>) /\ Split(<<x>>) = <<<<x>>>>
<1> DEFINE S == Symbols \ {NUL, "\\"}
           w == <<x>>
<1>1. x \in S /\ x # "/" /\ S \subseteq Symbols /\ NUL \notin S /\ "\\" \notin S /\ "/" \in S /\ x # "." /\ x \notin EncodedSeparators
  BY DEF FolderWords, Symbols, Written, NUL, EncodedSeparators
<1> HIDE DEF S
<1>2. w \in Seq(S) /\ Len(w) = 1 /\ w[1] = x /\ w # <<>> /\ w \in PartsOf(S)
  BY <1>1 DEF PartsOf
<1>3. w \in RealNames(S)
  <2>1. w # <<".">> /\ w # <<".", ".">>
    BY <1>1, <1>2
  <2> HIDE DEF w
  <2> QED
    BY <1>2, <2>1 DEF RealNames, DotNames
<1> HIDE DEF w
<1>4. Split(w) = <<w>>
  BY <1>2, SplitOfPart
<1>5. <<w>> \in Seq(RealNames(S)) /\ <<w>> # <<>>
  BY <1>3
<1>6. Joined(<<w>>) = w
  BY <1>1, <1>2, JoinedOfOne
<1>7. w \in Seq(Symbols) /\ ~Has(w, NUL) /\ ~Has(w, "\\")
  BY <1>1, <1>2, SeqMonotonic, HasMeans
<1>8. ToSet(w) \cap EncodedSeparators = {}
  BY <1>1, <1>2 DEF ToSet
<1>9. ~NeedsRelativeMarker(w)
  BY <1>2, DriveRootMeans
<1>10. NarrowNames = RealNames(S)
  BY DEF NarrowNames, S
<1>11. Scoped(w)
  BY <1>2, <1>4, <1>5, <1>6, <1>7, <1>8, <1>9, <1>10 DEF Scoped
<1> QED
  BY <1>4, <1>11 DEF w

\* A scoped text below another one.
LEMMA ScopedBelow ==
  ASSUME NEW w, NEW p, Scoped(w), Scoped(p)
  PROVE  Scoped(w \o <<"/">> \o p) /\ Split(w \o <<"/">> \o p) = Split(w) \o Split(p)
<1> DEFINE c == w \o <<"/">> \o p
           a == Split(w)
           b == Split(p)
<1>1. /\ w \in Seq(Symbols) /\ w # <<>> /\ p \in Seq(Symbols) /\ "/" \in Symbols
      /\ a \in Seq(NarrowNames) /\ b \in Seq(NarrowNames) /\ a # <<>> /\ b # <<>>
      /\ ~NeedsRelativeMarker(w)
  BY DEF Scoped, Symbols, Written
<1>2. c \in Seq(Symbols) /\ Len(c) = Len(w) + 1 + Len(p) /\ c = Append(w, "/") \o p
  BY <1>1, SlashBetween
<1>3. Split(c) = a \o b
  BY <1>1, SplitOfConcat
<1>4. Joined(Split(c)) = c
  BY <1>1, <1>2, JoinedOfSplit
<1>5. a \o b \in Seq(NarrowNames) /\ a \o b # <<>>
  <2> HIDE DEF a, b
  <2> QED
    BY <1>1
<1> HIDE DEF a, b
<1>6. /\ \A i \in 1 .. Len(w) : c[i] = w[i]
      /\ c[Len(w) + 1] = "/"
      /\ \A i \in 1 .. Len(p) : c[Len(w) + 1 + i] = p[i]
  <2> DEFINE h == Append(w, "/")
  <2>1. h \in Seq(Symbols) /\ Len(h) = Len(w) + 1 /\ h[Len(w) + 1] = "/" /\ \A i \in 1 .. Len(w) : h[i] = w[i]
    BY <1>1
  <2> HIDE DEF h
  <2>2. /\ \A i \in 1 .. Len(h) : (h \o p)[i] = h[i]
        /\ \A i \in 1 .. Len(p) : (h \o p)[Len(h) + i] = p[i]
    BY <1>1, <2>1, ConcatAt
  <2>3. c = h \o p
    BY <1>2 DEF h
  <2>4. Len(w) \in Nat /\ Len(p) \in Nat
    BY <1>1
  <2> HIDE DEF c
  <2> QED
    BY <2>1, <2>2, <2>3, <2>4
<1> HIDE DEF c
<1>7. Len(w) \in Nat \ {0} /\ Len(p) \in Nat
  BY <1>1
<1>8. \A i \in 1 .. Len(c) : \/ c[i] = "/" \/ \E j \in 1 .. Len(w) : c[i] = w[j]
                             \/ \E j \in 1 .. Len(p) : c[i] = p[j]
  <2> SUFFICES ASSUME NEW i \in 1 .. Len(c)
               PROVE  \/ c[i] = "/" \/ \E j \in 1 .. Len(w) : c[i] = w[j]
                      \/ \E j \in 1 .. Len(p) : c[i] = p[j]
    OBVIOUS
  <2>1. CASE i <= Len(w)
    BY <1>6, <1>7, <2>1
  <2>2. CASE i = Len(w) + 1
    BY <1>6, <2>2
  <2>3. CASE i > Len(w) + 1
    <3> DEFINE k == i - Len(w) - 1
    <3>1. k \in 1 .. Len(p) /\ i = Len(w) + 1 + k
      BY <1>2, <1>7, <2>3
    <3> QED
      BY <1>6, <3>1
  <2> QED
    BY <1>2, <1>7, <2>1, <2>2, <2>3
<1>9. ~Has(c, NUL) /\ ~Has(c, "\\")
  <2>1. ~Has(w, NUL) /\ ~Has(w, "\\") /\ ~Has(p, NUL) /\ ~Has(p, "\\") /\ NUL # "/" /\ "\\" # "/"
    BY DEF Scoped, NUL
  <2>2. ASSUME NEW x, x # "/", ~Has(w, x), ~Has(p, x) PROVE ~Has(c, x)
    <3>1. \A j \in 1 .. Len(w) : w[j] # x
      BY <1>1, <2>2, HasMeans
    <3>2. \A j \in 1 .. Len(p) : p[j] # x
      BY <1>1, <2>2, HasMeans
    <3>3. \A i \in 1 .. Len(c) : c[i] # x
      BY <1>8, <2>2, <3>1, <3>2
    <3> QED
      BY <1>2, <3>3, HasMeans
  <2> QED
    BY <2>1, <2>2
<1>10. ToSet(c) \cap EncodedSeparators = {}
  <2>1. \A s \in Seq(Symbols) : ToSet(s) = {s[i] : i \in 1 .. Len(s)}
    BY DEF ToSet
  <2>2. (\A j \in 1 .. Len(w) : w[j] \notin EncodedSeparators) /\ (\A j \in 1 .. Len(p) : p[j] \notin EncodedSeparators)
    BY <1>1, <2>1 DEF Scoped
  <2>3. "/" \notin EncodedSeparators
    BY DEF EncodedSeparators
  <2>4. \A i \in 1 .. Len(c) : c[i] \notin EncodedSeparators
    BY <1>8, <2>2, <2>3
  <2> QED
    BY <1>2, <2>1, <2>4
<1>11. ~NeedsRelativeMarker(c)
  <2>1. NeedsRelativeMarker(c) <=> Len(c) >= 2 /\ c[1] \in Letters /\ c[2] = ":"
    BY <1>2, DriveRootMeans
  <2>2. NeedsRelativeMarker(w) <=> Len(w) >= 2 /\ w[1] \in Letters /\ w[2] = ":"
    BY <1>1, DriveRootMeans
  <2>3. CASE Len(w) = 1
    <3>1. c[2] = "/" /\ "/" # ":"
      <4>1. Len(w) + 1 = 2
        BY <2>3
      <4> QED
        BY <1>6, <4>1
    <3> QED
      BY <2>1, <3>1
  <2>4. CASE Len(w) >= 2
    <3>1. c[1] = w[1] /\ c[2] = w[2]
      BY <1>6, <1>7, <2>4
    <3>2. ~(w[1] \in Letters /\ w[2] = ":")
      BY <1>1, <2>2, <2>4
    <3>3. ~(c[1] \in Letters /\ c[2] = ":")
      BY <3>1, <3>2
    <3> QED
      BY <2>1, <3>3
  <2>5. Len(w) = 1 \/ Len(w) >= 2
    BY <1>7
  <2> QED
    BY <2>3, <2>4, <2>5, Zenon
<1>12. c # <<>>
  BY <1>2, <1>7
<1>13. Scoped(c)
  BY <1>2, <1>3, <1>4, <1>5, <1>9, <1>10, <1>11, <1>12 DEF Scoped
<1> QED
  BY <1>3, <1>13 DEF c, a, b

\* Two words and what is below them.
LEMMA ScopedFolder ==
  ASSUME NEW x \in FolderWords, NEW y \in FolderWords
  PROVE  LET w == <<x, "/", y>>
         IN Scoped(w) /\ \A p \in Seq(Symbols) : <<x, "/", y, "/">> \o p = w \o <<"/">> \o p
<1> DEFINE w == <<x, "/", y>>
<1>1. x \in Symbols /\ y \in Symbols /\ "/" \in Symbols
  BY DEF FolderWords, Symbols, Written
<1>2. <<x>> \o <<"/">> \o <<y>> = w
  <2> HIDE DEF Symbols
  <2>1. <<x>> \o <<"/">> = <<x, "/">> /\ <<x, "/">> \in Seq(Symbols)
    BY <1>1, Pair
  <2> DEFINE s == <<x, "/">> \o <<y>>
  <2>2. s \in Seq(Symbols) /\ Len(s) = 3 /\ s[1] = x /\ s[2] = "/" /\ s[3] = y
    BY <1>1
  <2>3. w \in Seq(Symbols) /\ Len(w) = 3 /\ w[1] = x /\ w[2] = "/" /\ w[3] = y
    BY <1>1
  <2> HIDE DEF s, w
  <2>4. s = w
    BY <2>2, <2>3
  <2> QED
    BY <2>1, <2>4 DEF s
<1>3. Scoped(w)
  <2>1. Scoped(<<x>>) /\ Scoped(<<y>>)
    BY ScopedWord
  <2>2. Scoped(<<x>> \o <<"/">> \o <<y>>)
    BY <2>1, ScopedBelow
  <2> QED
    BY <1>2, <2>2
<1>4. <<x, "/", y, "/">> = w \o <<"/">>
  <2> HIDE DEF Symbols
  <2> DEFINE s == w \o <<"/">>
             t == <<x, "/", y, "/">>
  <2>1. s \in Seq(Symbols) /\ Len(s) = 4 /\ s[1] = x /\ s[2] = "/" /\ s[3] = y /\ s[4] = "/"
    BY <1>1
  <2>2. t \in Seq(Symbols) /\ Len(t) = 4 /\ t[1] = x /\ t[2] = "/" /\ t[3] = y /\ t[4] = "/"
    BY <1>1
  <2> HIDE DEF s, t
  <2>3. s = t
    BY <2>1, <2>2
  <2> QED
    BY <2>3 DEF s, t
<1> QED
  BY <1>3, <1>4

LEMMA AppendAt ==
  ASSUME NEW T, NEW s \in Seq(T), NEW x \in T
  PROVE  /\ Append(s, x) \in Seq(T) /\ Len(Append(s, x)) = Len(s) + 1 /\ Append(s, x)[Len(s) + 1] = x
         /\ \A i \in 1 .. Len(s) : Append(s, x)[i] = s[i]
         /\ s \o <<x>> = Append(s, x)
OBVIOUS

LEMMA FifthAppended ==
  ASSUME NEW T, NEW s \in Seq(T), Len(s) = 4, NEW x \in T
  PROVE  s \o <<x>> = <<s[1], s[2], s[3], s[4], x>>
<1> DEFINE u == s \o <<x>>
           v == <<s[1], s[2], s[3], s[4], x>>
<1>1. u \in Seq(T) /\ Len(u) = 5 /\ u[5] = x /\ \A i \in 1 .. 4 : u[i] = s[i]
  <2>1. /\ Append(s, x) \in Seq(T) /\ Len(Append(s, x)) = Len(s) + 1 /\ Append(s, x)[Len(s) + 1] = x
        /\ \A i \in 1 .. Len(s) : Append(s, x)[i] = s[i]
        /\ u = Append(s, x)
    BY AppendAt
  <2>2. Len(s) + 1 = 5 /\ 1 .. Len(s) = 1 .. 4
    OBVIOUS
  <2> HIDE DEF u
  <2> QED
    BY <2>1, <2>2, Zenon
<1>2. \A i \in 1 .. 4 : s[i] \in T
  <2>1. \A i \in 1 .. Len(s) : s[i] \in T
    BY ElementOfSeq
  <2>2. 1 .. Len(s) = 1 .. 4
    OBVIOUS
  <2> QED
    BY <2>1, <2>2, Zenon
<1>3. s[1] \in T /\ s[2] \in T /\ s[3] \in T /\ s[4] \in T
  BY <1>2
<1>4. v \in Seq(T) /\ Len(v) = 5 /\ v[5] = x /\ v[1] = s[1] /\ v[2] = s[2] /\ v[3] = s[3] /\ v[4] = s[4]
  BY <1>3
<1> HIDE DEF u, v
<1>5. \A i \in 1 .. 5 : u[i] = v[i]
  BY <1>1, <1>4
<1>6. u = v
  BY <1>1, <1>4, <1>5
<1> QED
  BY <1>6 DEF u, v

\* One of the folders holds it.
LEMMA UnderAny ==
  ASSUME NEW S, "/" \in S, NEW v \in Seq(S), NEW roots \in SUBSET Seq(S), startsWithAny(v, roots)
  PROVE  \E r \in roots : IsPrefix(Split(r), Split(v))
BY UnderMeans DEF startsWithAny

\* Below a folder, what is below a name stays below it.
LEMMA PrefixBelow ==
  ASSUME NEW T, NEW a \in Seq(T), NEW b \in Seq(T), NEW d \in Seq(T), IsPrefix(b, d)
  PROVE  IsPrefix(a \o b, a \o d)
<1> DEFINE q == From(d, Len(b) + 1)
<1>1. d = b \o q /\ q \in Seq(T)
  BY StartsWithGives DEF StartsWith
<1> HIDE DEF q
<1>2. Same(a \o b \o q, a \o (b \o q))
  BY <1>1, Moved
<1>3. StartsWith((a \o b) \o q, a \o b)
  <2>1. a \o b \in Seq(T)
    OBVIOUS
  <2> QED
    BY <1>1, <2>1, StartsWithConcat
<1> QED
  BY <1>1, <1>2, <1>3 DEF Same, StartsWith

\* The project-relative path is scoped text too, below a root of its scope.
LEMMA ScopeRooted ==
  ASSUME NEW scope \in Scopes, NEW p, Scoped(p), ScopeAllows(scope, p)
  PROVE  LET c == ScopePrefix(scope) \o p
         IN Scoped(c) /\ \E r \in allowedRoots(scope) : IsPrefix(Split(r), Split(c))
<1> DEFINE c == ScopePrefix(scope) \o p
           T == Symbols \cup {"job-artifacts", "screenshots", "Packages", "manifest.json", "packages-lock.json", "index"}
<1>1. p \in Seq(Symbols) /\ "/" \in Symbols /\ "/" \in T
  BY DEF Scoped, Symbols, Written
<1>2. p \in Seq(T) /\ \A x \in Seq(Symbols) : x \in Seq(T)
  BY <1>1, SeqMonotonic
<1>3. /\ {<<"Assets">>, <<"Packages">>, <<"index">>, <<"job-artifacts">>, <<"screenshots">>} \subseteq Seq(T)
      /\ Manifests \subseteq Seq(T)
  BY DEF Manifests, T, Symbols, Written
<1> HIDE DEF T
<1>4. CASE scope \in {"unity_asset", "package_manifest", "gateway_cache"}
  <2>1. ScopePrefix(scope) = <<>>
    BY <1>4 DEF ScopePrefix
  <2>2. c = p
    BY <1>1, <2>1
  <2>3. CASE scope = "unity_asset"
    <3>1. startsWithAny(p, {<<"Assets">>, <<"Packages">>}) /\ allowedRoots(scope) = {<<"Assets">>, <<"Packages">>}
      BY <2>3 DEF ScopeAllows, allowedRoots
    <3>2. {<<"Assets">>, <<"Packages">>} \in SUBSET Seq(T)
      BY <1>3
    <3>3. \E r \in allowedRoots(scope) : IsPrefix(Split(r), Split(p))
      BY <1>1, <1>2, <3>1, <3>2, UnderAny
    <3> QED
      BY <2>2, <3>3
  <2>4. CASE scope = "package_manifest"
    <3>1. p \in allowedRoots(scope)
      BY <2>4 DEF ScopeAllows, allowedRoots, Manifests
    <3>2. IsPrefix(Split(p), Split(p))
      BY <1>1, UnderMeans
    <3> QED
      BY <2>2, <3>1, <3>2
  <2>5. CASE scope = "gateway_cache"
    <3>1. startsWithAny(p, {<<"index">>}) /\ allowedRoots(scope) = {<<"index">>}
      BY <2>5 DEF ScopeAllows, allowedRoots
    <3>2. {<<"index">>} \in SUBSET Seq(T)
      BY <1>3
    <3>3. \E r \in allowedRoots(scope) : IsPrefix(Split(r), Split(p))
      BY <1>1, <1>2, <3>1, <3>2, UnderAny
    <3> QED
      BY <2>2, <3>3
  <2>6. Scoped(c)
    BY <2>2
  <2> HIDE DEF c
  <2> QED
    BY <1>4, <2>3, <2>4, <2>5, <2>6
<1>5. ASSUME NEW x \in FolderWords, NEW y \in FolderWords, ScopePrefix(scope) = <<x, "/", y, "/">>
      PROVE  LET w == <<x, "/", y>>
             IN /\ Scoped(c) /\ Scoped(w) /\ Split(c) = Split(w) \o Split(p) /\ IsPrefix(Split(w), Split(c))
  <2> DEFINE w == <<x, "/", y>>
  <2>1. Scoped(w) /\ <<x, "/", y, "/">> \o p = w \o <<"/">> \o p
    BY <1>1, ScopedFolder
  <2> HIDE DEF w
  <2>2. c = w \o <<"/">> \o p
    BY <1>5, <2>1
  <2>3. Scoped(c) /\ Split(c) = Split(w) \o Split(p)
    BY <2>1, <2>2, ScopedBelow
  <2>4. Split(w) \in Seq(NarrowNames) /\ Split(p) \in Seq(NarrowNames)
    BY <2>1 DEF Scoped
  <2>5. StartsWith(Split(w) \o Split(p), Split(w))
    BY <2>4, StartsWithConcat
  <2> QED
    BY <2>1, <2>3, <2>5 DEF StartsWith, w
<1>6. CASE scope = "knowledge"
  <2>1. ScopePrefix(scope) = <<"Assets", "/", "UnityMcpKnowledge", "/">>
    BY <1>6 DEF ScopePrefix
  <2>2. <<"Assets", "/", "UnityMcpKnowledge">> \in allowedRoots(scope)
    BY <1>6 DEF allowedRoots
  <2>3. "Assets" \in FolderWords /\ "UnityMcpKnowledge" \in FolderWords
    BY DEF FolderWords
  <2> QED
    BY <1>5, <2>1, <2>2, <2>3
<1>7. CASE scope = "temp_session"
  <2>1. ScopePrefix(scope) = <<"Temp", "/", "SGGUnityMcp", "/">>
    BY <1>7 DEF ScopePrefix
  <2>2. <<"Temp", "/", "SGGUnityMcp">> \in allowedRoots(scope)
    BY <1>7 DEF allowedRoots
  <2>3. "Temp" \in FolderWords /\ "SGGUnityMcp" \in FolderWords
    BY DEF FolderWords
  <2> QED
    BY <1>5, <2>1, <2>2, <2>3
<1>8. CASE scope = "artifact"
  <2> DEFINE w == <<"Library", "/", "SGGUnityMcp">>
  <2>1. ScopePrefix(scope) = <<"Library", "/", "SGGUnityMcp", "/">>
    BY <1>8 DEF ScopePrefix
  <2>2. "Library" \in FolderWords /\ "SGGUnityMcp" \in FolderWords
    BY DEF FolderWords
  <2>3. Scoped(c) /\ Scoped(w) /\ Split(c) = Split(w) \o Split(p)
    BY <1>5, <2>1, <2>2
  <2>4. PICK f \in ArtifactFolders : IsPrefix(Split(f), Split(p))
    <3>1. startsWithAny(p, ArtifactFolders)
      BY <1>8 DEF ScopeAllows
    <3>2. ArtifactFolders \in SUBSET Seq(T)
      BY <1>3 DEF ArtifactFolders
    <3> QED
      BY <1>1, <1>2, <3>1, <3>2, UnderAny
  <2>5. PICK n \in {"job-artifacts", "screenshots"} : f = <<n>>
    BY <2>4 DEF ArtifactFolders
  <2> DEFINE r == <<"Library", "/", "SGGUnityMcp", "/", n>>
  <2>6. r \in allowedRoots(scope)
    BY <1>8 DEF allowedRoots
  <2>7. f \in Seq(T) /\ w \in Seq(T)
    BY <1>2, <1>3, <2>3, <2>5 DEF Scoped
  <2>8. r = w \o <<"/">> \o f
    <3>1. "Library" \in T /\ "SGGUnityMcp" \in T /\ n \in T
      BY DEF T, Symbols, Written
    <3> DEFINE s == w \o <<"/">>
    <3>2. s \in Seq(T) /\ Len(s) = 4 /\ s[1] = "Library" /\ s[2] = "/" /\ s[3] = "SGGUnityMcp" /\ s[4] = "/"
      BY <1>1, <3>1
    <3> HIDE DEF s
    <3>3. s \o <<n>> = <<s[1], s[2], s[3], s[4], n>>
      BY <3>1, <3>2, FifthAppended, Zenon
    <3>4. s \o <<n>> = r
      BY <3>2, <3>3, Zenon
    <3> QED
      BY <2>5, <3>4, Zenon DEF s
  <2> HIDE DEF w, r
  <2>9. Split(r) = Split(w) \o Split(f)
    BY <1>1, <2>7, <2>8, SplitOfConcat
  <2>10. Split(w) \in Seq(PartsOf(T)) /\ Split(f) \in Seq(PartsOf(T)) /\ Split(p) \in Seq(PartsOf(T))
    BY <1>2, <2>7, SplitType DEF PiecesOf
  <2>11. IsPrefix(Split(r), Split(c))
    BY <2>3, <2>4, <2>9, <2>10, PrefixBelow
  <2> QED
    BY <2>3, <2>6, <2>11
<1> QED
  BY <1>4, <1>6, <1>7, <1>8 DEF Scopes, WorkflowScopes
-----------------------------------------------------------------------------
(* The path service.                                                         *)

LEMMA NothingHas ==
  \A x : ~Has(<<>>, x)
BY DEF Has, Contains

\* What the vectors of scripts/validate-spec.mjs may record of a Unity path.
LEMMA UnityAnswered ==
  ASSUME NEW text \in Seq(Symbols)
  PROVE  LET r == normalizeUnityAssetPath(text)
         IN (IsOk(r) => assertUnityBridgePath(r.value)) /\ (Has(text, NUL) => r.code = "ERR_NUL_BYTE")
<1> DEFINE r == normalizeUnityAssetPath(text)
<1>1. ASSUME IsOk(r) PROVE assertUnityBridgePath(r.value)
  <2>1. PICK ps \in Seq(UnityNames) : ps # <<>> /\ r = Ok(Joined(ps)) /\ isAllowedUnityRoot(Joined(ps))
    BY <1>1, UnityGives
  <2>2. r.value = Joined(ps)
    BY <2>1, Outcomes
  <2>3. assertUnityBridgePath(Joined(ps))
    BY <2>1, UnityIsAccepted
  <2> HIDE DEF r
  <2> QED
    BY <2>2, <2>3, Zenon
<1>2. ASSUME Has(text, NUL) PROVE r.code = "ERR_NUL_BYTE"
  <2>1. text # <<>>
    BY <1>2, NothingHas, Zenon
  <2>2. r = Err("ERR_NUL_BYTE")
    BY <1>2, <2>1, Zenon DEF normalizeUnityAssetPath, Unless
  <2> HIDE DEF r
  <2> QED
    BY <2>2 DEF Err
<1> QED
  BY <1>1, <1>2

\* And of a scoped path.
LEMMA ScopedAnswered ==
  ASSUME NEW scope \in Scopes, NEW text \in Seq(Symbols)
  PROVE  UnityMcpScopeVector(scope, text, normalizeScopedPath(scope, text))
<1> DEFINE r == normalizeScopedPath(scope, text)
<1>1. ASSUME IsOk(r)
      PROVE  /\ assertUnityMcpRelativePath(r.value)
             /\ \E top \in allowedRoots(scope) : IsPrefix(Split(top), Split(r.value))
  <2> DEFINE c == ScopePrefix(scope) \o text
  <2>1. Scoped(text) /\ ScopeAllows(scope, text) /\ r = Ok(c)
    BY <1>1, ScopeTakes
  <2>2. Scoped(c) /\ \E top \in allowedRoots(scope) : IsPrefix(Split(top), Split(c))
    BY <2>1, ScopeRooted
  <2>3. r.value = c
    BY <2>1, Outcomes
  <2> HIDE DEF c, r
  <2>4. AssertCanonicalRelativePath(c, TRUE)
    BY <2>2, ScopedIsAccepted
  <2>5. ToSet(c) \cap {"%2F", "%5C"} = {}
    BY <2>2 DEF Scoped, EncodedSeparators
  <2>6. assertUnityMcpRelativePath(c)
    BY <2>4, <2>5 DEF assertUnityMcpRelativePath
  <2> QED
    BY <2>2, <2>3, <2>6, Zenon
<1>2. ASSUME Has(text, NUL) PROVE r.code = "ERR_NUL_BYTE"
  <2> DEFINE clean == validateScopedRelativeInput(text)
  <2>1. text # <<>>
    BY <1>2, NothingHas, Zenon
  <2>2. ScopedSyntax(text) = "ERR_NUL_BYTE"
    BY <1>2, Zenon DEF ScopedSyntax
  <2>3. "ERR_NUL_BYTE" # "ok"
    OBVIOUS
  <2>4. clean = Err("ERR_NUL_BYTE")
    BY <2>1, <2>2, <2>3, Zenon DEF validateScopedRelativeInput, Unless
  <2>5. ~IsOk(Err("ERR_NUL_BYTE"))
    BY <2>3, Outcomes, Zenon
  <2>6. ~IsOk(clean)
    BY <2>4, <2>5, Zenon
  <2>7. r = clean
    BY <2>6, Zenon DEF normalizeScopedPath, Then
  <2>8. r = Err("ERR_NUL_BYTE")
    BY <2>4, <2>7, Zenon
  <2> HIDE DEF r, clean
  <2> QED
    BY <2>8 DEF Err
<1> HIDE DEF r
<1>3. UnityMcpScopeVector(scope, text, r)
  BY <1>1, <1>2 DEF UnityMcpScopeVector
<1> QED
  BY <1>3 DEF r

\* What is joined to an anchored root is found again below it.
LEMMA FoundAgain ==
  ASSUME NEW r, Anchored(r), NEW more, NEW c, c = Joined(more), MarkRelative(c) = c,
         \A kind : more \in Seq(NamesOf(kind))
  PROVE  \E w : JoinPath(r, c) = Ok(w) /\ Relative(r, w) = Ok(c)
<1>1. PICK kind, prefix : \E kept \in Seq(NamesOf(kind)) :
        kind # "relative" /\ RootAt(kind, prefix) /\ r = Whole(kind, prefix, kept)
  BY DEF Anchored
<1>2. PICK kept \in Seq(NamesOf(kind)) :
        kind # "relative" /\ RootAt(kind, prefix) /\ r = Whole(kind, prefix, kept)
  BY <1>1
<1>3. more \in Seq(NamesOf(kind)) /\ MarkRelative(Joined(more)) = c
  BY Zenon
<1> DEFINE w == Whole(kind, prefix, kept \o more)
<1>4. JoinPath(Whole(kind, prefix, kept), MarkRelative(Joined(more))) = Ok(w)
  BY <1>2, <1>3, JoinRelative
<1>5. Relative(Whole(kind, prefix, kept), w) = Ok(MarkRelative(Joined(more)))
  BY <1>2, <1>3, RelativeOf
<1> HIDE DEF w
<1> QED
  BY <1>2, <1>3, <1>4, <1>5, Zenon

\* A scoped path below the root of a project.
LEMMA ScopedFound ==
  ASSUME NEW r, Anchored(r), NEW scope \in Scopes, NEW text \in Seq(Symbols),
         IsOk(toScopedCanonicalPath(r, scope, text))
  PROVE  Relative(r, toScopedCanonicalPath(r, scope, text).value) = normalizeScopedPath(scope, text)
<1> DEFINE n == normalizeScopedPath(scope, text)
           q == toScopedCanonicalPath(r, scope, text)
           c == ScopePrefix(scope) \o text
<1>1. q = IF IsOk(n) THEN Unless(scope = "gateway_cache", "ERR_INVALID_PATH", JoinPath(r, n.value)) ELSE n
  BY Zenon DEF toScopedCanonicalPath, Then
<1>2. \A x : Err(x).code = x
  BY DEF Err
<1>3. IsOk(n) /\ q = JoinPath(r, n.value)
  <2> HIDE DEF n
  <2>1. IsOk(q)
    OBVIOUS
  <2> HIDE DEF q
  <2> QED
    BY <1>1, <1>2, <2>1 DEF Unless, IsOk
<1>4. Scoped(text) /\ ScopeAllows(scope, text) /\ n = Ok(c)
  BY <1>3, ScopeTakes
<1>5. n.value = c
  BY <1>4, Outcomes
<1>6. Scoped(c)
  BY <1>4, ScopeRooted
<1> HIDE DEF n, c
<1> DEFINE more == Split(c)
<1>7. c = Joined(more) /\ MarkRelative(c) = c /\ more \in Seq(NarrowNames)
  BY <1>6 DEF Scoped, MarkRelative
<1>8. \A kind : more \in Seq(NamesOf(kind))
  <2> SUFFICES ASSUME NEW kind PROVE more \in Seq(NamesOf(kind))
    OBVIOUS
  <2>1. NarrowNames \subseteq NamesOf(kind)
    BY NarrowNamesFit
  <2> HIDE DEF more
  <2> QED
    BY <1>7, <2>1, SeqMonotonic
<1> HIDE DEF more
<1>9. PICK w : JoinPath(r, c) = Ok(w) /\ Relative(r, w) = Ok(c)
  BY <1>7, <1>8, FoundAgain
<1>10. q = Ok(w)
  BY <1>3, <1>5, <1>9, Zenon
<1>11. q.value = w
  <2> HIDE DEF q
  <2> QED
    BY <1>10, Outcomes
<1> HIDE DEF q
<1>12. Relative(r, q.value) = n
  BY <1>4, <1>9, <1>11, Zenon
<1> QED
  BY <1>12 DEF q, n

\* A Unity path and its canonical path lead to one another.
LEMMA UnityBack ==
  ASSUME NEW r, Anchored(r), NEW text \in Seq(Symbols), IsOk(normalizeUnityAssetPath(text))
  PROVE  \E u, w : /\ normalizeUnityAssetPath(text) = Ok(u)
                   /\ fromUnityAssetPath(r, u) = Ok(w) /\ toUnityAssetPath(r, w) = Ok(u)
<1>1. PICK ps \in Seq(UnityNames) :
        ps # <<>> /\ normalizeUnityAssetPath(text) = Ok(Joined(ps)) /\ isAllowedUnityRoot(Joined(ps))
  BY UnityGives
<1> DEFINE u == Joined(ps)
<1>2. MarkRelative(u) = u /\ ~Has(u, "\\")
  BY <1>1, UnityText
<1>3. normalizeUnityAssetPath(u) = Ok(u)
  BY <1>1, UnityAgain
<1>4. \A kind : ps \in Seq(NamesOf(kind))
  <2> SUFFICES ASSUME NEW kind PROVE ps \in Seq(NamesOf(kind))
    OBVIOUS
  <2>1. UnityNames \subseteq NamesOf(kind)
    BY UnityNamesFit
  <2> QED
    BY <2>1, SeqMonotonic
<1>5. PICK w : JoinPath(r, u) = Ok(w) /\ Relative(r, w) = Ok(u)
  BY <1>2, <1>4, FoundAgain
<1> HIDE DEF u
<1>6. IsOk(Ok(u)) /\ Ok(u).value = u
  BY Outcomes
<1>7. fromUnityAssetPath(r, u) = Ok(w)
  <2> DEFINE n == normalizeUnityAssetPath(u)
  <2>1. fromUnityAssetPath(r, u) = IF IsOk(n) THEN JoinPath(r, n.value) ELSE n
    BY Zenon DEF fromUnityAssetPath, Then
  <2>2. IsOk(n) /\ n.value = u
    BY <1>3, <1>6, Zenon
  <2> HIDE DEF n
  <2> QED
    BY <1>5, <2>1, <2>2, Zenon
<1>8. toUnityAssetPath(r, w) = Ok(u)
  <2> DEFINE n == Relative(r, w)
  <2>1. toUnityAssetPath(r, w)
          = IF IsOk(n) THEN Unless(Has(n.value, "\\"), "ERR_INVALID_PATH", normalizeUnityAssetPath(n.value)) ELSE n
    BY Zenon DEF toUnityAssetPath, Then
  <2>2. IsOk(n) /\ n.value = u
    BY <1>5, <1>6, Zenon
  <2> HIDE DEF n
  <2>3. toUnityAssetPath(r, w) = Unless(Has(u, "\\"), "ERR_INVALID_PATH", normalizeUnityAssetPath(u))
    BY <2>1, <2>2, Zenon
  <2> QED
    BY <1>2, <1>3, <2>3, Zenon DEF Unless
<1> QED
  BY <1>1, <1>7, <1>8 DEF u

-----------------------------------------------------------------------------
(* Generated file names.                                                     *)

LEMMA FunctionIsSeq ==
  ASSUME NEW S, NEW n \in Nat, NEW f \in [1 .. n -> S]
  PROVE  f \in Seq(S) /\ Len(f) = n
OBVIOUS

LEMMA ConcatPlain ==
  \A p, q \in Seq(Plain) :
    /\ p \o q \in Seq(Plain) /\ Len(p \o q) = Len(p) + Len(q)
    /\ \A i \in 1 .. Len(p) : (p \o q)[i] = p[i]
    /\ \A i \in 1 .. Len(q) : (p \o q)[Len(p) + i] = q[i]
BY ConcatAt

LEMMA SecondPlace ==
  \A n \in Nat : n >= 1 /\ n # 1 => 1 \in 1 .. n /\ 2 \in 1 .. n
OBVIOUS

\* What is left when only the end is trimmed begins as the text does.
LEMMA TrimmedEnd ==
  ASSUME NEW S, NEW s \in Seq(S), NEW set
  PROVE  LET u == Trimmed(s, set, FALSE)
         IN /\ u \in Seq(S) /\ Len(u) \in Nat /\ Len(u) <= Len(s)
            /\ \A i \in 1 .. Len(u) : u[i] = s[i]
<1> DEFINE kept == {i \in DOMAIN s : s[i] \notin set}
           low == CHOOSE i \in kept : \A j \in kept : i <= j
           high == CHOOSE i \in kept : \A j \in kept : j <= i
           u == Trimmed(s, set, FALSE)
<1>1. Len(s) \in Nat /\ kept \subseteq 1 .. Len(s)
  OBVIOUS
<1>2. u = IF kept = {} THEN <<>> ELSE SubSeq(s, 1, high)
  <2>1. u = IF kept = {} THEN <<>> ELSE SubSeq(s, IF FALSE THEN low ELSE 1, high)
    BY Zenon DEF Trimmed
  <2>2. (IF FALSE THEN low ELSE 1) = 1
    OBVIOUS
  <2> QED
    BY <2>1, <2>2, Zenon
<1> HIDE DEF kept, u
<1>3. CASE kept = {}
  <2>1. u = <<>>
    BY <1>2, <1>3, Zenon
  <2>2. <<>> \in Seq(S) /\ Len(<<>>) = 0 /\ 1 .. 0 = {} /\ 0 \in Nat /\ 0 <= Len(s)
    BY <1>1
  <2>3. u \in Seq(S) /\ Len(u) \in Nat /\ Len(u) <= Len(s) /\ 1 .. Len(u) = {}
    BY <2>1, <2>2, Zenon
  <2> QED
    BY <2>3 DEF u
<1>4. CASE kept # {}
  <2>1. \E i \in kept : \A j \in kept : j <= i
    BY <1>1, <1>4, GreatestOf
  <2>2. high \in kept
    BY <2>1, Zenon
  <2> HIDE DEF high
  <2>3. high \in Nat /\ high <= Len(s) /\ 1 \in Nat \ {0} /\ high >= 1
    BY <1>1, <2>2
  <2> DEFINE w == SubSeq(s, 1, high)
  <2>4. w \in Seq(S) /\ Len(w) = (IF 1 <= high THEN high - 1 + 1 ELSE 0)
        /\ \A i \in 1 .. high - 1 + 1 : w[i] = s[1 + i - 1]
    BY <2>3, PartType
  <2> HIDE DEF w
  <2>5. Len(w) = high /\ \A i \in 1 .. high : w[i] = s[i]
    BY <2>3, <2>4
  <2>6. u = w
    BY <1>2, <1>4, Zenon DEF w
  <2>7. u \in Seq(S) /\ Len(u) \in Nat /\ Len(u) <= Len(s) /\ \A i \in 1 .. Len(u) : u[i] = s[i]
    BY <2>3, <2>4, <2>5, <2>6
  <2> QED
    BY <2>7 DEF u
<1> QED
  BY <1>3, <1>4

LEMMA FilePlain ==
  "file" \in Plain /\ "#" \in Plain /\ "-" \in Plain /\ "file" \notin Trimmable
  /\ <<"file">> \in Seq(Plain) /\ Len(<<"file">>) = 1 /\ <<"file">>[1] = "file" /\ Upper("file") # "CON"
<1>1. "file" \in Plain /\ "#" \in Plain
  BY DEF Plain, Symbols, Written, Separators, NUL
<1>2. "-" \in Plain
  BY PlainSigns
<1>3. "file" \notin Trimmable
  BY DEF Trimmable
<1>4. Upper("file") # "CON"
  BY DEF Upper
<1> HIDE DEF Plain
<1> QED
  BY <1>1, <1>2, <1>3, <1>4

\* A name that is cut off.
LEMMA CutName ==
  ASSUME NEW s \in Seq(Plain), NEW k \in Nat \ {0}, k <= Len(s)
  PROVE  LET t == trimGeneratedName(SubSeq(s, 1, k))
         IN /\ t \in Seq(Plain) /\ Len(t) \in 1 .. k
            /\ t = <<"file">> \/ \A i \in 1 .. Len(t) : t[i] = s[i]
<1> DEFINE cut == SubSeq(s, 1, k)
           u == Trimmed(cut, Trimmable, FALSE)
           t == trimGeneratedName(cut)
<1>1. cut \in Seq(Plain) /\ Len(cut) = k /\ \A i \in 1 .. k : cut[i] = s[i]
  <2>1. 1 \in Nat \ {0} /\ k \in Nat /\ 1 <= k
    OBVIOUS
  <2>2. cut \in Seq(Plain) /\ Len(cut) = (IF 1 <= k THEN k - 1 + 1 ELSE 0)
        /\ \A i \in 1 .. k - 1 + 1 : cut[i] = s[1 + i - 1]
    BY <2>1, PartType
  <2> HIDE DEF cut
  <2> QED
    BY <2>1, <2>2
<1> HIDE DEF cut
<1>2. u \in Seq(Plain) /\ Len(u) \in Nat /\ Len(u) <= Len(cut) /\ \A i \in 1 .. Len(u) : u[i] = cut[i]
  BY <1>1, TrimmedEnd
<1>3. t = IF u = <<>> THEN <<"file">> ELSE u
  BY Zenon DEF trimGeneratedName
<1> HIDE DEF u, t
<1>4. CASE u = <<>>
  <2>1. t = <<"file">>
    BY <1>3, <1>4, Zenon
  <2>2. t \in Seq(Plain) /\ Len(t) = 1
    BY <2>1, FilePlain, Zenon
  <2>3. Len(t) \in 1 .. k
    BY <2>2
  <2> QED
    BY <2>1, <2>2, <2>3, Zenon DEF t, cut
<1>5. CASE u # <<>>
  <2>1. t = u
    BY <1>3, <1>5, Zenon
  <2>2. Len(u) >= 1
    BY <1>2, <1>5
  <2>3. t \in Seq(Plain) /\ Len(t) \in 1 .. k /\ \A i \in 1 .. Len(t) : t[i] = s[i]
    BY <1>1, <1>2, <2>1, <2>2
  <2> QED
    BY <2>3 DEF t, cut
<1> QED
  BY <1>4, <1>5

\* A device and an extension are a device.
LEMMA DottedIsDevice ==
  ASSUME NEW v \in Seq(Plain), Len(v) >= 2, Upper(v[1]) = "CON", v[2] = "."
  PROVE  Device(v)
<1> DEFINE k == IndexFrom(v, 1, ".")
           base == SubSeq(v, 1, k - 1)
           m == Mapped(base, Upper)
<1>1. k \in 1 .. Len(v) + 1 /\ (k = Len(v) + 1 \/ v[k] = ".") /\ \A j \in 1 .. k - 1 : v[j] # "."
  <2>1. 1 \in 1 .. Len(v) + 1
    OBVIOUS
  <2> QED
    BY <2>1, IndexMeans
<1>2. v[1] # "."
  <2>1. Upper(".") # "CON"
    BY DEF Upper
  <2> QED
    BY <2>1
<1> HIDE DEF k
<1>3. k = 2
  <2>1. Len(v) \in Nat
    OBVIOUS
  <2>2. k # 1
    BY <1>1, <1>2, <2>1
  <2>3. ~(k >= 3)
    <3>1. k >= 3 => 2 \in 1 .. k - 1
      BY <1>1
    <3> QED
      BY <1>1, <3>1
  <2> QED
    BY <1>1, <2>1, <2>2, <2>3
<1>4. base \in Seq(Plain) /\ Len(base) = 1 /\ base[1] = v[1]
  <2>1. 1 \in Nat \ {0} /\ 1 \in Nat /\ 1 <= Len(v) /\ k - 1 = 1
    BY <1>3
  <2> DEFINE b == SubSeq(v, 1, 1)
  <2>2. b \in Seq(Plain) /\ Len(b) = (IF 1 <= 1 THEN 1 - 1 + 1 ELSE 0) /\ \A i \in 1 .. 1 - 1 + 1 : b[i] = v[1 + i - 1]
    BY <2>1, PartType
  <2> HIDE DEF b
  <2>3. Len(b) = 1 /\ b[1] = v[1]
    BY <2>2
  <2>4. base = b
    BY <2>1, Zenon DEF b
  <2> QED
    BY <2>2, <2>3, <2>4, Zenon
<1> HIDE DEF base
<1>5. m = <<"CON">>
  <2>1. DOMAIN base = 1 .. 1
    BY <1>4
  <2>2. m = [i \in 1 .. 1 |-> Upper(base[i])]
    BY <2>1, Zenon DEF Mapped
  <2>3. Upper(base[1]) = "CON"
    BY <1>4, Zenon
  <2>4. m \in [1 .. 1 -> {"CON"}]
    BY <2>2, <2>3
  <2>6. m[1] = "CON"
    BY <2>2, <2>3
  <2> HIDE DEF m
  <2>5. m \in Seq({"CON"}) /\ Len(m) = 1
    <3>1. 1 \in Nat
      OBVIOUS
    <3> QED
      BY <2>4, <3>1, FunctionIsSeq, Zenon
  <2> QED
    BY <2>5, <2>6
<1>6. m \in DeviceNames
  BY <1>5, Zenon DEF DeviceNames
<1> QED
  BY <1>6, DeviceMeans DEF m, base, k

\* Dashes and a hash after a name that is cut off.
LEMMA HashedName ==
  ASSUME NEW s \in Seq(Plain), ~Device(s), NEW t \in Seq(Plain), Len(t) \in 1 .. Len(s), Len(s) >= 2,
         t = <<"file">> \/ \A i \in 1 .. Len(t) : t[i] = s[i]
  PROVE  LET v == t \o <<"-", "-">> \o Digest
         IN v \in Seq(Plain) /\ Len(v) = Len(t) + 10 /\ ~Device(v)
<1> DEFINE d == <<"-", "-">>
           h == t \o d
           v == h \o Digest
<1>1. d \in Seq(Plain) /\ Len(d) = 2 /\ d[1] = "-"
  <2>1. "-" \in Plain
    BY PlainSigns
  <2> QED
    BY <2>1
<1>2. Digest \in Seq(Plain) /\ Len(Digest) = 8
  <2>1. "#" \in Plain
    BY FilePlain
  <2>2. Digest \in [1 .. 8 -> Plain]
    BY <2>1 DEF Digest
  <2> DEFINE m == 8
  <2>3. m \in Nat /\ Digest \in [1 .. m -> Plain]
    BY <2>2
  <2> HIDE DEF d, h, v, m
  <2>4. Digest \in Seq(Plain) /\ Len(Digest) = m
    BY <2>3, FunctionIsSeq
  <2> QED
    BY <2>4 DEF m
<1> HIDE DEF d
<1>0. Len(t) \in Nat /\ Len(t) >= 1
  <2>1. Len(s) \in Nat
    OBVIOUS
  <2>2. \A n \in Nat : \A m \in 1 .. n : m \in Nat /\ m >= 1
    OBVIOUS
  <2> QED
    BY <2>1, <2>2, Zenon
<1>3. /\ h \in Seq(Plain) /\ Len(h) = Len(t) + Len(d)
      /\ \A i \in 1 .. Len(t) : h[i] = t[i]
      /\ \A i \in 1 .. Len(d) : h[Len(t) + i] = d[i]
  BY <1>1, ConcatPlain, Zenon
<1> HIDE DEF h
<1>4. /\ v \in Seq(Plain) /\ Len(v) = Len(h) + Len(Digest)
      /\ \A i \in 1 .. Len(h) : v[i] = h[i]
  BY <1>2, <1>3, ConcatPlain, Zenon
<1> HIDE DEF v
<1>5. Len(v) = Len(t) + 10 /\ Len(h) = Len(t) + 2
  BY <1>0, <1>1, <1>2, <1>3, <1>4
<1>6. v[1] = t[1] /\ v[2] = (IF Len(t) = 1 THEN "-" ELSE t[2])
  <2>1. 1 \in 1 .. Len(h) /\ 2 \in 1 .. Len(h) /\ 1 \in 1 .. Len(t)
    BY <1>0, <1>5
  <2>2. v[1] = h[1] /\ v[2] = h[2] /\ h[1] = t[1]
    BY <1>3, <1>4, <2>1
  <2>3. CASE Len(t) = 1
    <3>1. Len(t) + 1 = 2 /\ 1 \in 1 .. Len(d)
      BY <1>1, <2>3
    <3>2. h[2] = d[1]
      BY <1>3, <3>1, Zenon
    <3> QED
      BY <1>1, <2>2, <2>3, <3>2, Zenon
  <2>4. CASE Len(t) # 1
    <3>1. 2 \in 1 .. Len(t)
      BY <1>0, <2>4, SecondPlace, Zenon
    <3>2. h[2] = t[2]
      BY <1>3, <3>1
    <3> QED
      BY <2>2, <2>4, <3>2, Zenon
  <2> QED
    BY <2>3, <2>4
<1>7. ~Device(v)
  <2> SUFFICES ASSUME Device(v) PROVE FALSE
    OBVIOUS
  <2>1. Upper(v[1]) = "CON" /\ (Len(v) = 1 \/ v[2] = ".")
    BY <1>4, DeviceMeans
  <2>2. Upper(t[1]) = "CON" /\ v[2] = "."
    BY <1>3, <1>5, <1>6, <2>1
  <2>3. t # <<"file">>
    BY <2>2, FilePlain, Zenon
  <2>4. Len(t) # 1 /\ t[2] = "."
    <3>1. "-" # "."
      OBVIOUS
    <3> QED
      BY <1>6, <2>2, <3>1
  <2>5. 1 \in 1 .. Len(t) /\ 2 \in 1 .. Len(t)
    BY <1>0, <2>4, SecondPlace, Zenon
  <2>6. s[1] = t[1] /\ s[2] = t[2]
    BY <2>3, <2>5
  <2>7. Upper(s[1]) = "CON" /\ s[2] = "."
    BY <2>2, <2>4, <2>6, Zenon
  <2> QED
    BY <2>7, DottedIsDevice
<1> QED
  BY <1>4, <1>5, <1>7 DEF v, h, d

\* A plain name that is no device has no device in it.
LEMMA NoReservedName ==
  ASSUME NEW v \in Seq(Plain), v \notin DotNames, ~Device(v)
  PROVE  HasReservedDeviceName(v) = Ok(FALSE)
<1>1. v \in NamesOf("relative") /\ MarkRelative(Joined(<<v>>)) = v
  BY PlainNames, PlainIsRelative
<1> DEFINE more == <<v>>
<1>2. more \in Seq(NamesOf("relative")) /\ Whole("relative", <<>>, more) = v
  <2>1. more \in Seq(NamesOf("relative"))
    BY <1>1
  <2> QED
    BY <1>1, <2>1, Zenon DEF Whole
<1> HIDE DEF more
<1>3. RootAt("relative", <<>>)
  BY DEF RootAt
<1>4. SplitRoot(v) = Ok(Root("relative", <<>>, v))
  <2>1. SplitRoot(Whole("relative", <<>>, more))
          = Ok(Root("relative", <<>>, RestOf("relative", <<>>, more)))
    BY <1>2, <1>3, WholeIsCanonical
  <2>2. RestOf("relative", <<>>, more) = v
    BY <1>2, Zenon DEF RestOf
  <2> QED
    BY <1>2, <2>1, <2>2, Zenon
<1>5. Split(v) = <<v>>
  <2>1. v \in PartsOf(Alphabet("relative"))
    BY <1>1 DEF NamesOf, RealNames
  <2> QED
    BY <2>1, SplitOfPart
<1> DEFINE parts == ToSet(Split(v)) \ {<<>>, <<".">>, <<".", ".">>}
<1>6. ~\E part \in parts : Device(part)
  <2>1. ToSet(<<v>>) = {v}
    BY DEF ToSet
  <2> QED
    BY <1>5, <2>1
<1>7. HasReservedDeviceName(v) = Ok(\E part \in parts : Device(part))
  <2> DEFINE sr == SplitRoot(v)
  <2>1. IsOk(sr) /\ sr.value.rest = v
    BY <1>4, Outcomes
  <2>2. HasReservedDeviceName(v) =
          IF IsOk(sr) THEN Ok(\E part \in ToSet(Split(sr.value.rest)) \ {<<>>, <<".">>, <<".", ".">>} : Device(part)) ELSE sr
    BY Zenon DEF HasReservedDeviceName, Then, Device
  <2> HIDE DEF sr
  <2> QED
    BY <2>1, <2>2, Zenon
<1> HIDE DEF parts
<1>8. (\E part \in parts : Device(part)) = FALSE
  BY <1>6
<1> QED
  BY <1>7, <1>8, Zenon

\* The name that generatedName makes safe first.
SafeName(name) ==
  LET trimmed == Trimmed(Dashed(name, Separators), Trimmable, TRUE)
  IN escapeReservedWin32Component(IF trimmed = <<>> THEN <<"file">> ELSE trimmed)

LEMMA SafeNameMeans ==
  ASSUME NEW name \in Seq(Symbols), ~Has(name, NUL)
  PROVE  SafeName(name) \in Seq(Plain) /\ SafeName(name) \notin DotNames /\ ~Device(SafeName(name))
<1> DEFINE dashed == Dashed(name, Separators)
           trimmed == Trimmed(dashed, Trimmable, TRUE)
           value == IF trimmed = <<>> THEN <<"file">> ELSE trimmed
           u == escapeReservedWin32Component(value)
<1>1. dashed \in Seq(Plain)
  <2> DEFINE S == Symbols \ {NUL}
  <2>1. name \in Seq(S)
    BY HasMeans
  <2>2. "-" \in Plain /\ S \ Separators \subseteq Plain
    BY PlainSigns DEF Plain
  <2> HIDE DEF S
  <2> QED
    BY <2>1, <2>2, DashedType
<1>2. SafeName(name) = u
  BY Zenon DEF SafeName
<1> HIDE DEF dashed
<1>3. trimmed \in Seq(Plain) /\ (trimmed # <<>> => trimmed[1] \notin Trimmable)
  <2>1. TRUE \in BOOLEAN
    OBVIOUS
  <2> QED
    BY <1>1, <2>1, TrimmedType, TrimmedStarts
<1> HIDE DEF trimmed
<1>4. value \in Seq(Plain) /\ value \notin DotNames
  <2>1. <<".">>[1] \in Trimmable /\ <<".", ".">>[1] \in Trimmable
    BY DEF Trimmable
  <2>2. <<"file">> \notin DotNames
    <3>1. <<"file">> # <<>> /\ <<"file">>[1] \notin Trimmable
      BY FilePlain
    <3> QED
      BY <2>1, <3>1, Zenon DEF DotNames
  <2>3. CASE trimmed = <<>>
    BY <2>2, <2>3, FilePlain, Zenon
  <2>4. CASE trimmed # <<>>
    <3>1. trimmed \notin DotNames
      BY <1>3, <2>1, <2>4, Zenon DEF DotNames
    <3> QED
      BY <1>3, <2>4, <3>1, Zenon
  <2> QED
    BY <2>3, <2>4
<1> HIDE DEF value
<1>5. u \in Seq(Plain) /\ u \notin DotNames /\ ~Device(u)
  BY <1>4, EscapedIsNoDevice
<1> HIDE DEF u
<1> QED
  BY <1>2, <1>5, Zenon

\* What is answered of a generated name.
LEMMA NameAnswered ==
  ASSUME NEW name \in Seq(Symbols), NEW n \in Int
  PROVE  LET r == makeSafeFileName(name, n)
         IN /\ IsOk(r) => assertSafeFileName(r.value, n)
            /\ IsOk(r) /\ n > 10 => HasReservedDeviceName(r.value) = Ok(FALSE)
            /\ Has(name, NUL) /\ n > 0 => r.code = "ERR_NUL_BYTE"
<1> DEFINE safe == SafeName(name)
           made == IF Len(safe) <= n THEN safe
                   ELSE IF n <= 10 THEN trimGeneratedName(SubSeq(safe, 1, n))
                   ELSE trimGeneratedName(SubSeq(safe, 1, n - 10)) \o <<"-", "-">> \o Digest
           r == makeSafeFileName(name, n)
<1>1. r = Unless(n < 1 \/ name = <<>>, "ERR_INVALID_COMPONENT", Unless(Has(name, NUL), "ERR_NUL_BYTE", Ok(made)))
  BY Zenon DEF makeSafeFileName, generatedName, SafeName
<1>2. ASSUME Has(name, NUL), n > 0 PROVE r.code = "ERR_NUL_BYTE"
  <2>1. name # <<>>
    BY <1>2, NothingHas, Zenon
  <2>2. ~(n < 1 \/ name = <<>>)
    BY <1>2, <2>1
  <2> HIDE DEF r, made
  <2>3. r = Err("ERR_NUL_BYTE")
    BY <1>1, <1>2, <2>2, Zenon DEF Unless
  <2> QED
    BY <2>3 DEF Err
<1>3. ASSUME IsOk(r)
      PROVE  assertSafeFileName(r.value, n) /\ (n > 10 => HasReservedDeviceName(r.value) = Ok(FALSE))
  <2> HIDE DEF r, made
  <2>1. \A c : Err(c).code = c
    BY DEF Err
  <2>2. n >= 1 /\ name # <<>> /\ ~Has(name, NUL) /\ r = Ok(made)
    BY <1>1, <1>3, <2>1 DEF Unless, IsOk
  <2>3. r.value = made
    BY <2>2, Outcomes, Zenon
  <2>4. safe \in Seq(Plain) /\ safe \notin DotNames /\ ~Device(safe)
    BY <2>2, SafeNameMeans
  <2> HIDE DEF safe
  <2>5. /\ made \in Seq(Plain) /\ made # <<>> /\ Len(made) <= n
        /\ n > 10 => made \notin DotNames /\ ~Device(made)
    <3>1. CASE Len(safe) <= n
      <4>1. made = safe /\ safe # <<>>
        BY <2>4, <3>1, Zenon DEF made, DotNames
      <4> QED
        BY <2>4, <3>1, <4>1
    <3>2. CASE Len(safe) > n /\ n <= 10
      <4> DEFINE t == trimGeneratedName(SubSeq(safe, 1, n))
      <4>1. n \in Nat \ {0} /\ n <= Len(safe) /\ ~(Len(safe) <= n)
        BY <2>2, <2>4, <3>2
      <4>2. t \in Seq(Plain) /\ Len(t) \in 1 .. n
        BY <2>4, <4>1, CutName
      <4>3. made = t
        BY <3>2, <4>1, Zenon DEF made
      <4> HIDE DEF t
      <4> QED
        BY <3>2, <4>1, <4>2, <4>3
    <3>3. CASE Len(safe) > n /\ n > 10
      <4> DEFINE k == n - 10
                 t == trimGeneratedName(SubSeq(safe, 1, k))
                 v == t \o <<"-", "-">> \o Digest
      <4>1. k \in Nat \ {0} /\ k <= Len(safe) /\ ~(Len(safe) <= n) /\ ~(n <= 10) /\ Len(safe) >= 2
        BY <2>4, <3>3
      <4>2. made = v
        BY <4>1, Zenon DEF made
      <4>3. n = k + 10
        OBVIOUS
      <4> HIDE DEF k
      <4>4. t \in Seq(Plain) /\ Len(t) \in 1 .. k /\ (t = <<"file">> \/ \A i \in 1 .. Len(t) : t[i] = safe[i])
        BY <2>4, <4>1, CutName
      <4> HIDE DEF t
      <4>5. Len(t) \in 1 .. Len(safe)
        BY <2>4, <4>1, <4>4
      <4>6. v \in Seq(Plain) /\ Len(v) = Len(t) + 10 /\ ~Device(v)
        BY <2>4, <4>1, <4>4, <4>5, HashedName
      <4> HIDE DEF v
      <4>7. Len(v) >= 11 /\ Len(v) <= n
        BY <4>1, <4>3, <4>4, <4>6
      <4>8. v # <<>> /\ v \notin DotNames
        BY <4>6, <4>7 DEF DotNames
      <4> QED
        BY <4>2, <4>6, <4>7, <4>8
    <3>4. Len(safe) \in Nat
      BY <2>4
    <3> QED
      BY <3>1, <3>2, <3>3, <3>4
  <2>6. ToSet(made) \cap {NUL, "\\", "/", ":", "LF"} = {}
    <3>1. ToSet(made) \subseteq Plain
      BY <2>5 DEF ToSet
    <3>2. Plain \cap {NUL, "\\", "/", ":", "LF"} = {}
      BY DEF Plain, Separators
    <3> QED
      BY <3>1, <3>2
  <2>7. assertSafeFileName(made, n)
    BY <2>5, <2>6 DEF assertSafeFileName
  <2>8. n > 10 => HasReservedDeviceName(made) = Ok(FALSE)
    BY <2>5, NoReservedName
  <2> QED
    BY <2>3, <2>7, <2>8, Zenon
<1> QED
  BY <1>2, <1>3

-----------------------------------------------------------------------------
(* What the path tools answer.                                               *)

\* PathsExact of any answer and any records.
PathFacts(a, ps) ==
  /\ a.tool = "normalizeUnityAssetPath" => UnityBridgeVector(a.tool, a.args, 0, a)
  /\ a.tool = "makeSafeFileName" /\ a.args[2] > 0 => UnityBridgeVector(a.tool, a.args[1], a.args[2], a)
  /\ a.tool = "normalizeScopedPath" => UnityMcpScopeVector(a.args[1], a.args[2], a)
  /\ a.code = "ok" =>
       /\ a.tool = "makeSafeFileName" /\ a.args[2] > 10 => HasReservedDeviceName(a.value) = Ok(FALSE)
       /\ a.tool = "toScopedCanonicalPath" =>
            Relative(ps[a.args[1]].root, a.value) = normalizeScopedPath(a.args[2], a.args[3])
       /\ a.tool = "validatePath" =>
            /\ toUnityAssetPath(ps[a.args[1]].root, a.value.canonicalPath) = Ok(a.value.unityPath)
            /\ a.value.safeFileName # Undefined => assertSafeFileName(a.value.safeFileName, a.args[2])
       /\ a.tool = "hostRoot" /\ a.value # Undefined =>
            \E alias \in ToSet(ps[a.args].aliases) :
                /\ alias.hostRoot = a.value
                /\ Normalize(a.value, alias.opts) = Ok(ps[a.args].root)

PathTools == {"normalizeUnityAssetPath", "makeSafeFileName", "normalizeScopedPath", "toScopedCanonicalPath",
              "validatePath", "hostRoot"}
Answered(tool, args, r) == [tool |-> tool, args |-> args, code |-> r.code, value |-> r.value]

LEMMA OtherFacts ==
  ASSUME NEW a, a.tool \notin PathTools, NEW ps
  PROVE  PathFacts(a, ps)
BY DEF PathFacts, PathTools

LEMMA UnityFacts ==
  ASSUME NEW text \in Seq(Symbols), NEW ps
  PROVE  PathFacts(Answered("normalizeUnityAssetPath", text, normalizeUnityAssetPath(text)), ps)
<1> DEFINE r == normalizeUnityAssetPath(text)
           a == Answered("normalizeUnityAssetPath", text, r)
<1>1. a.tool = "normalizeUnityAssetPath" /\ a.args = text /\ a.code = r.code /\ a.value = r.value
  BY DEF Answered
<1>2. (IsOk(r) => assertUnityBridgePath(r.value)) /\ (Has(text, NUL) => r.code = "ERR_NUL_BYTE")
  BY UnityAnswered
<1> HIDE DEF a, r
<1>3. UnityBridgeVector(a.tool, a.args, 0, a)
  BY <1>1, <1>2 DEF UnityBridgeVector, IsOk
<1>4. PathFacts(a, ps)
  BY <1>1, <1>3 DEF PathFacts
<1> QED
  BY <1>4 DEF a, r

LEMMA NameFacts ==
  ASSUME NEW name \in Seq(Symbols), NEW n \in Int, NEW ps
  PROVE  PathFacts(Answered("makeSafeFileName", <<name, n>>, makeSafeFileName(name, n)), ps)
<1> DEFINE r == makeSafeFileName(name, n)
           a == Answered("makeSafeFileName", <<name, n>>, r)
<1>1. a.tool = "makeSafeFileName" /\ a.args[1] = name /\ a.args[2] = n /\ a.code = r.code /\ a.value = r.value
  BY DEF Answered
<1>2. /\ IsOk(r) => assertSafeFileName(r.value, n)
      /\ IsOk(r) /\ n > 10 => HasReservedDeviceName(r.value) = Ok(FALSE)
      /\ Has(name, NUL) /\ n > 0 => r.code = "ERR_NUL_BYTE"
  BY NameAnswered
<1> HIDE DEF a, r
<1>3. n > 0 => UnityBridgeVector(a.tool, a.args[1], a.args[2], a)
  BY <1>1, <1>2 DEF UnityBridgeVector, IsOk
<1>4. a.code = "ok" /\ n > 10 => HasReservedDeviceName(a.value) = Ok(FALSE)
  BY <1>1, <1>2 DEF IsOk
<1>5. PathFacts(a, ps)
  BY <1>1, <1>3, <1>4 DEF PathFacts
<1> QED
  BY <1>5 DEF a, r

LEMMA ScopedFacts ==
  ASSUME NEW scope \in Scopes, NEW text \in Seq(Symbols), NEW ps
  PROVE  PathFacts(Answered("normalizeScopedPath", <<scope, text>>, normalizeScopedPath(scope, text)), ps)
<1> DEFINE r == normalizeScopedPath(scope, text)
           a == Answered("normalizeScopedPath", <<scope, text>>, r)
<1>1. a.tool = "normalizeScopedPath" /\ a.args[1] = scope /\ a.args[2] = text /\ a.code = r.code /\ a.value = r.value
  BY DEF Answered
<1>2. UnityMcpScopeVector(scope, text, r)
  BY ScopedAnswered
<1> HIDE DEF a, r
<1>3. UnityMcpScopeVector(scope, text, a)
  BY <1>1, <1>2 DEF UnityMcpScopeVector, IsOk
<1>4. PathFacts(a, ps)
  BY <1>1, <1>3 DEF PathFacts
<1> QED
  BY <1>4 DEF a, r

LEMMA ScopedRootFacts ==
  ASSUME NEW scope \in Scopes, NEW text \in Seq(Symbols), NEW ps, NEW id, Anchored(ps[id].root)
  PROVE  PathFacts(Answered("toScopedCanonicalPath", <<id, scope, text>>,
                            toScopedCanonicalPath(ps[id].root, scope, text)), ps)
<1> DEFINE top == ps[id].root
           r == toScopedCanonicalPath(top, scope, text)
           a == Answered("toScopedCanonicalPath", <<id, scope, text>>, r)
<1>1. a.tool = "toScopedCanonicalPath" /\ a.args[1] = id /\ a.args[2] = scope /\ a.args[3] = text
      /\ a.code = r.code /\ a.value = r.value
  BY DEF Answered
<1>2. IsOk(r) => Relative(top, r.value) = normalizeScopedPath(scope, text)
  BY ScopedFound
<1> HIDE DEF a, r
<1>3. a.code = "ok" => Relative(ps[a.args[1]].root, a.value) = normalizeScopedPath(a.args[2], a.args[3])
  BY <1>1, <1>2, Zenon DEF IsOk
<1>4. PathFacts(a, ps)
  BY <1>1, <1>3 DEF PathFacts
<1> QED
  BY <1>4 DEF a, r

\* What an alias of a record reads as.
LEMMA AliasReads ==
  ASSUME NEW p, Bound(p), NEW i \in 1 .. Len(p.aliases)
  PROVE  /\ p.aliases[i] \in ToSet(p.aliases)
         /\ Normalize(p.aliases[i].hostRoot, p.aliases[i].opts) = Ok(p.root)
<1> DEFINE alias == p.aliases[i]
<1>1. p \in ProjectRecords /\ normalizeProjectRoot(alias.hostRoot, alias.opts) = Ok(p.root)
  BY DEF Bound
<1>2. p.aliases \in Seq(KeptAliases)
  BY <1>1 DEF ProjectRecords
<1>3. alias \in KeptAliases /\ alias \in ToSet(p.aliases)
  BY <1>2 DEF ToSet
<1>4. alias.hostRoot \in Seq(STRING) /\ alias.opts \in NativeOptions
  BY <1>3 DEF KeptAliases
<1> HIDE DEF alias
<1>5. IsOk(normalizeProjectRoot(alias.hostRoot, alias.opts))
  BY <1>1, Outcomes
<1>6. PICK r : normalizeProjectRoot(alias.hostRoot, alias.opts) = Ok(r) /\ Normalize(alias.hostRoot, alias.opts) = Ok(r)
  BY <1>4, <1>5, ProjectRootGives
<1>7. Normalize(alias.hostRoot, alias.opts) = Ok(p.root)
  BY <1>1, <1>6, Zenon
<1> QED
  BY <1>3, <1>7 DEF alias

\* A host root that is handed out is that of an alias.
LEMMA HostOfAlias ==
  ASSUME KeptOk, NEW id, NEW selector, IsOk(resolveHostRoot(id, selector)),
         resolveHostRoot(id, selector).value # Undefined
  PROVE  /\ id \in DOMAIN projects
         /\ \E i \in 1 .. Len(projects[id].aliases) :
              projects[id].aliases[i].hostRoot = resolveHostRoot(id, selector).value
<1> DEFINE q == requireProject(id)
           matches(p) == {i \in DOMAIN p.aliases : pathAliasMatches(p.aliases[i], selector)}
           open == (\A i \in 1..3 : selector.client[i] = "undefined") /\ selector.kind = "undefined"
           known(p) == IF p.hostRoot # Undefined THEN p.hostRoot
                       ELSE IF Len(p.aliases) = 1 THEN p.aliases[1].hostRoot ELSE Undefined
           chosen(p) == CHOOSE i \in matches(p) : TRUE
           body(p) == IF open THEN Ok(known(p))
                      ELSE Unless(Cardinality(matches(p)) # 1, "ERR_INVALID_PATH", Ok(p.aliases[chosen(p)].hostRoot))
           r == resolveHostRoot(id, selector)
<1>1. r = IF IsOk(q) THEN body(q.value) ELSE q
  BY Zenon DEF resolveHostRoot, Then
<1>2. \A c : Err(c).code = c
  BY DEF Err
<1>3. IsOk(r) /\ r.value # Undefined
  OBVIOUS
<1> DEFINE p == projects[id]
<1>4. IsOk(q) => id \in DOMAIN projects /\ q.value = p
  <2>1. id \in DOMAIN projects => q = Ok(p)
    BY Zenon DEF requireProject
  <2>2. id \notin DOMAIN projects => q = Err("ERR_INVALID_PATH")
    BY Zenon DEF requireProject
  <2> HIDE DEF q
  <2> QED
    BY <1>2, <2>1, <2>2, Outcomes DEF IsOk
<1> HIDE DEF q, r, body
<1>5. IsOk(q) /\ id \in DOMAIN projects /\ r = body(p)
  BY <1>1, <1>3, <1>4
<1>6. Bound(p) /\ HostKnown(p)
  BY <1>5 DEF KeptOk
<1> HIDE DEF p
<1>7. p.aliases \in Seq(KeptAliases)
  BY <1>6 DEF Bound, ProjectRecords
<1>8. CASE open
  <2>1. r = Ok(known(p))
    BY <1>5, <1>8, Zenon DEF body
  <2>2. r.value = known(p)
    BY <2>1, Outcomes, Zenon
  <2>3. CASE p.hostRoot # Undefined
    <3>1. r.value = p.hostRoot
      BY <2>2, <2>3, Zenon
    <3> QED
      BY <1>5, <1>6, <2>3, <3>1 DEF HostKnown, p, r
  <2>4. CASE p.hostRoot = Undefined
    <3>1. Len(p.aliases) = 1 /\ r.value = p.aliases[1].hostRoot
      BY <1>3, <2>2, <2>4, Zenon
    <3>2. 1 \in 1 .. Len(p.aliases)
      BY <3>1
    <3> QED
      BY <1>5, <3>1, <3>2 DEF p, r
  <2> QED
    BY <2>3, <2>4
<1>9. CASE ~open
  <2> HIDE DEF open, known, matches
  <2>1. r = Unless(Cardinality(matches(p)) # 1, "ERR_INVALID_PATH", Ok(p.aliases[chosen(p)].hostRoot))
    BY <1>5, <1>9, Zenon DEF body
  <2>2. Cardinality(matches(p)) = 1 /\ r = Ok(p.aliases[chosen(p)].hostRoot)
    <3> DEFINE x == p.aliases[chosen(p)].hostRoot
               y == Cardinality(matches(p))
    <3> HIDE DEF x, y
    <3>1. r = Unless(y # 1, "ERR_INVALID_PATH", Ok(x))
      BY <2>1 DEF x, y
    <3>2. y = 1 /\ r = Ok(x)
      BY <1>2, <1>3, <3>1 DEF Unless, IsOk
    <3> QED
      BY <3>2 DEF x, y
  <2>3. matches(p) # {}
    <3>1. Cardinality({}) = 0
      BY FS_EmptySet
    <3> QED
      BY <2>2, <3>1
  <2>4. chosen(p) \in matches(p)
    BY <2>3
  <2> DEFINE i == chosen(p)
  <2> HIDE DEF i
  <2>5. i \in 1 .. Len(p.aliases)
    BY <1>7, <2>4 DEF matches, i
  <2>6. r.value = p.aliases[i].hostRoot
    BY <2>2, Outcomes, Zenon DEF i
  <2> QED
    BY <1>5, <2>5, <2>6 DEF p, r
<1> QED
  BY <1>8, <1>9

LEMMA HostFacts ==
  ASSUME KeptOk, NEW id, NEW selector
  PROVE  PathFacts(Answered("hostRoot", id, resolveHostRoot(id, selector)), projects)
<1> DEFINE r == resolveHostRoot(id, selector)
           a == Answered("hostRoot", id, r)
<1>1. a.tool = "hostRoot" /\ a.args = id /\ a.code = r.code /\ a.value = r.value
  BY DEF Answered
<1>2. ASSUME IsOk(r), r.value # Undefined
      PROVE  \E alias \in ToSet(projects[id].aliases) :
               alias.hostRoot = r.value /\ Normalize(r.value, alias.opts) = Ok(projects[id].root)
  <2>1. /\ id \in DOMAIN projects
        /\ \E i \in 1 .. Len(projects[id].aliases) : projects[id].aliases[i].hostRoot = r.value
    BY <1>2, HostOfAlias
  <2>2. PICK i \in 1 .. Len(projects[id].aliases) : projects[id].aliases[i].hostRoot = r.value
    BY <2>1
  <2>3. Bound(projects[id])
    BY <2>1 DEF KeptOk
  <2>4. /\ projects[id].aliases[i] \in ToSet(projects[id].aliases)
        /\ Normalize(projects[id].aliases[i].hostRoot, projects[id].aliases[i].opts) = Ok(projects[id].root)
    BY <2>3, AliasReads
  <2> HIDE DEF r
  <2> QED
    BY <2>2, <2>4, Zenon
<1> HIDE DEF a, r
<1>3. a.code = "ok" /\ a.value # Undefined =>
        \E alias \in ToSet(projects[a.args].aliases) :
          alias.hostRoot = a.value /\ Normalize(a.value, alias.opts) = Ok(projects[a.args].root)
  BY <1>1, <1>2, Zenon DEF IsOk
<1>4. PathFacts(a, projects)
  BY <1>1, <1>3 DEF PathFacts
<1> QED
  BY <1>4 DEF a, r

\* A Unity path that was validated.
Validated(via, id, text, name, n) ==
  Then(ToolArguments(via, <<text, name>>), LAMBDA given : validateUnityAssetPath(id, text, name, n))

LEMMA ValidFacts ==
  ASSUME KeptOk, NEW via, NEW id, NEW text \in Seq(Symbols), NEW name \in Seq(Symbols), NEW n \in Int
  PROVE  PathFacts(Answered("validatePath", <<id, n>>, Validated(via, id, text, name, n)), projects)
<1> DEFINE given == ToolArguments(via, <<text, name>>)
           v == validateUnityAssetPath(id, text, name, n)
           r == Validated(via, id, text, name, n)
           a == Answered("validatePath", <<id, n>>, r)
<1>1. a.tool = "validatePath" /\ a.args[1] = id /\ a.args[2] = n /\ a.code = r.code /\ a.value = r.value
  BY DEF Answered
<1>2. r = IF IsOk(given) THEN v ELSE given
  BY Zenon DEF Validated, Then
<1> DEFINE q == requireProject(id)
           u == normalizeUnityAssetPath(text)
           full == fromUnityAssetPath(q.value.root, u.value)
           safe == IF name = Undefined THEN Ok(Undefined) ELSE makeSafeFileName(name, n)
           made == [unityPath |-> u.value, canonicalPath |-> full.value, safeFileName |-> safe.value]
<1>3. v = IF IsOk(q) THEN IF IsOk(u) THEN IF IsOk(full) THEN IF IsOk(safe) THEN Ok(made)
                                                             ELSE safe ELSE full ELSE u ELSE q
  BY Zenon DEF validateUnityAssetPath, Then
<1>4. ASSUME IsOk(r)
      PROVE  /\ toUnityAssetPath(projects[id].root, r.value.canonicalPath) = Ok(r.value.unityPath)
             /\ r.value.safeFileName # Undefined => assertSafeFileName(r.value.safeFileName, n)
  <2>1. r = Ok(made) /\ IsOk(q) /\ IsOk(u) /\ IsOk(full) /\ IsOk(safe)
    <3> HIDE DEF given, v, r, q, u, full, safe, made
    <3> QED
      BY <1>2, <1>3, <1>4
  <2>2. /\ r.value.canonicalPath = full.value /\ r.value.unityPath = u.value
        /\ r.value.safeFileName = safe.value
    <3>1. r.value = made
      <4> HIDE DEF given, v, r, q, u, full, safe, made
      <4> QED
        BY <2>1, OkCarries
    <3> HIDE DEF r, full, safe, u
    <3> QED
      BY <3>1
  <2>3. id \in DOMAIN projects /\ q.value = projects[id]
    <3>1. id \in DOMAIN projects => q = Ok(projects[id])
      BY Zenon DEF requireProject
    <3>2. id \notin DOMAIN projects => q = Err("ERR_INVALID_PATH")
      BY Zenon DEF requireProject
    <3>3. Err("ERR_INVALID_PATH").code = "ERR_INVALID_PATH"
      BY DEF Err
    <3> HIDE DEF q
    <3> QED
      BY <2>1, <3>1, <3>2, <3>3, Outcomes DEF IsOk
  <2> DEFINE top == projects[id].root
  <2>4. Anchored(top)
    BY <2>3 DEF KeptOk, Bound
  <2> HIDE DEF top
  <2>5. PICK x, w : /\ normalizeUnityAssetPath(text) = Ok(x)
                    /\ fromUnityAssetPath(top, x) = Ok(w) /\ toUnityAssetPath(top, w) = Ok(x)
    BY <2>1, <2>4, UnityBack
  <2>6. u.value = x
    BY <2>5, Outcomes, Zenon
  <2>7. full = Ok(w)
    BY <2>3, <2>5, <2>6, Zenon DEF top
  <2>8. full.value = w
    BY <2>7, Outcomes, Zenon
  <2>9. safe.value # Undefined => assertSafeFileName(safe.value, n)
    <3>1. CASE name = Undefined
      <4>1. safe = Ok(Undefined)
        BY <3>1, Zenon
      <4>2. safe.value = Undefined
        BY <4>1, Outcomes, Zenon
      <4> QED
        BY <4>2
    <3>2. CASE name # Undefined
      <4> DEFINE m == makeSafeFileName(name, n)
      <4>1. safe = m
        BY <3>2, Zenon
      <4>2. IsOk(m)
        BY <2>1, <4>1, Zenon
      <4>3. IsOk(m) => assertSafeFileName(m.value, n)
        BY NameAnswered
      <4> HIDE DEF m, safe
      <4> QED
        BY <4>1, <4>2, <4>3, Zenon
    <3> QED
      BY <3>1, <3>2
  <2> HIDE DEF r, full, safe, u
  <2> QED
    BY <2>2, <2>5, <2>6, <2>8, <2>9, Zenon DEF top
<1> HIDE DEF a, r
<1>5. a.code = "ok" =>
        /\ toUnityAssetPath(projects[a.args[1]].root, a.value.canonicalPath) = Ok(a.value.unityPath)
        /\ a.value.safeFileName # Undefined => assertSafeFileName(a.value.safeFileName, a.args[2])
  BY <1>1, <1>4, Zenon DEF IsOk
<1>6. PathFacts(a, projects)
  BY <1>1, <1>5 DEF PathFacts
<1> QED
  BY <1>6 DEF a, r

-----------------------------------------------------------------------------
(* Every answer of a path tool is right.                                     *)

LEMMA PathsAfter ==
  PathFacts(answer', projects') => PathsExact'
BY DEF PathFacts, PathsExact

\* The calls that are no path tools.
LEMMA OtherAnswers ==
  ASSUME NEW tool, tool \notin PathTools, NEW args, NEW r, Answers(tool, args, r)
  PROVE  PathsExact'
<1>1. answer'.tool = tool
  BY DEF Answers
<1> QED
  BY <1>1, OtherFacts, PathsAfter

\* A path tool that answers rightly about the projects it leaves.
LEMMA PathAnswers ==
  ASSUME NEW tool, NEW args, NEW r, Answers(tool, args, r), projects' = projects,
         PathFacts(Answered(tool, args, r), projects)
  PROVE  PathsExact'
<1>1. answer' = Answered(tool, args, r)
  BY DEF Answers, Answered
<1> QED
  BY <1>1, PathsAfter

LEMMA OtherCalls ==
  /\ \A reg : RegisterProject(reg) => PathsExact'
  /\ \A id, alias : RegisterPathAlias(id, alias) => PathsExact'
  /\ \A seeds : Construct(seeds) => PathsExact'
  /\ \A id, p, n : ReadText(id, p, n) => PathsExact'
  /\ \A via, command, id, p, name : WriteCommand(via, command, id, p, name) => PathsExact'
  /\ \A id, scope, p, n : ReadScopedText(id, scope, p, n) => PathsExact'
  /\ \A via, id, scope, p, text, n : WriteScopedText(via, id, scope, p, text, n) => PathsExact'
  /\ \A id, scope, prefix, n : ListScoped(id, scope, prefix, n) => PathsExact'
  /\ \A id, scope, glob, n : GlobScoped(id, scope, glob, n) => PathsExact'
  /\ Deliver => PathsExact'
<1>0. {"registerProject", "registerPathAlias", "construct", "readText", "writeCommand", "read", "write",
       "list", "glob", "none"} \cap PathTools = {}
  BY DEF PathTools
<1>1. \A reg : RegisterProject(reg) => PathsExact'
  <2> TAKE reg
  <2>1. RegisterProject(reg) => Answers("registerProject", reg.id, ProjectRecord(reg))
    BY Zenon DEF RegisterProject
  <2> QED
    BY <1>0, <2>1, OtherAnswers
<1>2. \A id, alias : RegisterPathAlias(id, alias) => PathsExact'
  <2> TAKE id, alias
  <2> DEFINE r == Then(requireProject(id), LAMBDA project : addPathAlias(project, alias))
  <2>1. RegisterPathAlias(id, alias) => Answers("registerPathAlias", id, r)
    BY Zenon DEF RegisterPathAlias
  <2> HIDE DEF r
  <2> QED
    BY <1>0, <2>1, OtherAnswers
<1>3. \A seeds : Construct(seeds) => PathsExact'
  <2> TAKE seeds
  <2>1. Construct(seeds) => Answers("construct", seeds, seedStore(seeds))
    BY Zenon DEF Construct
  <2> QED
    BY <1>0, <2>1, OtherAnswers
<1>4. \A id, p, n : ReadText(id, p, n) => PathsExact'
  <2> TAKE id, p, n
  <2>1. ReadText(id, p, n) => answer'.tool = "readText"
    BY DEF ReadText, Answers
  <2> QED
    BY <1>0, <2>1, OtherFacts, PathsAfter
<1>5. \A via, command, id, p, name : WriteCommand(via, command, id, p, name) => PathsExact'
  <2> TAKE via, command, id, p, name
  <2>1. WriteCommand(via, command, id, p, name) => answer'.tool = "writeCommand"
    BY DEF WriteCommand, Answers
  <2> QED
    BY <1>0, <2>1, OtherFacts, PathsAfter
<1>6. \A id, scope, p, n : ReadScopedText(id, scope, p, n) => PathsExact'
  <2> TAKE id, scope, p, n
  <2>1. ReadScopedText(id, scope, p, n) => answer'.tool = "read"
    BY DEF ReadScopedText, Answers
  <2> QED
    BY <1>0, <2>1, OtherFacts, PathsAfter
<1>7. \A via, id, scope, p, text, n : WriteScopedText(via, id, scope, p, text, n) => PathsExact'
  <2> TAKE via, id, scope, p, text, n
  <2>1. WriteScopedText(via, id, scope, p, text, n) => answer'.tool = "write"
    BY DEF WriteScopedText, Answers
  <2> QED
    BY <1>0, <2>1, OtherFacts, PathsAfter
<1>8. \A id, scope, prefix, n : ListScoped(id, scope, prefix, n) => PathsExact'
  <2> TAKE id, scope, prefix, n
  <2>1. ListScoped(id, scope, prefix, n) => answer'.tool = "list"
    BY DEF ListScoped, Answers
  <2> QED
    BY <1>0, <2>1, OtherFacts, PathsAfter
<1>9. \A id, scope, glob, n : GlobScoped(id, scope, glob, n) => PathsExact'
  <2> TAKE id, scope, glob, n
  <2>1. GlobScoped(id, scope, glob, n) => answer'.tool = "glob"
    BY DEF GlobScoped, Answers
  <2> QED
    BY <1>0, <2>1, OtherFacts, PathsAfter
<1>10. Deliver => PathsExact'
  <2>1. Deliver => answer'.tool = "none"
    BY DEF Deliver, NoAnswer
  <2> QED
    BY <1>0, <2>1, OtherFacts, PathsAfter
<1> QED
  BY <1>1, <1>2, <1>3, <1>4, <1>5, <1>6, <1>7, <1>8, <1>9, <1>10

\* The arguments are texts over the symbols.
LEMMA ArgumentsAreTexts ==
  /\ \A t \in UnityPaths \cup FileNames \cup ServicePaths \cup ServiceNames : t \in Seq(Symbols)
  /\ \A n \in NameLimits : n \in Int
BY GatewayAssumption, StringsAreSymbols DEF GatewayAssumption

LEMMA ServiceAnswers ==
  ASSUME KeptOk, ServiceCall
  PROVE  PathsExact'
<1>1. projects' = projects
  BY DEF ServiceCall
<1>2. PICK t \in ServicePaths :
        \/ Answers("normalizeUnityAssetPath", t, normalizeUnityAssetPath(t))
        \/ \E scope \in Scopes :
             \/ Answers("normalizeScopedPath", <<scope, t>>, normalizeScopedPath(scope, t))
             \/ \E id \in DOMAIN projects :
                  Answers("toScopedCanonicalPath", <<id, scope, t>>, toScopedCanonicalPath(projects[id].root, scope, t))
  BY DEF ServiceCall
<1>3. t \in Seq(Symbols)
  BY ArgumentsAreTexts
<1>4. CASE Answers("normalizeUnityAssetPath", t, normalizeUnityAssetPath(t))
  BY <1>1, <1>3, <1>4, UnityFacts, PathAnswers
<1>5. ASSUME NEW scope \in Scopes,
             Answers("normalizeScopedPath", <<scope, t>>, normalizeScopedPath(scope, t))
      PROVE  PathsExact'
  BY <1>1, <1>3, <1>5, ScopedFacts, PathAnswers
<1>6. ASSUME NEW scope \in Scopes, NEW id \in DOMAIN projects,
             Answers("toScopedCanonicalPath", <<id, scope, t>>, toScopedCanonicalPath(projects[id].root, scope, t))
      PROVE  PathsExact'
  <2>1. Anchored(projects[id].root)
    BY DEF KeptOk, Bound
  <2> QED
    BY <1>1, <1>3, <1>6, <2>1, ScopedRootFacts, PathAnswers
<1> QED
  BY <1>2, <1>4, <1>5, <1>6

LEMMA NameAnswers ==
  ASSUME NameCall
  PROVE  PathsExact'
<1>1. projects' = projects
  BY DEF NameCall
<1>2. PICK name \in ServiceNames, n \in NameLimits : Answers("makeSafeFileName", <<name, n>>, makeSafeFileName(name, n))
  BY DEF NameCall
<1>3. name \in Seq(Symbols) /\ n \in Int
  BY ArgumentsAreTexts
<1> QED
  BY <1>1, <1>2, <1>3, NameFacts, PathAnswers

LEMMA HostAnswers ==
  ASSUME KeptOk, NEW id, NEW selector, ResolveHostRoot(id, selector)
  PROVE  PathsExact'
<1>1. projects' = projects /\ Answers("hostRoot", id, resolveHostRoot(id, selector))
  BY DEF ResolveHostRoot
<1> QED
  BY <1>1, HostFacts, PathAnswers

LEMMA ValidAnswers ==
  ASSUME KeptOk, NEW via, NEW id, NEW p \in UnityPaths, NEW name \in FileNames, NEW n \in NameLimits,
         ValidatePath(via, id, p, name, n)
  PROVE  PathsExact'
<1> DEFINE r == Validated(via, id, p, name, n)
<1>1. projects' = projects /\ Answers("validatePath", <<id, n>>, r)
  BY Zenon DEF ValidatePath, Validated
<1>2. p \in Seq(Symbols) /\ name \in Seq(Symbols) /\ n \in Int
  BY ArgumentsAreTexts
<1>3. PathFacts(Answered("validatePath", <<id, n>>, r), projects)
  BY <1>2, ValidFacts
<1> HIDE DEF r
<1> QED
  BY <1>1, <1>3, PathAnswers

LEMMA NextAnswers ==
  ASSUME KeptOk, PathsExact, [GatewayNext]_gatewayVars
  PROVE  PathsExact'
<1>1. CASE UNCHANGED gatewayVars
  BY <1>1 DEF gatewayVars, PathsExact
<1>2. CASE Deliver
  BY <1>2, OtherCalls, Zenon
<1>3. CASE \E seeds \in Seeds : Construct(seeds)
  BY <1>3, OtherCalls, Zenon
<1>4. CASE ServiceCall
  BY <1>4, ServiceAnswers
<1>5. CASE NameCall
  BY <1>5, NameAnswers
<1>6. CASE BrokerCall
  <2>1. \A reg : RegisterProject(reg) => PathsExact'
    BY OtherCalls, Zenon
  <2>2. \A id, alias : RegisterPathAlias(id, alias) => PathsExact'
    BY OtherCalls, Zenon
  <2>3. \A id, selector : ResolveHostRoot(id, selector) => PathsExact'
    BY HostAnswers
  <2> QED
    BY <1>6, <2>1, <2>2, <2>3, Zenon DEF BrokerCall
<1>7. CASE ToolCall
  <2>1. \A id, p, n : ReadText(id, p, n) => PathsExact'
    BY OtherCalls, Zenon
  <2>2. \A via, command, id, p, name : WriteCommand(via, command, id, p, name) => PathsExact'
    BY OtherCalls, Zenon
  <2>3. \A id, scope, p, n : ReadScopedText(id, scope, p, n) => PathsExact'
    BY OtherCalls, Zenon
  <2>4. \A via, id, scope, p, text, n : WriteScopedText(via, id, scope, p, text, n) => PathsExact'
    BY OtherCalls, Zenon
  <2>5. \A id, scope, prefix, n : ListScoped(id, scope, prefix, n) => PathsExact'
    BY OtherCalls, Zenon
  <2>6. \A id, scope, glob, n : GlobScoped(id, scope, glob, n) => PathsExact'
    BY OtherCalls, Zenon
  <2>7. \A via, id : \A p \in UnityPaths, name \in FileNames, n \in NameLimits :
          ValidatePath(via, id, p, name, n) => PathsExact'
    BY ValidAnswers
  <2> QED
    BY <1>7, <2>1, <2>2, <2>3, <2>4, <2>5, <2>6, <2>7, Zenon DEF ToolCall
<1> QED
  BY <1>1, <1>2, <1>3, <1>4, <1>5, <1>6, <1>7 DEF GatewayNext

\* Whatever was called before, a path that was validated comes back, a scoped
\* path is found again below its root, a native root that is handed out denotes
\* the project, and a generated name fits its limit and is no device.
THEOREM PathsAreExact == GatewaySpec => []PathsExact
<1>1. GatewayInit => PathsExact
  <2>1. GatewayInit => PathFacts(answer, projects)
    <3>1. GatewayInit => answer.tool = "none"
      BY DEF GatewayInit, NoAnswer
    <3>2. "none" \notin PathTools
      BY DEF PathTools
    <3> QED
      BY <3>1, <3>2, OtherFacts
  <2> QED
    BY <2>1 DEF PathFacts, PathsExact
<1>2. KeptOk /\ PathsExact /\ [GatewayNext]_gatewayVars => PathsExact'
  BY NextAnswers
<1> QED
  BY <1>1, <1>2, GatewayKeeps, PTL DEF GatewaySpec
-----------------------------------------------------------------------------
(* The automaton of a glob.  It reads a path from the left, and the language *)
(* of the glob is defined from the right.                                    *)

\* The states of the automaton after each character of a path.
Runs(h, tokens, text) ==
  /\ h[0] = GlobStart(tokens)
  /\ \A j \in 1 .. Len(text) : h[j] = GlobStep(tokens, h[j - 1], text[j])
Run(tokens, text) == CHOOSE h : Runs(h, tokens, text)

\* How much of the path the tokens may have read when all of them were used.
Reached(tokens, text) == {j \in 0 .. Len(text) : Len(tokens) \in Run(tokens, text)[j]}

LEMMA RunExists ==
  ASSUME NEW tokens, NEW text, Len(text) \in Nat
  PROVE  Runs(Run(tokens, text), tokens, text)
<1> DEFINE n == Len(text)
           V == SUBSET (0 .. Len(tokens))
           base == GlobStart(tokens)
           step == [j \in 1 .. n |-> [before \in V |-> GlobStep(tokens, before, text[j])]]
<1>1. base \in V
  BY DEF GlobStart
<1>2. \A before : \A x : GlobStep(tokens, before, x) \subseteq 1 .. Len(tokens)
  BY DEF GlobStep
<1>3. 1 .. Len(tokens) \subseteq 0 .. Len(tokens)
  OBVIOUS
<1>4. step \in [1 .. n -> [V -> V]]
  <2>1. \A before : \A x : GlobStep(tokens, before, x) \in V
    BY <1>2, <1>3
  <2> HIDE DEF V
  <2> QED
    BY <2>1
<1>5. \A j \in 1 .. n : \A before \in V : step[j][before] = GlobStep(tokens, before, text[j])
  OBVIOUS
<1> HIDE DEF n, V, base, step
<1>6. PICK f \in [0 .. n -> V] : Recursive(f, n, base, step)
  BY <1>1, <1>4, RecursionExists DEF n
<1>7. Runs(f, tokens, text)
  <2>1. f[0] = GlobStart(tokens)
    BY <1>6 DEF Recursive, base
  <2>2. ASSUME NEW j \in 1 .. n PROVE f[j] = GlobStep(tokens, f[j - 1], text[j])
    <3>1. f[j] = step[j][f[j - 1]]
      BY <1>6 DEF Recursive
    <3>2. f[j - 1] \in V
      BY <1>6 DEF n
    <3> QED
      BY <1>5, <3>1, <3>2
  <2> QED
    BY <2>1, <2>2 DEF Runs, n
<1> QED
  BY <1>7, Zenon DEF Run

\* Two runs over a path are the same.
LEMMA RunsAgree ==
  ASSUME NEW tokens, NEW text, Len(text) \in Nat, NEW f, NEW h, Runs(f, tokens, text), Runs(h, tokens, text)
  PROVE  \A j \in 0 .. Len(text) : h[j] = f[j]
<1> DEFINE B == {k \in 0 .. Len(text) : h[k] # f[k]}
<1> SUFFICES ASSUME B # {} PROVE FALSE
  OBVIOUS
<1>1. PICK k \in B : \A m \in B : k <= m
  <2>1. B \subseteq Nat
    OBVIOUS
  <2> HIDE DEF B
  <2> QED
    BY <2>1, LeastNatural
<1>2. k # 0
  BY DEF Runs
<1>3. h[k - 1] = f[k - 1] /\ k \in 1 .. Len(text)
  BY <1>1, <1>2
<1> QED
  BY <1>3 DEF Runs

\* A path belongs to a glob when all of it is read and all tokens are used.
LEMMA GlobRuns ==
  ASSUME NEW glob, NEW text, Len(text) \in Nat
  PROVE  compileScopedGlob(glob, text) <=> Len(text) \in Reached(GlobTokens(glob), text)
<1> DEFINE tokens == GlobTokens(glob)
           Eq(h) == h = [j \in 0 .. Len(text) |->
                           IF j = 0 THEN GlobStart(tokens) ELSE GlobStep(tokens, h[j - 1], text[j])]
           c == CHOOSE h : Eq(h)
           f == Run(tokens, text)
           g == [j \in 0 .. Len(text) |-> f[j]]
<1>1. compileScopedGlob(glob, text) <=> Len(tokens) \in c[Len(text)]
  BY Zenon DEF compileScopedGlob
<1>2. Runs(f, tokens, text)
  BY RunExists
<1> HIDE DEF tokens, f
<1>3. \A j \in 0 .. Len(text) : f[j] = IF j = 0 THEN GlobStart(tokens) ELSE GlobStep(tokens, f[j - 1], text[j])
  BY <1>2 DEF Runs
<1>4. Eq(g)
  <2>1. \A j \in 0 .. Len(text) : j # 0 => g[j - 1] = f[j - 1]
    OBVIOUS
  <2>2. \A j \in 0 .. Len(text) : f[j] = IF j = 0 THEN GlobStart(tokens) ELSE GlobStep(tokens, g[j - 1], text[j])
    BY <1>3, <2>1
  <2> QED
    BY <2>2
<1>5. Eq(c)
  <2> HIDE DEF Eq, g
  <2> QED
    BY <1>4, Zenon
<1> HIDE DEF c
<1>6. Runs(c, tokens, text)
  BY <1>5 DEF Runs
<1>7. c[Len(text)] = f[Len(text)]
  BY <1>2, <1>6, RunsAgree
<1> QED
  BY <1>1, <1>7 DEF Reached, f, tokens

\* A star may be passed without a character.
LEMMA PassedMore ==
  ASSUME NEW S, NEW tokens \in Seq(S), NEW x \in S, NEW k \in 0 .. Len(tokens)
  PROVE  /\ \A i \in 0 .. Len(tokens) : Passed(Append(tokens, x), k, i) <=> Passed(tokens, k, i)
         /\ Passed(Append(tokens, x), k, Len(tokens) + 1) <=> x \in Stars /\ Passed(tokens, k, Len(tokens))
<1> DEFINE more == Append(tokens, x)
           n == Len(tokens)
<1>1. n \in Nat /\ more[n + 1] = x /\ \A l \in 1 .. n : more[l] = tokens[l]
  OBVIOUS
<1> HIDE DEF more, n, Stars
<1>2. ASSUME NEW i \in 0 .. n PROVE Passed(more, k, i) <=> Passed(tokens, k, i)
  <2>1. \A l \in (k + 1) .. i : l \in 1 .. n
    BY <1>1 DEF n
  <2> QED
    BY <1>1, <2>1 DEF Passed
<1>3. Passed(more, k, n + 1) <=> x \in Stars /\ Passed(tokens, k, n)
  <2>1. \A l \in (k + 1) .. n : l \in 1 .. n /\ l \in (k + 1) .. (n + 1)
    BY <1>1 DEF n
  <2>2. \A l \in (k + 1) .. (n + 1) : l = n + 1 \/ l \in (k + 1) .. n
    BY <1>1 DEF n
  <2>3. n + 1 \in (k + 1) .. (n + 1)
    BY <1>1 DEF n
  <2> QED
    BY <1>1, <2>1, <2>2, <2>3 DEF Passed
<1> QED
  BY <1>2, <1>3 DEF more, n

\* The states of the first tokens do not depend on one that follows, and the
\* last state is entered by its token or passed into from the one before.
LEMMA RunExtends ==
  ASSUME NEW S, NEW tokens \in Seq(S), NEW x \in S, NEW text, Len(text) \in Nat
  PROVE  \A j \in 0 .. Len(text) : \A i \in 0 .. Len(tokens) :
           i \in Run(Append(tokens, x), text)[j] <=> i \in Run(tokens, text)[j]
<1> DEFINE more == Append(tokens, x)
           n == Len(tokens)
           f == Run(tokens, text)
           h == Run(more, text)
           B == {k \in 0 .. Len(text) : ~\A i \in 0 .. n : i \in h[k] <=> i \in f[k]}
<1>1. /\ n \in Nat /\ Len(more) = n + 1 /\ more[n + 1] = x /\ \A l \in 1 .. n : more[l] = tokens[l]
  OBVIOUS
<1>2. Runs(f, tokens, text) /\ Runs(h, more, text)
  BY RunExists
<1>3. \A k, i \in 0 .. n : Passed(more, k, i) <=> Passed(tokens, k, i)
  BY PassedMore
<1> SUFFICES ASSUME B # {} PROVE FALSE
  OBVIOUS
<1>4. PICK j \in B : \A m \in B : j <= m
  <2>1. B \subseteq Nat
    OBVIOUS
  <2> HIDE DEF B
  <2> QED
    BY <2>1, LeastNatural
<1>5. PICK i \in 0 .. n : ~(i \in h[j] <=> i \in f[j])
  BY <1>4
<1>6. j \in 0 .. Len(text)
  BY <1>4
<1>7. j # 0 => j \in 1 .. Len(text) /\ \A k \in 0 .. n : k \in h[j - 1] <=> k \in f[j - 1]
  <2>1. j # 0 => j - 1 \in 0 .. Len(text) /\ j - 1 \notin B /\ j \in 1 .. Len(text)
    BY <1>4
  <2> HIDE DEF n, h, f
  <2> QED
    BY <2>1
<1> HIDE DEF more, n, f, h, B
<1>8. CASE j = 0
  <2>1. h[j] = GlobStart(more) /\ f[j] = GlobStart(tokens)
    BY <1>2, <1>8 DEF Runs
  <2>2. i \in 0 .. Len(more) /\ 0 \in 0 .. n
    BY <1>1, <1>5
  <2> QED
    BY <1>1, <1>3, <1>5, <2>1, <2>2 DEF GlobStart, n
<1>9. CASE j # 0
  <2>1. h[j] = GlobStep(more, h[j - 1], text[j]) /\ f[j] = GlobStep(tokens, f[j - 1], text[j])
    BY <1>2, <1>7, <1>9 DEF Runs
  <2>2. \A k \in 1 .. i : k \in 1 .. n /\ k \in 0 .. n /\ k - 1 \in 0 .. n
    BY <1>1, <1>5
  <2>3. ASSUME NEW k \in 1 .. i
        PROVE  Entered(more, h[j - 1], text[j], k) <=> Entered(tokens, f[j - 1], text[j], k)
    <3>1. more[k] = tokens[k] /\ (k \in h[j - 1] <=> k \in f[j - 1]) /\ (k - 1 \in h[j - 1] <=> k - 1 \in f[j - 1])
      BY <1>1, <1>7, <1>9, <2>2
    <3> DEFINE y == tokens[k]
               z == text[j]
    <3> HIDE DEF y, z
    <3> QED
      BY <3>1 DEF Entered, y, z
  <2>4. i \in 1 .. Len(more) <=> i \in 1 .. n
    BY <1>1, <1>5
  <2> QED
    BY <1>3, <1>5, <2>1, <2>2, <2>3, <2>4 DEF GlobStep, n
<1> QED
  BY <1>8, <1>9

LEMMA LastState ==
  ASSUME NEW S, NEW tokens \in Seq(S), NEW x \in S, NEW text, Len(text) \in Nat, NEW j \in 0 .. Len(text)
  PROVE  j \in Reached(Append(tokens, x), text) <=>
           \/ x \in Stars /\ j \in Reached(tokens, text)
           \/ j # 0 /\ Entered(Append(tokens, x), Run(Append(tokens, x), text)[j - 1], text[j], Len(tokens) + 1)
<1> DEFINE more == Append(tokens, x)
           n == Len(tokens)
           f == Run(tokens, text)
           h == Run(more, text)
<1>1. /\ n \in Nat /\ Len(more) = n + 1 /\ more[n + 1] = x /\ \A l \in 1 .. n : more[l] = tokens[l]
  OBVIOUS
<1>2. Runs(f, tokens, text) /\ Runs(h, more, text)
  BY RunExists
<1>3. \A k \in 0 .. n : Passed(more, k, n + 1) <=> x \in Stars /\ Passed(tokens, k, n)
  BY PassedMore
<1>4. \A m \in 0 .. Len(text) : \A i \in 0 .. n : i \in h[m] <=> i \in f[m]
  BY RunExtends
<1>5. (j \in Reached(more, text) <=> n + 1 \in h[j]) /\ (j \in Reached(tokens, text) <=> n \in f[j])
  BY <1>1 DEF Reached
<1> HIDE DEF more, n, f, h, Stars
<1>6. CASE j = 0
  <2>1. h[j] = GlobStart(more) /\ f[j] = GlobStart(tokens)
    BY <1>2, <1>6 DEF Runs
  <2>2. n + 1 \in 0 .. Len(more) /\ n \in 0 .. n /\ 0 \in 0 .. n
    BY <1>1
  <2>3. n + 1 \in h[j] <=> x \in Stars /\ n \in f[j]
    BY <1>1, <1>3, <2>1, <2>2 DEF GlobStart, n
  <2> QED
    BY <1>5, <1>6, <2>3 DEF more, n
<1>7. CASE j # 0
  <2>1. j \in 1 .. Len(text)
    BY <1>7
  <2>2. h[j] = GlobStep(more, h[j - 1], text[j]) /\ f[j] = GlobStep(tokens, f[j - 1], text[j])
    BY <1>2, <2>1 DEF Runs
  <2>3. n + 1 \in 1 .. Len(more) /\ \A k \in 1 .. (n + 1) : k = n + 1 \/ k \in 1 .. n
    BY <1>1
  <2>4. n + 1 \in h[j] <=> \E k \in 1 .. (n + 1) : Entered(more, h[j - 1], text[j], k) /\ Passed(more, k, n + 1)
    BY <2>2, <2>3 DEF GlobStep
  <2>5. Passed(more, n + 1, n + 1) /\ n + 1 \in 1 .. (n + 1)
    BY <1>1 DEF Passed
  <2>6. \A k \in 1 .. n : k \in 1 .. (n + 1) /\ k \in 0 .. n
    BY <1>1
  <2>7. n + 1 \in h[j] <=>
          \/ Entered(more, h[j - 1], text[j], n + 1)
          \/ \E k \in 1 .. n : Entered(more, h[j - 1], text[j], k) /\ x \in Stars /\ Passed(tokens, k, n)
    BY <1>3, <2>3, <2>4, <2>5, <2>6
  <2>8. \A k \in 1 .. n : Passed(more, k, n) <=> Passed(tokens, k, n)
    <3>1. \A k, i \in 0 .. n : Passed(more, k, i) <=> Passed(tokens, k, i)
      BY PassedMore DEF more, n
    <3> QED
      BY <1>1, <2>6, <3>1
  <2>9. n \in h[j] <=> \E k \in 1 .. n : Entered(more, h[j - 1], text[j], k) /\ Passed(tokens, k, n)
    <3>1. n # 0 => n \in 1 .. Len(more)
      BY <1>1
    <3>2. n = 0 => n \notin 1 .. Len(more) /\ 1 .. n = {}
      BY <1>1
    <3> QED
      BY <2>2, <2>8, <3>1, <3>2 DEF GlobStep
  <2>10. n \in h[j] <=> n \in f[j]
    BY <1>1, <1>4
  <2>11. n + 1 \in h[j] <=> Entered(more, h[j - 1], text[j], n + 1) \/ (x \in Stars /\ n \in f[j])
    BY <2>7, <2>9, <2>10
  <2> QED
    BY <1>5, <1>7, <2>11 DEF more, n, h
<1> QED
  BY <1>6, <1>7

\* No character from the (k+1)th to the jth is x.
Free(text, k, j, x) == \A l \in (k + 1) .. j : text[l] # x

\* The character at which a star stops.
Stop(star) == IF star = "*" THEN "/" ELSE "LF"

\* What a star may have read after what came before it.
LEMMA StarReads ==
  ASSUME NEW S, NEW tokens \in Seq(S), NEW x \in S, x \in Stars, NEW text, Len(text) \in Nat
  PROVE  \A j \in 0 .. Len(text) :
           j \in Reached(Append(tokens, x), text) <=>
             \E k \in Reached(tokens, text) : k <= j /\ Free(text, k, j, Stop(x))
<1> DEFINE A == Reached(tokens, text)
           more == Append(tokens, x)
           N == Reached(more, text)
           s == Stop(x)
           After(j) == \E k \in A : k <= j /\ Free(text, k, j, s)
           G == {j \in 0 .. Len(text) : j \in N <=> After(j)}
<1>1. A \subseteq 0 .. Len(text)
  BY DEF Reached
<1>2. Len(tokens) \in Nat /\ Len(more) = Len(tokens) + 1 /\ more[Len(tokens) + 1] = x
  OBVIOUS
<1>3. ASSUME NEW j \in 1 .. Len(text)
      PROVE  Entered(more, Run(more, text)[j - 1], text[j], Len(tokens) + 1) <=> text[j] # s /\ j - 1 \in N
  <2>1. j - 1 \in N <=> Len(tokens) + 1 \in Run(more, text)[j - 1]
    BY <1>2 DEF Reached
  <2> HIDE DEF more, N
  <2> QED
    BY <1>2, <2>1 DEF Entered, Stars, Stop
<1>4. 0 \in N <=> 0 \in A
  BY LastState
<1>5. \A j \in 1 .. Len(text) : j \in N <=> j \in A \/ (text[j] # s /\ j - 1 \in N)
  BY <1>3, LastState
<1> HIDE DEF A, N, more, s
<1>6. \A j \in 0 .. Len(text) : j \in A => After(j)
  BY DEF Free
<1>7. \A j \in 0 .. Len(text) : 0 \in 0 .. Len(text)
  OBVIOUS
<1>8. 0 \in G
  <2>1. After(0) <=> 0 \in A
    BY <1>1, <1>6
  <2> QED
    BY <1>4, <2>1
<1>9. ASSUME NEW j \in 1 .. Len(text), j - 1 \in G PROVE j \in G
  <2>1. j \in 0 .. Len(text) /\ (j - 1 \in N <=> After(j - 1)) /\ j - 1 \in 0 .. Len(text)
    BY <1>9
  <2>2. ASSUME After(j), j \notin A PROVE text[j] # s /\ After(j - 1)
    <3>1. PICK k \in A : k <= j /\ Free(text, k, j, s)
      BY <2>2
    <3>2. k \in 0 .. (j - 1) /\ k <= j - 1
      BY <1>1, <2>2, <3>1
    <3>3. j \in (k + 1) .. j /\ \A l \in (k + 1) .. (j - 1) : l \in (k + 1) .. j
      BY <3>2
    <3> QED
      BY <3>1, <3>2, <3>3 DEF Free
  <2>3. ASSUME After(j - 1), text[j] # s PROVE After(j)
    <3>1. PICK k \in A : k <= j - 1 /\ Free(text, k, j - 1, s)
      BY <2>3
    <3>2. k <= j /\ \A l \in (k + 1) .. j : l = j \/ l \in (k + 1) .. (j - 1)
      BY <1>1, <3>1
    <3> QED
      BY <2>3, <3>1, <3>2 DEF Free
  <2>4. j \in A => After(j)
    BY <1>6, <2>1
  <2> HIDE DEF After
  <2>5. j \in N <=> After(j)
    BY <1>5, <2>1, <2>2, <2>3, <2>4
  <2> QED
    BY <2>1, <2>5
<1> HIDE DEF G
<1>10. \A j \in 0 .. Len(text) : j \in G
  BY <1>8, <1>9, UpTo
<1> QED
  BY <1>10 DEF G, N, more, A, s

\* A question mark or a plain character reads one character.
LEMMA PlainReads ==
  ASSUME NEW S, NEW tokens \in Seq(S), NEW x \in S, x \notin Stars, NEW text, Len(text) \in Nat
  PROVE  \A j \in 0 .. Len(text) :
           j \in Reached(Append(tokens, x), text) <=>
             /\ j # 0 /\ j - 1 \in Reached(tokens, text)
             /\ IF x = "?" THEN text[j] # "/" ELSE text[j] = x
<1> DEFINE more == Append(tokens, x)
           n == Len(tokens)
<1> TAKE j \in 0 .. Len(text)
<1>1. n \in Nat /\ Len(more) = n + 1 /\ more[n + 1] = x
  OBVIOUS
<1>2. j \in Reached(more, text) <=> j # 0 /\ Entered(more, Run(more, text)[j - 1], text[j], n + 1)
  BY LastState
<1>3. \A m \in 0 .. Len(text) : n \in Run(more, text)[m] <=> n \in Run(tokens, text)[m]
  <2>1. n \in 0 .. n
    BY <1>1
  <2> QED
    BY <2>1, RunExtends
<1>4. j # 0 => (j - 1 \in Reached(tokens, text) <=> n \in Run(more, text)[j - 1])
  <2>1. j # 0 => j - 1 \in 0 .. Len(text)
    OBVIOUS
  <2> QED
    BY <1>3, <2>1 DEF Reached
<1> HIDE DEF more, n
<1>5. Entered(more, Run(more, text)[j - 1], text[j], n + 1) <=>
        n \in Run(more, text)[j - 1] /\ (IF x = "?" THEN text[j] # "/" ELSE text[j] = x)
  <2>1. n + 1 - 1 = n
    BY <1>1 DEF n
  <2>2. x # "*" /\ x # "**"
    BY DEF Stars
  <2> QED
    BY <1>1, <2>1, <2>2 DEF Entered
<1> QED
  BY <1>2, <1>4, <1>5 DEF more

\* Before any token nothing was read.
LEMMA NothingRead ==
  ASSUME NEW text, Len(text) \in Nat
  PROVE  Reached(<<>>, text) = {0}
<1> DEFINE f == Run(<<>>, text)
<1>1. Runs(f, <<>>, text)
  BY RunExists
<1>2. Len(<<>>) = 0
  OBVIOUS
<1>3. 0 \in f[0]
  BY <1>1, <1>2 DEF Runs, GlobStart, Passed
<1>4. \A j \in 1 .. Len(text) : 0 \notin f[j]
  <2>1. \A j \in 1 .. Len(text) : f[j] \subseteq 1 .. 0
    BY <1>1, <1>2 DEF Runs, GlobStep
  <2> QED
    BY <2>1
<1>5. \A j \in 0 .. Len(text) : j = 0 \/ j \in 1 .. Len(text)
  OBVIOUS
<1> HIDE DEF f
<1> QED
  BY <1>2, <1>3, <1>4, <1>5 DEF Reached, f

\* A pair of stars after a pair of stars reads nothing new.
LEMMA StarredReads ==
  ASSUME NEW S, NEW tokens \in Seq(S), "**" \in S, NEW text, Len(text) \in Nat
  PROVE  \A j \in 0 .. Len(text) :
           j \in Reached(Starred(tokens), text) <=>
             \E k \in Reached(tokens, text) : k <= j /\ Free(text, k, j, "LF")
<1>0. "**" \in Stars /\ Stop("**") = "LF"
  <2>1. "**" # "*"
    OBVIOUS
  <2> QED
    BY <2>1 DEF Stars, Stop
<1>1. CASE ~EndsWith(tokens, "**")
  <2>1. Starred(tokens) = Append(tokens, "**")
    BY <1>1 DEF Starred
  <2> QED
    BY <1>0, <2>1, StarReads
<1>2. CASE EndsWith(tokens, "**")
  <2>1. Starred(tokens) = tokens
    BY <1>2 DEF Starred
  <2>2. PICK first \in Seq(S) : tokens = Append(first, "**")
    <3>1. tokens # <<>> /\ tokens[Len(tokens)] = "**"
      BY <1>2 DEF EndsWith, Last
    <3>2. Len(tokens) \in Nat \ {0}
      BY <3>1, EmptySeq
    <3> DEFINE first == SubSeq(tokens, 1, Len(tokens) - 1)
    <3>3. first \in Seq(S) /\ tokens = Append(first, "**")
      BY <3>1, <3>2
    <3> QED
      BY <3>3
  <2> DEFINE A == Reached(first, text)
             N == Reached(tokens, text)
  <2>3. A \subseteq 0 .. Len(text) /\ N \subseteq 0 .. Len(text)
    BY DEF Reached
  <2>4. \A j \in 0 .. Len(text) : j \in N <=> \E k \in A : k <= j /\ Free(text, k, j, "LF")
    BY <1>0, <2>2, StarReads
  <2> HIDE DEF A, N
  <2>5. ASSUME NEW j \in 0 .. Len(text), NEW k \in N, k <= j, Free(text, k, j, "LF") PROVE j \in N
    <3>1. PICK m \in A : m <= k /\ Free(text, m, k, "LF")
      BY <2>3, <2>4
    <3>2. m <= j /\ \A l \in (m + 1) .. j : l \in (m + 1) .. k \/ l \in (k + 1) .. j
      BY <2>3, <2>5, <3>1
    <3>3. Free(text, m, j, "LF")
      BY <2>5, <3>1, <3>2 DEF Free
    <3> QED
      BY <2>4, <3>2, <3>3
  <2>6. ASSUME NEW j \in N PROVE j <= j /\ Free(text, j, j, "LF") /\ j \in 0 .. Len(text)
    BY <2>3 DEF Free
  <2> QED
    BY <2>1, <2>5, <2>6 DEF N
<1> QED
  BY <1>1, <1>2

\* The tokens of a glob, and whether the next character is the second of a pair.
ScanStep(glob, i, before) ==
  CASE before.skip -> [skip |-> FALSE, tokens |-> before.tokens]
    [] ~before.skip /\ TwoStars(glob, i) -> [skip |-> TRUE, tokens |-> Starred(before.tokens)]
    [] OTHER -> [skip |-> FALSE, tokens |-> Append(before.tokens, glob[i])]
Scans(f, glob) ==
  /\ f[0] = [skip |-> FALSE, tokens |-> <<>>]
  /\ \A i \in 1 .. Len(glob) : f[i] = ScanStep(glob, i, f[i - 1])

Scanned(S) == [skip : BOOLEAN, tokens : Seq(S)]

LEMMA ScanStepType ==
  ASSUME NEW S, "**" \in S, NEW glob \in Seq(S), NEW i \in 1 .. Len(glob), NEW before \in Scanned(S)
  PROVE  ScanStep(glob, i, before) \in Scanned(S)
<1>1. before.skip \in BOOLEAN /\ before.tokens \in Seq(S) /\ glob[i] \in S
  BY DEF Scanned
<1>2. Append(before.tokens, glob[i]) \in Seq(S) /\ Starred(before.tokens) \in Seq(S)
  BY <1>1 DEF Starred
<1> DEFINE a == [skip |-> FALSE, tokens |-> before.tokens]
           b == [skip |-> TRUE, tokens |-> Starred(before.tokens)]
           c == [skip |-> FALSE, tokens |-> Append(before.tokens, glob[i])]
           p == TwoStars(glob, i)
<1>3. a \in Scanned(S) /\ b \in Scanned(S) /\ c \in Scanned(S)
  BY <1>1, <1>2 DEF Scanned
<1>4. ScanStep(glob, i, before) \in {a, b, c}
  <2>1. ScanStep(glob, i, before) = CASE before.skip -> a [] ~before.skip /\ p -> b [] OTHER -> c
    BY Zenon DEF ScanStep
  <2> HIDE DEF a, b, c, p
  <2> QED
    BY <2>1
<1> QED
  BY <1>3, <1>4

LEMMA TokensScanned ==
  ASSUME NEW S, "**" \in S, NEW glob \in Seq(S)
  PROVE  \E f \in [0 .. Len(glob) -> Scanned(S)] : Scans(f, glob) /\ GlobTokens(glob) = f[Len(glob)].tokens
<1> DEFINE n == Len(glob)
           base == [skip |-> FALSE, tokens |-> <<>>]
           step == [i \in 1 .. n |-> [before \in Scanned(S) |-> ScanStep(glob, i, before)]]
           Body(h, i) == CASE i = 0 -> base
                           [] i > 0 /\ h[i - 1].skip -> [skip |-> FALSE, tokens |-> h[i - 1].tokens]
                           [] i > 0 /\ ~h[i - 1].skip /\ TwoStars(glob, i) ->
                                [skip |-> TRUE, tokens |-> Starred(h[i - 1].tokens)]
                           [] OTHER -> [skip |-> FALSE, tokens |-> Append(h[i - 1].tokens, glob[i])]
           Eq(h) == h = [i \in 0 .. n |-> Body(h, i)]
           c == CHOOSE h : Eq(h)
<1>1. n \in Nat
  OBVIOUS
<1>2. base \in Scanned(S)
  BY DEF Scanned
<1>3. step \in [1 .. n -> [Scanned(S) -> Scanned(S)]]
  BY ScanStepType
<1>4. \A i \in 1 .. n : \A b \in Scanned(S) : step[i][b] = ScanStep(glob, i, b)
  OBVIOUS
<1>5. \A h : \A i \in 1 .. n : Body(h, i) = ScanStep(glob, i, h[i - 1])
  <2> TAKE h
  <2> TAKE i \in 1 .. n
  <2>1. i # 0 /\ i > 0
    BY <1>1
  <2> DEFINE w == h[i - 1]
             x == [skip |-> FALSE, tokens |-> w.tokens]
             y == [skip |-> TRUE, tokens |-> Starred(w.tokens)]
             z == [skip |-> FALSE, tokens |-> Append(w.tokens, glob[i])]
             p == TwoStars(glob, i)
             q == w.skip
  <2>2. Body(h, i) = CASE i = 0 -> base [] i > 0 /\ q -> x [] i > 0 /\ ~q /\ p -> y [] OTHER -> z
    BY Zenon
  <2>3. ScanStep(glob, i, h[i - 1]) = CASE q -> x [] ~q /\ p -> y [] OTHER -> z
    BY Zenon DEF ScanStep
  <2> HIDE DEF Body, base, x, y, z, p, q
  <2> QED
    BY <2>1, <2>2, <2>3
<1>6. \A h : Body(h, 0) = base
  <2> TAKE h
  <2> DEFINE x == [skip |-> FALSE, tokens |-> h[0 - 1].tokens]
             y == [skip |-> TRUE, tokens |-> Starred(h[0 - 1].tokens)]
             z == [skip |-> FALSE, tokens |-> Append(h[0 - 1].tokens, glob[0])]
             p == TwoStars(glob, 0)
             q == h[0 - 1].skip
  <2>1. Body(h, 0) = CASE 0 = 0 -> base [] 0 > 0 /\ q -> x [] 0 > 0 /\ ~q /\ p -> y [] OTHER -> z
    BY Zenon
  <2>2. ~(0 > 0)
    OBVIOUS
  <2> HIDE DEF Body, base, x, y, z, p, q
  <2> QED
    BY <2>1, <2>2
<1>7. GlobTokens(glob) = c[n].tokens
  BY Zenon DEF GlobTokens
<1> HIDE DEF n, base, step, Body
<1>8. PICK f \in [0 .. n -> Scanned(S)] : Recursive(f, n, base, step)
  BY <1>1, <1>2, <1>3, RecursionExists
<1>9. f[0] = base /\ \A i \in 1 .. n : f[i] = ScanStep(glob, i, f[i - 1])
  <2>1. \A i \in 1 .. n : f[i - 1] \in Scanned(S)
    BY <1>1, <1>8
  <2> QED
    BY <1>4, <1>8, <2>1 DEF Recursive
<1>10. Eq(f)
  <2>1. \A i \in 0 .. n : f[i] = Body(f, i)
    <3>1. \A i \in 0 .. n : i = 0 \/ i \in 1 .. n
      BY <1>1
    <3> QED
      BY <1>5, <1>6, <1>9, <3>1
  <2> QED
    BY <1>8, <2>1
<1>11. Eq(c)
  <2> HIDE DEF Eq
  <2> QED
    BY <1>10, Zenon
<1> HIDE DEF c
<1>12. c[0] = base /\ \A i \in 1 .. n : c[i] = ScanStep(glob, i, c[i - 1])
  <2>1. \A i \in 0 .. n : c[i] = Body(c, i)
    BY <1>11
  <2>2. 0 \in 0 .. n /\ \A i \in 1 .. n : i \in 0 .. n
    BY <1>1
  <2> QED
    BY <1>5, <1>6, <2>1, <2>2
<1>13. Follows(c, n, Scanned(S), base, step)
  BY <1>4, <1>12 DEF Follows
<1>14. c[n] = f[n]
  <2>1. \A i \in 0 .. n : c[i] = f[i]
    BY <1>1, <1>8, <1>13, RecursionFollowed
  <2> QED
    BY <1>1, <2>1
<1> QED
  BY <1>7, <1>9, <1>14 DEF Scans, n, base

\* Where the rest of a glob may start, read from the right.
Rests(h, glob, text) ==
  /\ h[Len(glob) + 1] = {Len(text) + 1}
  /\ \A i \in 1 .. Len(glob) :
       h[i] = CASE TwoStars(glob, i) ->
                     {j \in 1 .. (Len(text) + 1) :
                        \E k \in j .. (Len(text) + 1) : (\A l \in j .. (k - 1) : text[l] # "LF") /\ k \in h[i + 2]}
                [] glob[i] = "*" /\ ~TwoStars(glob, i) ->
                     {j \in 1 .. (Len(text) + 1) :
                        \E k \in j .. (Len(text) + 1) : (\A l \in j .. (k - 1) : text[l] # "/") /\ k \in h[i + 1]}
                [] OTHER -> {j \in 1 .. Len(text) : /\ glob[i] = text[j] \/ (glob[i] = "?" /\ text[j] # "/")
                                                    /\ j + 1 \in h[i + 1]}

LEMMA RestsExist ==
  ASSUME NEW glob, Len(glob) \in Nat, NEW text, Len(text) \in Nat
  PROVE  \E h : Rests(h, glob, text) /\ (Matches(glob, text) <=> 1 \in h[1])
<1> DEFINE n == Len(glob)
           end == Len(text) + 1
           free(j, k, x) == \A l \in j .. (k - 1) : text[l] # x
           two(i, u) == {j \in 1 .. end : \E k \in j .. end : free(j, k, "LF") /\ k \in u}
           one(i, u) == {j \in 1 .. end : \E k \in j .. end : free(j, k, "/") /\ k \in u}
           same(i, u) == {j \in 1 .. Len(text) : /\ glob[i] = text[j] \/ (glob[i] = "?" /\ text[j] # "/")
                                               /\ j + 1 \in u}
           p(i) == TwoStars(glob, i)
           q(i) == glob[i] = "*"
           V == (SUBSET (1 .. end)) \X (SUBSET (1 .. end))
           base == << {end}, {} >>
           New(i, w) == CASE p(i) -> two(i, w[2]) [] q(i) /\ ~p(i) -> one(i, w[1]) [] OTHER -> same(i, w[1])
           step == [m \in 1 .. n |-> [w \in V |-> <<New(n + 1 - m, w), w[1]>>]]
           Body(h, i) ==
             CASE i > n -> {end}
               [] i <= n /\ p(i) -> two(i, h[i + 2])
               [] i <= n /\ q(i) /\ ~p(i) -> one(i, h[i + 1])
               [] OTHER -> same(i, h[i + 1])
           Eq(h) == h = [i \in 1 .. (n + 1) |-> Body(h, i)]
           c == CHOOSE h : Eq(h)
<1>1. n \in Nat /\ end \in Nat \ {0}
  OBVIOUS
<1>2. \A i : \A u : two(i, u) \in SUBSET (1 .. end) /\ one(i, u) \in SUBSET (1 .. end) /\ same(i, u) \in SUBSET (1 .. end)
  <2>1. 1 .. Len(text) \subseteq 1 .. end
    OBVIOUS
  <2> QED
    BY <2>1
<1>3. Matches(glob, text) <=> 1 \in c[1]
  BY Zenon DEF Matches
<1>4. base \in V
  BY <1>1
<1>5. \A i : \A u \in V : New(i, u) \in SUBSET (1 .. end)
  <2> TAKE i
  <2> TAKE u \in V
  <2>1. New(i, u) \in {two(i, u[2]), one(i, u[1]), same(i, u[1])}
    <3> DEFINE x == two(i, u[2])
               y == one(i, u[1])
               z == same(i, u[1])
    <3>1. New(i, u) = CASE p(i) -> x [] q(i) /\ ~p(i) -> y [] OTHER -> z
      BY Zenon
    <3> HIDE DEF x, y, z, New, p, q
    <3>2. New(i, u) \in {x, y, z}
      BY <3>1
    <3> QED
      BY <3>2 DEF x, y, z
  <2> HIDE DEF New, two, one, same, V
  <2> QED
    BY <1>2, <2>1
<1> HIDE DEF New, two, one, same, end, n, p, q
<1>6. step \in [1 .. n -> [V -> V]]
  BY <1>5
<1>7. \A m \in 1 .. n : \A w \in V : step[m][w] = <<New(n + 1 - m, w), w[1]>>
  OBVIOUS
<1> HIDE DEF V, base, step
<1>8. PICK f \in [0 .. n -> V] : Recursive(f, n, base, step)
  BY <1>1, <1>4, <1>6, RecursionExists
<1>9. f[0] = base /\ \A m \in 1 .. n : f[m] = <<New(n + 1 - m, f[m - 1]), f[m - 1][1]>>
  <2>1. \A m \in 1 .. n : f[m - 1] \in V
    BY <1>1, <1>8
  <2> QED
    BY <1>7, <1>8, <2>1 DEF Recursive
<1> DEFINE g == [i \in 1 .. (n + 1) |-> f[n + 1 - i][1]]
<1>10. g[n + 1] = {end}
  BY <1>1, <1>9 DEF base
<1>11. ASSUME NEW i \in 1 .. n
       PROVE  /\ p(i) => i + 2 \in 1 .. (n + 1) /\ g[i] = two(i, g[i + 2])
              /\ q(i) /\ ~p(i) => g[i] = one(i, g[i + 1])
              /\ ~q(i) /\ ~p(i) => g[i] = same(i, g[i + 1])
  <2> DEFINE m == n + 1 - i
             w == f[m - 1]
  <2>1. m \in 1 .. n /\ n + 1 - m = i /\ n + 1 - (i + 1) = m - 1 /\ i \in 1 .. (n + 1) /\ i + 1 \in 1 .. (n + 1)
    BY <1>1
  <2> HIDE DEF m
  <2>2. f[m] = <<New(i, w), w[1]>>
    BY <1>9, <2>1
  <2>3. g[i] = New(i, w) /\ g[i + 1] = w[1]
    <3>1. g[i] = f[m][1] /\ g[i + 1] = w[1]
      BY <2>1 DEF m
    <3> HIDE DEF g, w
    <3> QED
      BY <2>2, <3>1
  <2>4. p(i) => i + 2 \in 1 .. (n + 1) /\ g[i + 2] = w[2]
    <3> SUFFICES ASSUME p(i) PROVE i + 2 \in 1 .. (n + 1) /\ g[i + 2] = w[2]
      OBVIOUS
    <3>1. i < n
      BY DEF p, n, TwoStars
    <3>2. m - 1 \in 1 .. n /\ i + 2 \in 1 .. (n + 1) /\ n + 1 - (i + 2) = m - 1 - 1
      BY <1>1, <3>1 DEF m
    <3>3. f[m - 1][2] = f[m - 1 - 1][1]
      <4> DEFINE k == m - 1
      <4>1. k \in 1 .. n
        BY <3>2
      <4>2. f[k] = <<New(n + 1 - k, f[k - 1]), f[k - 1][1]>>
        BY <1>9, <4>1
      <4> HIDE DEF k
      <4>3. f[k][2] = f[k - 1][1]
        BY <4>2
      <4> QED
        BY <4>3 DEF k
    <3> QED
      BY <3>2, <3>3
  <2> DEFINE x == two(i, w[2])
             y == one(i, w[1])
             z == same(i, w[1])
  <2>5. New(i, w) = CASE p(i) -> x [] q(i) /\ ~p(i) -> y [] OTHER -> z
    BY Zenon DEF New
  <2>6. (p(i) => New(i, w) = x) /\ (q(i) /\ ~p(i) => New(i, w) = y) /\ (~q(i) /\ ~p(i) => New(i, w) = z)
    <3> HIDE DEF x, y, z, w
    <3> QED
      BY <2>5
  <2> HIDE DEF g, w
  <2> QED
    BY <2>3, <2>4, <2>6
<1>12. \A h : \A i \in 1 .. n :
         /\ p(i) => Body(h, i) = two(i, h[i + 2])
         /\ q(i) /\ ~p(i) => Body(h, i) = one(i, h[i + 1])
         /\ ~q(i) /\ ~p(i) => Body(h, i) = same(i, h[i + 1])
  <2> TAKE h
  <2> TAKE i \in 1 .. n
  <2> DEFINE x == two(i, h[i + 2])
             y == one(i, h[i + 1])
             z == same(i, h[i + 1])
             e == {end}
  <2>1. Body(h, i) = CASE i > n -> e [] i <= n /\ p(i) -> x [] i <= n /\ q(i) /\ ~p(i) -> y [] OTHER -> z
    BY Zenon
  <2>2. ~(i > n) /\ i <= n
    BY <1>1
  <2> HIDE DEF x, y, z, e, Body
  <2>3. (p(i) => Body(h, i) = x) /\ (q(i) /\ ~p(i) => Body(h, i) = y) /\ (~q(i) /\ ~p(i) => Body(h, i) = z)
    BY <2>1, <2>2
  <2> QED
    BY <2>3 DEF x, y, z
<1>13. \A h : Body(h, n + 1) = {end}
  <2> TAKE h
  <2> DEFINE i == n + 1
             x == two(i, h[i + 2])
             y == one(i, h[i + 1])
             z == same(i, h[i + 1])
             e == {end}
  <2>1. Body(h, i) = CASE i > n -> e [] i <= n /\ p(i) -> x [] i <= n /\ q(i) /\ ~p(i) -> y [] OTHER -> z
    BY Zenon
  <2>2. i > n /\ ~(i <= n)
    BY <1>1
  <2> HIDE DEF x, y, z, e, Body, i
  <2>3. Body(h, i) = e
    BY <2>1, <2>2
  <2> QED
    BY <2>3 DEF e, i
<1> HIDE DEF Body
<1>14. \A i \in 1 .. (n + 1) : i = n + 1 \/ i \in 1 .. n
  BY <1>1
<1>15. Eq(g)
  <2>1. \A i \in 1 .. n : g[i] = Body(g, i)
    <3> HIDE DEF g
    <3> QED
      BY <1>11, <1>12
  <2>2. g[n + 1] = Body(g, n + 1)
    BY <1>10, <1>13
  <2>3. g = [i \in 1 .. (n + 1) |-> g[i]]
    OBVIOUS
  <2> HIDE DEF g
  <2>4. \A i \in 1 .. (n + 1) : g[i] = Body(g, i)
    BY <1>14, <2>1, <2>2
  <2> QED
    BY <2>3, <2>4
<1>16. Eq(c)
  <2> HIDE DEF Eq, g
  <2> QED
    BY <1>15, Zenon
<1> HIDE DEF c
<1>17. Rests(c, glob, text)
  <2>1. \A i \in 1 .. (n + 1) : c[i] = Body(c, i)
    BY <1>16
  <2>2. n + 1 \in 1 .. (n + 1) /\ \A i \in 1 .. n : i \in 1 .. (n + 1)
    BY <1>1
  <2>3. c[n + 1] = {end}
    BY <1>13, <2>1, <2>2
  <2>4. ASSUME NEW i \in 1 .. n
        PROVE  c[i] = CASE p(i) -> two(i, c[i + 2]) [] q(i) /\ ~p(i) -> one(i, c[i + 1]) [] OTHER -> same(i, c[i + 1])
    <3> DEFINE x == two(i, c[i + 2])
               y == one(i, c[i + 1])
               z == same(i, c[i + 1])
    <3>1. (p(i) => c[i] = x) /\ (q(i) /\ ~p(i) => c[i] = y) /\ (~q(i) /\ ~p(i) => c[i] = z)
      BY <1>12, <2>1, <2>2
    <3> HIDE DEF x, y, z
    <3>2. c[i] = CASE p(i) -> x [] q(i) /\ ~p(i) -> y [] OTHER -> z
      BY <3>1
    <3> QED
      BY <3>2 DEF x, y, z
  <2> QED
    BY <2>3, <2>4, Zenon DEF Rests, n, end, p, q, two, one, same
<1> QED
  BY <1>3, <1>17

\* Where a star may start when the rest starts in H.
StarBefore(text, n, H, s) ==
  {j \in 1 .. (n + 1) : \E k \in j .. (n + 1) : (\A l \in j .. (k - 1) : text[l] # s) /\ k \in H}

\* The rest of the glob starts where its beginning ends.
Adjoin(A, G) == \E j \in A : j + 1 \in G

\* What a star has read at N when what came before it has read at A.
StarAfter(text, n, A, N, s) == \A j \in 0 .. n : j \in N <=> \E k \in A : k <= j /\ Free(text, k, j, s)

\* One token moves from the rest of the glob to what was read.
LEMMA StarMoves ==
  ASSUME NEW text, NEW n \in Nat, NEW A \in SUBSET (0 .. n), NEW N \in SUBSET (0 .. n), NEW G, NEW H, NEW s,
         StarAfter(text, n, A, N, s), H \subseteq 1 .. (n + 1), G = StarBefore(text, n, H, s)
  PROVE  Adjoin(A, G) <=> Adjoin(N, H)
<1>1. ASSUME NEW j \in A, j + 1 \in G PROVE \E m \in N : m + 1 \in H
  <2>1. PICK k \in (j + 1) .. (n + 1) : (\A l \in (j + 1) .. (k - 1) : text[l] # s) /\ k \in H
    BY <1>1 DEF StarBefore
  <2>2. j \in 0 .. n
    OBVIOUS
  <2>3. k - 1 \in 0 .. n /\ j <= k - 1 /\ (k - 1) + 1 = k
    BY <2>1, <2>2
  <2>4. k - 1 \in N
    BY <2>1, <2>3 DEF Free, StarAfter
  <2> QED
    BY <2>1, <2>3, <2>4
<1>2. ASSUME NEW m \in N, m + 1 \in H PROVE \E j \in A : j + 1 \in G
  <2>1. PICK k \in A : k <= m /\ Free(text, k, m, s)
    BY DEF StarAfter
  <2>2. m \in 0 .. n /\ k \in 0 .. n
    OBVIOUS
  <2>3. k + 1 \in 1 .. (n + 1) /\ m + 1 \in (k + 1) .. (n + 1) /\ (m + 1) - 1 = m
    BY <2>1, <2>2
  <2>4. \A l \in (k + 1) .. ((m + 1) - 1) : text[l] # s
    BY <2>1, <2>3 DEF Free
  <2>5. k + 1 \in G
    BY <1>2, <2>3, <2>4 DEF StarBefore
  <2> QED
    BY <2>5
<1> QED
  BY <1>1, <1>2 DEF Adjoin

LEMMA PlainMoves ==
  ASSUME NEW text, NEW n \in Nat, NEW A \in SUBSET (0 .. n), NEW N \in SUBSET (0 .. n), NEW G, NEW H, NEW x,
         \A j \in 0 .. n : j \in N <=> /\ j # 0 /\ j - 1 \in A
                                       /\ IF x = "?" THEN text[j] # "/" ELSE text[j] = x,
         G = {j \in 1 .. n : /\ x = text[j] \/ (x = "?" /\ text[j] # "/")
                             /\ j + 1 \in H},
         H \subseteq 1 .. (n + 1)
  PROVE  Adjoin(A, G) <=> Adjoin(N, H)
<1>0. \A j : (IF x = "?" THEN text[j] # "/" ELSE text[j] = x) <=> (x = text[j] \/ (x = "?" /\ text[j] # "/"))
  <2>1. "?" # "/"
    OBVIOUS
  <2> QED
    BY <2>1
<1> DEFINE Taken(j) == x = text[j] \/ (x = "?" /\ text[j] # "/")
<1>1. \A j \in 0 .. n : j \in N <=> j # 0 /\ j - 1 \in A /\ Taken(j)
  BY <1>0
<1>2. \A j : j \in G <=> j \in 1 .. n /\ Taken(j) /\ j + 1 \in H
  OBVIOUS
<1> HIDE DEF Taken
<1>3. ASSUME NEW j \in A, j + 1 \in G PROVE \E m \in N : m + 1 \in H
  <2>1. j + 1 \in 1 .. n /\ Taken(j + 1) /\ (j + 1) + 1 \in H /\ (j + 1) - 1 = j /\ j + 1 # 0 /\ j + 1 \in 0 .. n
    BY <1>2, <1>3
  <2>2. j + 1 \in N
    BY <1>1, <2>1
  <2> QED
    BY <2>1, <2>2
<1>4. ASSUME NEW m \in N, m + 1 \in H PROVE \E j \in A : j + 1 \in G
  <2>1. m # 0 /\ m - 1 \in A /\ Taken(m) /\ m \in 1 .. n /\ (m - 1) + 1 = m
    BY <1>1
  <2>2. m \in G
    BY <1>2, <1>4, <2>1
  <2> QED
    BY <2>1, <2>2
<1> QED
  BY <1>3, <1>4 DEF Adjoin

\* Where the second character of a pair is awaited, the pair was the last token.
LEMMA SkipMeans ==
  ASSUME NEW glob, NEW f, Scans(f, glob), Len(glob) \in Nat, NEW i \in 0 .. Len(glob), f[i].skip
  PROVE  /\ i \in 1 .. Len(glob) /\ ~f[i - 1].skip /\ TwoStars(glob, i)
         /\ f[i].tokens = Starred(f[i - 1].tokens)
<1>1. i # 0
  BY DEF Scans
<1>2. i \in 1 .. Len(glob) /\ f[i] = ScanStep(glob, i, f[i - 1])
  BY <1>1 DEF Scans
<1> DEFINE w == f[i - 1]
           a == [skip |-> FALSE, tokens |-> w.tokens]
           b == [skip |-> TRUE, tokens |-> Starred(w.tokens)]
           c == [skip |-> FALSE, tokens |-> Append(w.tokens, glob[i])]
           p == TwoStars(glob, i)
           q == w.skip
<1>3. f[i] = CASE q -> a [] ~q /\ p -> b [] OTHER -> c
  BY <1>2, Zenon DEF ScanStep
<1>4. ~a.skip /\ ~c.skip /\ b.tokens = Starred(w.tokens)
  OBVIOUS
<1> HIDE DEF a, b, c, p, q
<1>5. ~q /\ p /\ f[i] = b
  BY <1>3, <1>4
<1> QED
  BY <1>2, <1>4, <1>5 DEF p, q

\* The same of one that is not.
LEMMA NoSkipMeans ==
  ASSUME NEW glob, NEW f, Scans(f, glob), NEW i \in 1 .. Len(glob), ~f[i].skip
  PROVE  \/ f[i - 1].skip /\ f[i].tokens = f[i - 1].tokens
         \/ ~f[i - 1].skip /\ ~TwoStars(glob, i) /\ f[i].tokens = Append(f[i - 1].tokens, glob[i])
<1>1. f[i] = ScanStep(glob, i, f[i - 1])
  BY DEF Scans
<1> DEFINE w == f[i - 1]
           a == [skip |-> FALSE, tokens |-> w.tokens]
           b == [skip |-> TRUE, tokens |-> Starred(w.tokens)]
           c == [skip |-> FALSE, tokens |-> Append(w.tokens, glob[i])]
           p == TwoStars(glob, i)
           q == w.skip
<1>2. f[i] = CASE q -> a [] ~q /\ p -> b [] OTHER -> c
  BY <1>1, Zenon DEF ScanStep
<1>3. b.skip /\ a.tokens = w.tokens /\ c.tokens = Append(w.tokens, glob[i])
  OBVIOUS
<1> HIDE DEF a, b, c, p, q
<1>4. (q /\ f[i] = a) \/ (~q /\ ~p /\ f[i] = c)
  BY <1>2, <1>3
<1> QED
  BY <1>3, <1>4 DEF p, q

\* What was read and where the rest may start meet, wherever a glob is cut.
Meet(f, h, text, i) == Adjoin(Reached(f[i].tokens, text), h[i + 1])

LEMMA RestsInside ==
  ASSUME NEW glob, NEW text, NEW h, Rests(h, glob, text), Len(glob) \in Nat, Len(text) \in Nat
  PROVE  \A i \in 1 .. (Len(glob) + 1) : h[i] \subseteq 1 .. (Len(text) + 1)
<1> TAKE i \in 1 .. (Len(glob) + 1)
<1>1. CASE i = Len(glob) + 1
  <2>1. h[i] = {Len(text) + 1}
    BY <1>1 DEF Rests
  <2> QED
    BY <2>1
<1>2. CASE i \in 1 .. Len(glob)
  <2> DEFINE x == {j \in 1 .. (Len(text) + 1) :
                     \E k \in j .. (Len(text) + 1) : (\A l \in j .. (k - 1) : text[l] # "LF") /\ k \in h[i + 2]}
             y == {j \in 1 .. (Len(text) + 1) :
                     \E k \in j .. (Len(text) + 1) : (\A l \in j .. (k - 1) : text[l] # "/") /\ k \in h[i + 1]}
             z == {j \in 1 .. Len(text) : /\ glob[i] = text[j] \/ (glob[i] = "?" /\ text[j] # "/")
                                          /\ j + 1 \in h[i + 1]}
             p == TwoStars(glob, i)
             q == glob[i] = "*"
             U == 1 .. (Len(text) + 1)
  <2>1. h[i] = CASE p -> x [] q /\ ~p -> y [] OTHER -> z
    BY <1>2, Zenon DEF Rests
  <2>2. x \subseteq U /\ y \subseteq U
    OBVIOUS
  <2>3. z \subseteq U
    <3>1. 1 .. Len(text) \subseteq U
      OBVIOUS
    <3> QED
      BY <3>1
  <2> HIDE DEF x, y, z, p, q, U
  <2>4. h[i] \subseteq U
    BY <2>1, <2>2, <2>3
  <2> QED
    BY <2>4 DEF U
<1> QED
  BY <1>1, <1>2

LEMMA AllMeet ==
  ASSUME NEW S, "**" \in S, NEW glob \in Seq(S \ {"**"}), NEW text, Len(text) \in Nat,
         NEW f \in [0 .. Len(glob) -> Scanned(S)], Scans(f, glob), NEW h, Rests(h, glob, text)
  PROVE  \A i \in 0 .. Len(glob) : ~f[i].skip => (1 \in h[1] <=> Meet(f, h, text, i))
<1> DEFINE n == Len(text)
           B == {k \in 0 .. Len(glob) : ~f[k].skip /\ ~(1 \in h[1] <=> Meet(f, h, text, k))}
<1> SUFFICES ASSUME B # {} PROVE FALSE
  OBVIOUS
<1>1. PICK k \in B : \A m \in B : k <= m
  <2>1. B \subseteq Nat
    OBVIOUS
  <2> HIDE DEF B
  <2> QED
    BY <2>1, LeastNatural
<1>2. k \in 0 .. Len(glob) /\ ~f[k].skip /\ ~(1 \in h[1] <=> Meet(f, h, text, k))
  BY <1>1
<1>3. \A m \in 0 .. Len(glob) : m < k /\ ~f[m].skip => (1 \in h[1] <=> Meet(f, h, text, m))
  BY <1>1, <1>2
<1>4. Len(glob) \in Nat /\ n \in Nat
  OBVIOUS
<1>5. \A m \in 0 .. Len(glob) : f[m].tokens \in Seq(S)
  BY DEF Scanned
<1>6. \A t : Reached(t, text) \in SUBSET (0 .. n)
  BY DEF Reached
<1>7. \A i \in 1 .. (Len(glob) + 1) : h[i] \subseteq 1 .. (n + 1)
  BY <1>4, RestsInside
<1> HIDE DEF B, n
<1>8. CASE k = 0
  <2>1. f[0].tokens = <<>>
    BY DEF Scans
  <2>2. Reached(f[0].tokens, text) = {0}
    BY <1>4, <2>1, NothingRead DEF n
  <2>3. Meet(f, h, text, 0) <=> 1 \in h[1]
    BY <2>2 DEF Meet, Adjoin
  <2> QED
    BY <1>2, <1>8, <2>3
<1>9. CASE k # 0 /\ f[k - 1].skip
  <2>1. k \in 1 .. Len(glob) /\ k - 1 \in 0 .. Len(glob)
    BY <1>2, <1>9
  <2>2. /\ k - 1 \in 1 .. Len(glob) /\ ~f[k - 1 - 1].skip /\ TwoStars(glob, k - 1)
        /\ f[k - 1].tokens = Starred(f[k - 1 - 1].tokens)
    BY <1>4, <1>9, <2>1, SkipMeans
  <2> DEFINE m == k - 1 - 1
  <2>3. m \in 0 .. Len(glob) /\ m < k /\ m + 1 = k - 1 /\ (k - 1) + 2 = k + 1 /\ k + 1 \in 1 .. (Len(glob) + 1)
    BY <2>1, <2>2
  <2>4. f[k].tokens = Starred(f[m].tokens)
    <3>1. f[k].tokens = f[k - 1].tokens
      BY <1>2, <1>9, <2>1, NoSkipMeans
    <3> QED
      BY <2>2, <3>1
  <2>5. 1 \in h[1] <=> Meet(f, h, text, m)
    BY <1>3, <2>2, <2>3
  <2> HIDE DEF m
  <2> DEFINE A == Reached(f[m].tokens, text)
             N == Reached(f[k].tokens, text)
             G == h[m + 1]
             H == h[k + 1]
  <2>6. \A j \in 0 .. n : j \in N <=> \E i \in A : i <= j /\ Free(text, i, j, "LF")
    BY <1>4, <1>5, <2>3, <2>4, StarredReads DEF n
  <2>7. G = StarBefore(text, n, H, "LF")
    <3>1. h[k - 1] = {j \in 1 .. (n + 1) : \E i \in j .. (n + 1) : (\A l \in j .. (i - 1) : text[l] # "LF") /\ i \in h[(k - 1) + 2]}
      BY <2>2, Zenon DEF Rests, n
    <3> QED
      BY <2>3, <3>1, Zenon DEF StarBefore
  <2>8. A \in SUBSET (0 .. n) /\ N \in SUBSET (0 .. n) /\ H \subseteq 1 .. (n + 1)
    BY <1>6, <1>7, <2>3
  <2>9. Meet(f, h, text, m) <=> Adjoin(A, G)
    BY Zenon DEF Meet
  <2>10. Meet(f, h, text, k) <=> Adjoin(N, H)
    BY Zenon DEF Meet
  <2> HIDE DEF A, N, G, H
  <2> DEFINE s == "LF"
  <2>11. StarAfter(text, n, A, N, s) /\ G = StarBefore(text, n, H, s)
    BY <2>6, <2>7, Zenon DEF StarAfter
  <2> HIDE DEF s
  <2>12. Adjoin(A, G) <=> Adjoin(N, H)
    BY <1>4, <2>8, <2>11, StarMoves
  <2> QED
    BY <1>2, <2>5, <2>9, <2>10, <2>12
<1>10. CASE k # 0 /\ ~f[k - 1].skip
  <2>1. k \in 1 .. Len(glob) /\ k - 1 \in 0 .. Len(glob) /\ k - 1 < k /\ (k - 1) + 1 = k /\ k + 1 \in 1 .. (Len(glob) + 1)
    BY <1>2, <1>10
  <2>2. ~TwoStars(glob, k) /\ f[k].tokens = Append(f[k - 1].tokens, glob[k])
    BY <1>2, <1>10, <2>1, NoSkipMeans
  <2>3. 1 \in h[1] <=> Meet(f, h, text, k - 1)
    BY <1>3, <1>10, <2>1
  <2>4. glob[k] \in S /\ glob[k] # "**"
    BY <2>1
  <2> DEFINE x == glob[k]
             A == Reached(f[k - 1].tokens, text)
             N == Reached(f[k].tokens, text)
             G == h[k]
             H == h[k + 1]
  <2>5. A \in SUBSET (0 .. n) /\ N \in SUBSET (0 .. n) /\ H \subseteq 1 .. (n + 1)
    BY <1>6, <1>7, <2>1
  <2>6. Meet(f, h, text, k - 1) <=> Adjoin(A, G)
    BY <2>1, Zenon DEF Meet
  <2>7. Meet(f, h, text, k) <=> Adjoin(N, H)
    BY Zenon DEF Meet
  <2>10. x \in S
    BY <2>4
  <2>8. CASE x = "*"
    <3>1. x \in Stars /\ Stop(x) = "/"
      BY <2>8 DEF Stars, Stop
    <3>2. \A j \in 0 .. n : j \in N <=> \E i \in A : i <= j /\ Free(text, i, j, "/")
      <4> DEFINE tokens == f[k - 1].tokens
      <4>1. tokens \in Seq(S) /\ f[k].tokens = Append(tokens, x)
        BY <1>5, <2>1, <2>2
      <4> HIDE DEF x, tokens
      <4>2. \A j \in 0 .. n :
              j \in Reached(Append(tokens, x), text) <=> \E i \in Reached(tokens, text) : i <= j /\ Free(text, i, j, "/")
        BY <2>10, <3>1, <4>1, StarReads DEF n
      <4> QED
        BY <4>1, <4>2 DEF tokens
    <3>3. G = StarBefore(text, n, H, "/")
      BY <2>1, <2>2, <2>8, Zenon DEF Rests, n, StarBefore
    <3> HIDE DEF A, N, G, H
    <3> DEFINE s == "/"
    <3>4. StarAfter(text, n, A, N, s) /\ G = StarBefore(text, n, H, s)
      BY <3>2, <3>3, Zenon DEF StarAfter
    <3> HIDE DEF s
    <3>5. Adjoin(A, G) <=> Adjoin(N, H)
      BY <1>4, <2>5, <3>4, StarMoves
    <3> QED
      BY <1>2, <2>3, <2>6, <2>7, <3>5
  <2>9. CASE x # "*"
    <3>1. x \notin Stars
      BY <2>4, <2>9 DEF Stars
    <3>2. \A j \in 0 .. n : j \in N <=> /\ j # 0 /\ j - 1 \in A
                                        /\ IF x = "?" THEN text[j] # "/" ELSE text[j] = x
      <4> DEFINE tokens == f[k - 1].tokens
      <4>1. tokens \in Seq(S) /\ f[k].tokens = Append(tokens, x)
        BY <1>5, <2>1, <2>2
      <4> HIDE DEF x, tokens
      <4>2. \A j \in 0 .. n :
              j \in Reached(Append(tokens, x), text) <=>
                /\ j # 0 /\ j - 1 \in Reached(tokens, text)
                /\ IF x = "?" THEN text[j] # "/" ELSE text[j] = x
        BY <2>10, <3>1, <4>1, PlainReads DEF n
      <4> QED
        BY <4>1, <4>2 DEF tokens
    <3>3. G = {j \in 1 .. n : /\ x = text[j] \/ (x = "?" /\ text[j] # "/")
                              /\ j + 1 \in H}
      BY <2>1, <2>2, <2>9, Zenon DEF Rests, n
    <3> HIDE DEF A, N, G, H, x
    <3>4. Adjoin(A, G) <=> Adjoin(N, H)
      BY <1>4, <2>5, <3>2, <3>3, PlainMoves
    <3> QED
      BY <1>2, <2>3, <2>6, <2>7, <3>4
  <2> QED
    BY <2>8, <2>9
<1> QED
  BY <1>8, <1>9, <1>10

\* The automaton accepts the language of the glob.
THEOREM GlobAcceptsItsLanguage ==
  ASSUME NEW S, "**" \in S, NEW glob \in Seq(S \ {"**"}), NEW text, Len(text) \in Nat
  PROVE  compileScopedGlob(glob, text) <=> Matches(glob, text)
<1> DEFINE n == Len(glob)
<1>1. glob \in Seq(S) /\ n \in Nat
  OBVIOUS
<1>2. PICK f \in [0 .. n -> Scanned(S)] : Scans(f, glob) /\ GlobTokens(glob) = f[n].tokens
  BY <1>1, TokensScanned
<1>3. PICK h : Rests(h, glob, text) /\ (Matches(glob, text) <=> 1 \in h[1])
  BY <1>1, RestsExist
<1>4. ~f[n].skip
  <2> SUFFICES ASSUME f[n].skip PROVE FALSE
    OBVIOUS
  <2>1. n \in 0 .. n
    BY <1>1
  <2>2. TwoStars(glob, n)
    BY <1>1, <1>2, <2>1, SkipMeans
  <2> QED
    BY <1>1, <2>2 DEF TwoStars
<1>5. 1 \in h[1] <=> Meet(f, h, text, n)
  BY <1>1, <1>2, <1>3, <1>4, AllMeet
<1>6. Meet(f, h, text, n) <=> Len(text) \in Reached(GlobTokens(glob), text)
  <2> DEFINE A == Reached(GlobTokens(glob), text)
  <2>1. h[n + 1] = {Len(text) + 1}
    BY <1>3 DEF Rests
  <2>2. A \subseteq 0 .. Len(text)
    BY DEF Reached
  <2>3. Meet(f, h, text, n) <=> \E j \in A : j + 1 \in h[n + 1]
    BY <1>2 DEF Meet, Adjoin
  <2> HIDE DEF A, n
  <2> QED
    BY <2>1, <2>2, <2>3 DEF A
<1> QED
  BY <1>3, <1>5, <1>6, GlobRuns
-----------------------------------------------------------------------------
(* What the queries answer.                                                  *)

\* QueriesExact of any answer and any store.
Shows(v, text) == IsPrefix(v.text, text) /\ v.truncated = (v.text # text)
KeptText(f, key) == IF key \in DOMAIN f THEN f[key] ELSE <<>>
StoredIn(f, id, scope) == {t \in ScopedPaths : <<id, scope, t>> \in DOMAIN f}
Within(prefix, t) == prefix = Undefined \/ IsPrefix(Split(prefix), Split(t))
QueryFacts(a, f) ==
  a.code = "ok" =>
    /\ a.tool = "read" => Shows(a.value, KeptText(f, a.args))
    /\ a.tool = "readText" => Shows(a.value, KeptText(UnityFiles, <<a.args[1], a.value.projectPath>>))
    /\ a.tool = "list" =>
         PageOf(a.value, {t \in StoredIn(f, a.args[1], a.args[2]) : Within(a.args[3], t)}, a.args[4])
    /\ a.tool = "glob" =>
         PageOf(a.value, StoredIn(f, a.args[1], a.args[2]) \cap Language[a.args[3]], a.args[4])

QueryTools == {"read", "readText", "list", "glob"}

LEMMA QueriesAfter ==
  QueryFacts(answer', files') => QueriesExact'
BY Zenon DEF QueryFacts, QueriesExact, Shows, KeptText, StoredIn, Stored, Within

LEMMA QueriesBefore ==
  QueryFacts(answer, files) => QueriesExact
BY Zenon DEF QueryFacts, QueriesExact, Shows, KeptText, StoredIn, Stored, Within

LEMMA NoQuery ==
  ASSUME NEW a, a.tool \notin QueryTools, NEW f
  PROVE  QueryFacts(a, f)
BY DEF QueryFacts, QueryTools

LEMMA LeastOfTwo ==
  ASSUME NEW a \in Int, NEW b \in Int
  PROVE  Min({a, b}) = IF a <= b THEN a ELSE b
<1> DEFINE m == IF a <= b THEN a ELSE b
<1>1. m \in {a, b} /\ \A y \in {a, b} : m <= y
  OBVIOUS
<1>2. \A x \in {a, b} : (\A y \in {a, b} : x <= y) => x = m
  OBVIOUS
<1> HIDE DEF m
<1>3. Min({a, b}) = m
  BY <1>1, <1>2 DEF Min
<1> QED
  BY <1>3 DEF m

\* The start of a text is all of it exactly when it is not cut.
LEMMA CutShows ==
  ASSUME NEW S, NEW text \in Seq(S), NEW n \in Nat \ {0}, NEW v,
         v.text = SubSeq(text, 1, Min({n, Len(text)})), v.truncated = (Len(text) > n)
  PROVE  Shows(v, text)
<1> DEFINE k == Min({n, Len(text)})
<1>1. Len(text) \in Nat /\ k = IF n <= Len(text) THEN n ELSE Len(text)
  BY LeastOfTwo
<1>2. k \in 0 .. Len(text) /\ (Len(text) > n <=> k # Len(text))
  BY <1>1
<1> HIDE DEF k
<1>3. SubSeq(text, 1, k) \in Seq(S) /\ Len(SubSeq(text, 1, k)) = k /\ \A i \in 1 .. k : SubSeq(text, 1, k)[i] = text[i]
  BY <1>1, <1>2
<1>4. SubSeq(SubSeq(text, 1, k), 1, k) = SubSeq(text, 1, k)
  BY <1>2, <1>3
<1>5. k = Len(text) => SubSeq(text, 1, k) = text
  BY <1>1
<1>6. k # Len(text) => SubSeq(text, 1, k) # text
  BY <1>3
<1>7. v.text = SubSeq(text, 1, k)
  BY DEF k
<1>8. IsPrefix(v.text, text)
  <2> DEFINE w == SubSeq(text, 1, k)
  <2>1. Len(w) = k /\ SubSeq(w, 1, k) = w /\ w = SubSeq(text, 1, k) /\ k <= Len(text)
    BY <1>1, <1>2, <1>3, <1>4
  <2> HIDE DEF w
  <2>2. IsPrefix(w, text)
    BY <2>1 DEF IsPrefix
  <2> QED
    BY <1>7, <2>2 DEF w
<1> QED
  BY <1>2, <1>5, <1>6, <1>7, <1>8 DEF Shows

LEMMA BoundedGives ==
  ASSUME NEW n \in Int, NEW cap \in Nat, IsOk(boundedPositiveInteger(n, cap))
  PROVE  boundedPositiveInteger(n, cap) = Ok(n) /\ n \in Nat \ {0}
<1>1. \A c : Err(c).code = c
  BY DEF Err
<1>2. ~(n < 1 \/ n > cap)
  BY <1>1 DEF boundedPositiveInteger, Unless, IsOk
<1> QED
  BY <1>2 DEF boundedPositiveInteger, Unless

\* The page of a sorted list is the page of what was sorted.
LEMMA PageIsExact ==
  ASSUME NEW wanted, IsFiniteSet(wanted), \A t \in wanted : Rank(t) \in Int, NEW sorted \in Sorted(wanted),
         NEW n \in Nat \ {0}
  PROVE  PageOf(Bounded(sorted, n), wanted, n)
<1> DEFINE N == Cardinality(wanted)
           v == Bounded(sorted, n)
           k == Min({n, N})
<1>1. N \in Nat
  BY FS_CardinalityType
<1>2. /\ sorted \in [1 .. N -> wanted] /\ (\A i, j \in 1 .. N : sorted[i] = sorted[j] => i = j)
      /\ (\A t \in wanted : \E i \in 1 .. N : sorted[i] = t)
      /\ \A i, j \in 1 .. N : i < j => Rank(sorted[i]) <= Rank(sorted[j])
  BY DEF Sorted, Bijection, Injection, Surjection, IsInjective
<1> HIDE DEF N
<1>3. sorted \in Seq(wanted) /\ Len(sorted) = N
  BY <1>1, <1>2
<1>4. k \in 0 .. N /\ k \in 1 .. N \cup {0} /\ (k = IF n <= N THEN n ELSE N)
  BY <1>1, LeastOfTwo
<1>5. v.entries = SubSeq(sorted, 1, k) /\ v.truncated = (N > n)
  BY <1>3 DEF Bounded
<1> HIDE DEF k, v
<1>6. /\ SubSeq(sorted, 1, k) \in Seq(wanted) /\ Len(SubSeq(sorted, 1, k)) = k
      /\ \A i \in 1 .. k : SubSeq(sorted, 1, k)[i] = sorted[i]
  BY <1>1, <1>3, <1>4
<1> DEFINE e == SubSeq(sorted, 1, k)
<1>7. DOMAIN e = 1 .. k /\ \A i \in 1 .. k : i \in 1 .. N
  BY <1>1, <1>4, <1>6
<1>8. e \in Seq(wanted) /\ Len(e) = k /\ \A i \in 1 .. k : e[i] = sorted[i]
  BY <1>6
<1> HIDE DEF e
<1>9. IsInjective(e)
  BY <1>2, <1>7, <1>8 DEF IsInjective
<1>10. ToSet(e) \subseteq wanted
  BY <1>2, <1>7, <1>8 DEF ToSet
<1>11. ASSUME NEW i \in 1 .. k, NEW t \in wanted, Rank(t) < Rank(e[i])
       PROVE  \E j \in 1 .. (i - 1) : e[j] = t
  <2>1. PICK j \in 1 .. N : sorted[j] = t
    BY <1>2
  <2>2. i \in 1 .. N /\ e[i] = sorted[i] /\ Rank(sorted[i]) \in Int /\ Rank(sorted[j]) \in Int
    BY <1>2, <1>7, <1>8
  <2>3. Rank(sorted[j]) < Rank(sorted[i])
    BY <1>11, <2>1, <2>2
  <2>4. i # j
    <3> SUFFICES ASSUME i = j PROVE FALSE
      OBVIOUS
    <3> QED
      BY <2>2, <2>3
  <2>5. ~(i < j)
    <3> SUFFICES ASSUME i < j PROVE FALSE
      OBVIOUS
    <3>1. Rank(sorted[i]) <= Rank(sorted[j])
      BY <1>2, <2>2
    <3> QED
      BY <2>2, <2>3, <3>1
  <2>6. j \in 1 .. (i - 1) /\ j \in 1 .. k
    BY <1>1, <1>4, <2>2, <2>4, <2>5
  <2> QED
    BY <1>8, <2>1, <2>6
<1>12. v.entries = e
  BY <1>5 DEF e
<1>13. Len(v.entries) = Min({n, Cardinality(wanted)}) /\ v.truncated = (Cardinality(wanted) > n)
  BY <1>5, <1>8, <1>12 DEF k, N
<1>14. PageOf(v, wanted, n)
  BY <1>7, <1>9, <1>10, <1>11, <1>12, <1>13, Zenon DEF PageOf
<1> QED
  BY <1>14 DEF v

LEMMA TextsAreKept ==
  ASSUME NEW f, NEW key, \A k \in DOMAIN f : f[k] \in Seq(STRING)
  PROVE  KeptText(f, key) \in Seq(Symbols)
<1> DEFINE S == STRING
<1>1. \A k \in DOMAIN f : f[k] \in Seq(S)
  OBVIOUS
<1> HIDE DEF S
<1>2. <<>> \in Seq(S)
  OBVIOUS
<1>3. KeptText(f, key) \in Seq(S)
  BY <1>1, <1>2, Zenon DEF KeptText
<1> QED
  BY <1>3, StringsAreSymbols, Zenon DEF S

\* A query that answers with a value does so from the store it leaves.
LEMMA QueryAnswers ==
  ASSUME NEW tool, NEW args, NEW r, Answers(tool, args, r), files' = files,
         IsOk(r) => QueryFacts(Answered(tool, args, r), files)
  PROVE  QueriesExact'
<1>1. answer' = Answered(tool, args, r)
  BY DEF Answers, Answered
<1>2. QueryFacts(Answered(tool, args, r), files)
  <2>1. Answered(tool, args, r).code = r.code
    BY DEF Answered
  <2> QED
    BY <2>1 DEF QueryFacts, IsOk
<1> QED
  BY <1>1, <1>2, QueriesAfter

\* What a reading answers.
Reading(text, n, p) ==
  [text |-> SubSeq(text, 1, Min({n, Len(text)})), truncated |-> Len(text) > n, projectPath |-> p]

LEMMA ReadingShows ==
  ASSUME NEW text \in Seq(Symbols), NEW n \in Nat \ {0}, NEW p
  PROVE  Shows(Reading(text, n, p), text) /\ Reading(text, n, p).projectPath = p
<1> DEFINE v == Reading(text, n, p)
<1>1. v.text = SubSeq(text, 1, Min({n, Len(text)})) /\ v.truncated = (Len(text) > n) /\ v.projectPath = p
  BY DEF Reading
<1> HIDE DEF v
<1>2. Shows(v, text)
  BY <1>1, CutShows
<1> QED
  BY <1>1, <1>2 DEF v

LEMMA UnityReads ==
  ASSUME NEW id, NEW p, NEW n \in Limits, ReadText(id, p, n)
  PROVE  QueriesExact'
<1> DEFINE b == boundedPositiveInteger(n, MaxValueUnits)
           u == validateUnityAssetPath(id, p, Undefined, DefaultNameLength)
           text(w) == KeptText(UnityFiles, <<id, w.unityPath>>)
           r == IF IsOk(b) THEN IF IsOk(u) THEN Ok(Reading(text(u.value), b.value, u.value.unityPath)) ELSE u ELSE b
           a == Answered("readText", <<id, p>>, r)
<1>1. files' = files /\ Answers("readText", <<id, p>>, r)
  BY Zenon DEF ReadText, Then, Reading, KeptText
<1>2. n \in Int /\ MaxValueUnits \in Nat
  BY GatewayAssumption DEF GatewayAssumption
<1>3. text(u.value) \in Seq(Symbols)
  BY GatewayAssumption, TextsAreKept DEF GatewayAssumption
<1>4. a.tool = "readText" /\ a.args[1] = id /\ a.value = r.value
  BY DEF Answered
<1>5. ASSUME IsOk(r) PROVE QueryFacts(a, files)
  <2>1. IsOk(b) /\ r = Ok(Reading(text(u.value), b.value, u.value.unityPath))
    <3> HIDE DEF b, u
    <3> QED
      BY <1>5
  <2>2. b = Ok(n) /\ n \in Nat \ {0}
    BY <1>2, <2>1, BoundedGives
  <2>3. r.value = Reading(text(u.value), n, u.value.unityPath)
    <3> HIDE DEF r, b, u, text
    <3>1. r.value = Reading(text(u.value), b.value, u.value.unityPath)
      BY <2>1, OkCarries
    <3>2. b.value = n
      BY <2>2, OkCarries
    <3> QED
      BY <3>1, <3>2
  <2> HIDE DEF r, b, u, a
  <2>4. /\ Shows(r.value, text(u.value))
        /\ r.value.projectPath = u.value.unityPath
    BY <1>3, <2>2, <2>3, ReadingShows
  <2>5. Shows(a.value, KeptText(UnityFiles, <<a.args[1], a.value.projectPath>>))
    BY <1>4, <2>4, Zenon
  <2> QED
    BY <1>4, <2>5 DEF QueryFacts
<1> HIDE DEF r, a
<1>6. IsOk(r) => QueryFacts(Answered("readText", <<id, p>>, r), files)
  BY <1>5 DEF a
<1> QED
  BY <1>1, <1>6, QueryAnswers

LEMMA ScopedReads ==
  ASSUME KeptOk, NEW id, NEW scope, NEW p, NEW n \in Limits, ReadScopedText(id, scope, p, n)
  PROVE  QueriesExact'
<1> DEFINE key == scopedFileKey(id, scope, p)
           b == boundedPositiveInteger(n, MaxValueUnits)
           u == resolveWorkflowPath(id, scope, p)
           text == KeptText(files, key)
           r == IF IsOk(b) THEN IF IsOk(u) THEN Ok(Reading(text, b.value, u.value)) ELSE u ELSE b
           a == Answered("read", key, r)
<1>1. files' = files /\ Answers("read", key, r)
  BY Zenon DEF ReadScopedText, Then, Reading, KeptText
<1>2. n \in Int /\ MaxValueUnits \in Nat
  BY GatewayAssumption DEF GatewayAssumption
<1>3. text \in Seq(Symbols)
  <2>1. \A k \in DOMAIN files : files[k] \in Seq(STRING)
    BY DEF KeptOk, StoreOk
  <2> QED
    BY <2>1, TextsAreKept
<1>4. a.tool = "read" /\ a.args = key /\ a.value = r.value
  BY DEF Answered
<1>5. ASSUME IsOk(r) PROVE QueryFacts(a, files)
  <2>1. IsOk(b) /\ r = Ok(Reading(text, b.value, u.value))
    <3> HIDE DEF b, u, text
    <3> QED
      BY <1>5
  <2>2. b = Ok(n) /\ n \in Nat \ {0}
    BY <1>2, <2>1, BoundedGives
  <2>3. r.value = Reading(text, n, u.value)
    <3> HIDE DEF r, b, u, text
    <3>1. r.value = Reading(text, b.value, u.value)
      BY <2>1, OkCarries
    <3>2. b.value = n
      BY <2>2, OkCarries
    <3> QED
      BY <3>1, <3>2
  <2> HIDE DEF r, b, u, a, key, text
  <2>4. Shows(r.value, text)
    BY <1>3, <2>2, <2>3, ReadingShows
  <2>5. Shows(a.value, KeptText(files, a.args))
    BY <1>4, <2>4, Zenon DEF text
  <2> QED
    BY <1>4, <2>5 DEF QueryFacts
<1> HIDE DEF r, a, key
<1>6. IsOk(r) => QueryFacts(Answered("read", key, r), files)
  BY <1>5 DEF a
<1> QED
  BY <1>1, <1>6, QueryAnswers

LEMMA KeyParts ==
  ASSUME NEW key, NEW ids, KeyOk(key, ids)
  PROVE  key = <<key[1], key[2], key[3]>> /\ key[3] \in ScopedPaths
<1>1. key \in ids \X WorkflowScopes \X ScopedPaths
  BY DEF KeyOk
<1> QED
  BY <1>1

\* The paths of a project and scope, and that there are finitely many.
LEMMA PathsAreStored ==
  ASSUME KeptOk, NEW id, NEW scope
  PROVE  /\ PathsOf(id, scope) = StoredIn(files, id, scope)
         /\ IsFiniteSet(StoredIn(files, id, scope))
<1>1. IsFiniteSet(DOMAIN files) /\ \A key \in DOMAIN files : KeyOk(key, DOMAIN projects)
  <2>1. StoreOk(files, units, DOMAIN projects)
    BY DEF KeptOk
  <2> QED
    BY <2>1, Zenon DEF StoreOk
<1> DEFINE keys == {k \in DOMAIN files : k[1] = id /\ k[2] = scope}
<1>2. PathsOf(id, scope) = StoredIn(files, id, scope)
  <2>1. ASSUME NEW t \in PathsOf(id, scope) PROVE t \in StoredIn(files, id, scope)
    <3>1. PICK key \in DOMAIN files : key[1] = id /\ key[2] = scope /\ key[3] = t
      BY DEF PathsOf
    <3>2. key = <<id, scope, t>> /\ t \in ScopedPaths
      <4>1. KeyOk(key, DOMAIN projects)
        BY <1>1, <3>1
      <4>2. key = <<key[1], key[2], key[3]>> /\ key[3] \in ScopedPaths
        BY <4>1, KeyParts
      <4> QED
        BY <3>1, <4>2, Zenon
    <3> QED
      BY <3>1, <3>2 DEF StoredIn
  <2>2. ASSUME NEW t \in StoredIn(files, id, scope) PROVE t \in PathsOf(id, scope)
    <3> DEFINE key == <<id, scope, t>>
    <3>1. key \in DOMAIN files /\ key[1] = id /\ key[2] = scope /\ key[3] = t
      BY DEF StoredIn
    <3> HIDE DEF key
    <3> QED
      BY <3>1 DEF PathsOf
  <2> QED
    BY <2>1, <2>2
<1>3. IsFiniteSet(keys)
  BY <1>1, FS_Subset
<1> DEFINE third == [k \in keys |-> k[3]]
<1>4. PathsOf(id, scope) = {third[k] : k \in keys}
  BY DEF PathsOf
<1>5. third \in Surjection(keys, PathsOf(id, scope))
  BY <1>4 DEF Surjection
<1> QED
  BY <1>2, <1>3, <1>5, FS_Surjection

\* A page of the paths that are listed or that a glob takes.
Listing(id, scope, prefix, limit, sorted, sorting) ==
  Then(boundedPositiveInteger(limit, MaxEntries), LAMBDA n : listScoped(id, scope, prefix, n, sorted, sorting))

\* What a budget lets through.
LEMMA EntriesGiven ==
  ASSUME NEW id, NEW scope, NEW entries, NEW Cost(_), NEW sorting,
         IsOk(scopedEntries(id, scope, entries, Cost, sorting))
  PROVE  scopedEntries(id, scope, entries, Cost, sorting).value = entries
<1> DEFINE over == \/ Cardinality(DOMAIN files) > MaxStoredEntries
                   \/ ScanWork(id, scope, Cost) + sorting > MaxQueryWork
           r == scopedEntries(id, scope, entries, Cost, sorting)
<1>1. r = Unless(over, "ERR_INVALID_PATH", Ok(entries))
  BY Zenon DEF scopedEntries
<1>2. \A c : Err(c).code = c
  BY DEF Err
<1>3. IsOk(r)
  OBVIOUS
<1> HIDE DEF r, over
<1>4. r = Ok(entries)
  BY <1>1, <1>2, <1>3 DEF Unless, IsOk
<1>5. r.value = entries
  BY <1>4, Outcomes, Zenon
<1> QED
  BY <1>5 DEF r

LEMMA ListingGives ==
  ASSUME NEW id, NEW scope, NEW prefix, NEW limit \in Int, NEW sorted, NEW sorting,
         IsOk(Listing(id, scope, prefix, limit, sorted, sorting))
  PROVE  /\ Listing(id, scope, prefix, limit, sorted, sorting).value = Bounded(sorted, limit)
         /\ limit \in Nat \ {0}
<1> DEFINE b == boundedPositiveInteger(limit, MaxEntries)
           q == IF prefix = Undefined THEN requireProject(id) ELSE resolveWorkflowPath(id, scope, prefix)
           e == scopedEntries(id, scope, sorted, LAMBDA p : IF prefix = Undefined THEN 0 ELSE Len(p) + Len(prefix), sorting)
           r == Listing(id, scope, prefix, limit, sorted, sorting)
<1>1. r = IF IsOk(b) THEN IF IsOk(q) THEN IF IsOk(e) THEN Ok(Bounded(e.value, b.value)) ELSE e ELSE q ELSE b
  BY Zenon DEF Listing, listScoped, Then
<1>2. IsOk(e) => e.value = sorted
  BY EntriesGiven
<1>3. IsOk(r)
  OBVIOUS
<1>4. IsOk(b) => b = Ok(limit) /\ limit \in Nat \ {0}
  BY GatewayAssumption, BoundedGives DEF GatewayAssumption
<1> HIDE DEF b, q, e, r
<1>5. IsOk(b) /\ r = Ok(Bounded(e.value, b.value)) /\ IsOk(e)
  BY <1>1, <1>3
<1>6. r.value = Bounded(sorted, limit)
  BY <1>2, <1>4, <1>5, Outcomes, Zenon
<1> QED
  BY <1>4, <1>5, <1>6 DEF r

LEMMA GlobbingGives ==
  ASSUME NEW id, NEW scope, NEW glob, NEW limit \in Int, NEW sorted, NEW sorting,
         IsOk(globScoped(id, scope, glob, limit, sorted, sorting))
  PROVE  /\ globScoped(id, scope, glob, limit, sorted, sorting).value = Bounded(sorted, limit)
         /\ limit \in Nat \ {0}
<1> DEFINE b == boundedPositiveInteger(limit, MaxEntries)
           q == requireProject(id)
           c == normalizeScopedGlobPattern(scope, glob)
           e == scopedEntries(id, scope, sorted, LAMBDA p : (Len(GlobTokens(glob)) + 1) * (Len(p) + 1), sorting)
           r == globScoped(id, scope, glob, limit, sorted, sorting)
<1>1. r = IF IsOk(q) THEN IF IsOk(c) THEN IF IsOk(b) THEN IF IsOk(e) THEN Ok(Bounded(e.value, b.value))
                                                        ELSE e ELSE b ELSE c ELSE q
  BY Zenon DEF globScoped, Then
<1>2. IsOk(e) => e.value = sorted
  BY EntriesGiven
<1>3. IsOk(r)
  OBVIOUS
<1>4. IsOk(b) => b = Ok(limit) /\ limit \in Nat \ {0}
  BY GatewayAssumption, BoundedGives DEF GatewayAssumption
<1> HIDE DEF b, q, c, e, r
<1>5. IsOk(b) /\ r = Ok(Bounded(e.value, b.value)) /\ IsOk(e)
  BY <1>1, <1>3
<1>6. r.value = Bounded(sorted, limit)
  BY <1>2, <1>4, <1>5, Outcomes, Zenon
<1> QED
  BY <1>4, <1>5, <1>6 DEF r

\* What is listed is what is stored under the prefix.
LEMMA ListedMeans ==
  ASSUME KeptOk, NEW id, NEW scope, NEW prefix \in ScopedPaths \cup {Undefined}
  PROVE  Listed(id, scope, prefix) = {t \in StoredIn(files, id, scope) : Within(prefix, t)}
<1>1. PathsOf(id, scope) = StoredIn(files, id, scope)
  BY PathsAreStored
<1>2. \A t \in ScopedPaths : t \in Seq(Symbols)
  BY GatewayAssumption, StringsAreSymbols DEF GatewayAssumption
<1>3. ASSUME NEW t \in ScopedPaths
      PROVE  (prefix = Undefined \/ isUnderPrefix(t, prefix)) <=> Within(prefix, t)
  <2>1. CASE prefix = Undefined
    BY <2>1 DEF Within
  <2>2. CASE prefix # Undefined
    <3> DEFINE slash == "/"
    <3>1. t \in Seq(Symbols) /\ prefix \in Seq(Symbols)
      BY <1>2, <2>2
    <3>2. slash \in Symbols
      BY DEF Symbols, Written
    <3>3. (t = prefix \/ StartsWith(t, Append(prefix, slash))) <=> IsPrefix(Split(prefix), Split(t))
      BY <3>1, <3>2, UnderMeans, Zenon
    <3>4. isUnderPrefix(t, prefix) <=> (t = prefix \/ StartsWith(t, Append(prefix, slash)))
      BY Zenon DEF isUnderPrefix
    <3> HIDE DEF slash
    <3> QED
      BY <2>2, <3>3, <3>4, Zenon DEF Within
  <2> QED
    BY <2>1, <2>2
<1>4. \A t \in StoredIn(files, id, scope) : t \in ScopedPaths
  BY DEF StoredIn
<1>5. Listed(id, scope, prefix) = {t \in StoredIn(files, id, scope) : prefix = Undefined \/ isUnderPrefix(t, prefix)}
  BY <1>1, Zenon DEF Listed
<1> QED
  BY <1>3, <1>4, <1>5, Zenon

\* What a glob takes is what is stored of its language.
LEMMA GlobbedMeans ==
  ASSUME KeptOk, NEW id, NEW scope, NEW glob \in Globs
  PROVE  Globbed(id, scope, glob) = StoredIn(files, id, scope) \cap Language[glob]
<1>1. PathsOf(id, scope) = StoredIn(files, id, scope)
  BY PathsAreStored
<1> DEFINE pair == "**"
           S == STRING \cup {pair}
<1>2. \A T : (T \cup {pair}) \ {pair} = T \ {pair}
  OBVIOUS
<1>3. glob \in Seq(S \ {pair})
  <2>1. glob \in Seq(STRING \ {pair})
    BY GatewayAssumption DEF GatewayAssumption
  <2>2. S \ {pair} = STRING \ {pair}
    BY <1>2, Zenon
  <2> QED
    BY <2>1, <2>2, Zenon
<1>4. \A t \in ScopedPaths : Len(t) \in Nat
  <2>1. \A t \in ScopedPaths : t \in Seq(Symbols)
    BY GatewayAssumption, StringsAreSymbols DEF GatewayAssumption
  <2> QED
    BY <2>1
<1>5. \A t \in ScopedPaths : compileScopedGlob(glob, t) <=> Matches(glob, t)
  <2>1. pair \in S
    OBVIOUS
  <2> HIDE DEF S
  <2> QED
    BY <2>1, <1>3, <1>4, GlobAcceptsItsLanguage
<1>6. Language[glob] = {t \in ScopedPaths : Matches(glob, t)}
  BY DEF Language
<1>7. \A t \in StoredIn(files, id, scope) : t \in ScopedPaths
  BY DEF StoredIn
<1>8. Globbed(id, scope, glob) = {t \in StoredIn(files, id, scope) : compileScopedGlob(glob, t)}
  BY <1>1, Zenon DEF Globbed
<1>9. \A t \in StoredIn(files, id, scope) : compileScopedGlob(glob, t) <=> t \in Language[glob]
  BY <1>5, <1>6, <1>7
<1> QED
  BY <1>8, <1>9

\* A page of what is stored.
LEMMA StoredPage ==
  ASSUME KeptOk, NEW id, NEW scope, NEW wanted \in SUBSET StoredIn(files, id, scope), NEW sorted \in Sorted(wanted),
         NEW n \in Nat \ {0}
  PROVE  PageOf(Bounded(sorted, n), wanted, n)
<1>1. IsFiniteSet(wanted)
  BY PathsAreStored, FS_Subset
<1>2. \A t \in wanted : Rank(t) \in Int
  BY GatewayAssumption DEF GatewayAssumption, StoredIn
<1> QED
  BY <1>1, <1>2, PageIsExact

LEMMA ListAnswers ==
  ASSUME KeptOk, NEW id, NEW scope, NEW prefix \in ScopedPaths \cup {Undefined}, NEW n \in Limits,
         ListScoped(id, scope, prefix, n)
  PROVE  QueriesExact'
<1> DEFINE wanted == {t \in StoredIn(files, id, scope) : Within(prefix, t)}
           args == <<id, scope, prefix, n>>
<1>1. Listed(id, scope, prefix) = wanted /\ wanted \in SUBSET StoredIn(files, id, scope)
  BY ListedMeans
<1>2. files' = files
  BY DEF ListScoped
<1>3. PICK sorted \in Sorted(Listed(id, scope, prefix)), sorting \in SortWork(Listed(id, scope, prefix)) :
        Answers("list", args, Listing(id, scope, prefix, n, sorted, sorting))
  BY Zenon DEF ListScoped, Listing
<1>4. sorted \in Sorted(wanted)
  BY <1>1, <1>3
<1> DEFINE r == Listing(id, scope, prefix, n, sorted, sorting)
           a == Answered("list", args, r)
<1>5. /\ a.tool = "list" /\ a.args = args /\ a.value = r.value
      /\ args[1] = id /\ args[2] = scope /\ args[3] = prefix /\ args[4] = n
  BY DEF Answered
<1>6. ASSUME IsOk(r) PROVE QueryFacts(a, files)
  <2>1. n \in Int
    BY GatewayAssumption DEF GatewayAssumption
  <2>2. r.value = Bounded(sorted, n) /\ n \in Nat \ {0}
    BY <1>6, <2>1, ListingGives
  <2> HIDE DEF r, wanted
  <2>3. PageOf(r.value, wanted, n)
    BY <1>1, <1>4, <2>2, StoredPage
  <2>4. PageOf(a.value, {t \in StoredIn(files, args[1], args[2]) : Within(args[3], t)}, args[4])
    BY <1>5, <2>3, Zenon DEF wanted
  <2> HIDE DEF a, args
  <2> QED
    BY <1>5, <2>4, Zenon DEF QueryFacts
<1>7. IsOk(r) => QueryFacts(Answered("list", args, r), files)
  BY <1>6
<1> HIDE DEF r, args
<1> QED
  BY <1>2, <1>3, <1>7, QueryAnswers DEF r

LEMMA GlobAnswers ==
  ASSUME KeptOk, NEW id, NEW scope, NEW glob \in Globs, NEW n \in Limits, GlobScoped(id, scope, glob, n)
  PROVE  QueriesExact'
<1> DEFINE wanted == StoredIn(files, id, scope) \cap Language[glob]
           args == <<id, scope, glob, n>>
<1>1. Globbed(id, scope, glob) = wanted /\ wanted \in SUBSET StoredIn(files, id, scope)
  BY GlobbedMeans
<1>2. files' = files
  BY DEF GlobScoped
<1>3. PICK sorted \in Sorted(Globbed(id, scope, glob)), sorting \in SortWork(Globbed(id, scope, glob)) :
        Answers("glob", args, globScoped(id, scope, glob, n, sorted, sorting))
  BY Zenon DEF GlobScoped
<1>4. sorted \in Sorted(wanted)
  BY <1>1, <1>3
<1> DEFINE r == globScoped(id, scope, glob, n, sorted, sorting)
           a == Answered("glob", args, r)
<1>5. /\ a.tool = "glob" /\ a.args = args /\ a.value = r.value
      /\ args[1] = id /\ args[2] = scope /\ args[3] = glob /\ args[4] = n
  BY DEF Answered
<1>6. ASSUME IsOk(r) PROVE QueryFacts(a, files)
  <2>1. n \in Int
    BY GatewayAssumption DEF GatewayAssumption
  <2>2. r.value = Bounded(sorted, n) /\ n \in Nat \ {0}
    BY <1>6, <2>1, GlobbingGives
  <2> HIDE DEF r, wanted
  <2>3. PageOf(r.value, wanted, n)
    BY <1>1, <1>4, <2>2, StoredPage
  <2>4. PageOf(a.value, StoredIn(files, args[1], args[2]) \cap Language[args[3]], args[4])
    BY <1>5, <2>3, Zenon DEF wanted
  <2> HIDE DEF a, args
  <2> QED
    BY <1>5, <2>4, Zenon DEF QueryFacts
<1>7. IsOk(r) => QueryFacts(Answered("glob", args, r), files)
  BY <1>6
<1> HIDE DEF r, args
<1> QED
  BY <1>2, <1>3, <1>7, QueryAnswers DEF r

\* The calls that are no queries.
LEMMA NoQueryCalls ==
  /\ \A reg : RegisterProject(reg) => QueriesExact'
  /\ \A id, alias : RegisterPathAlias(id, alias) => QueriesExact'
  /\ \A id, selector : ResolveHostRoot(id, selector) => QueriesExact'
  /\ \A seeds : Construct(seeds) => QueriesExact'
  /\ ServiceCall => QueriesExact'
  /\ NameCall => QueriesExact'
  /\ \A via, id, p, name, n : ValidatePath(via, id, p, name, n) => QueriesExact'
  /\ \A via, command, id, p, name : WriteCommand(via, command, id, p, name) => QueriesExact'
  /\ \A via, id, scope, p, text, n : WriteScopedText(via, id, scope, p, text, n) => QueriesExact'
  /\ Deliver => QueriesExact'
<1> DEFINE others == {"registerProject", "registerPathAlias", "hostRoot", "construct", "normalizeUnityAssetPath",
                      "normalizeScopedPath", "toScopedCanonicalPath", "makeSafeFileName", "validatePath",
                      "writeCommand", "write", "none"}
           Other == answer'.tool \in others
<1>0. \A tool, args, r : Answers(tool, args, r) => answer'.tool = tool
  BY DEF Answers
<1>1. others \cap QueryTools = {}
  BY DEF QueryTools
<1>2. /\ \A reg : RegisterProject(reg) => Other
      /\ \A id, alias : RegisterPathAlias(id, alias) => Other
      /\ \A id, selector : ResolveHostRoot(id, selector) => Other
      /\ \A seeds : Construct(seeds) => Other
  <2>1. ASSUME NEW reg, RegisterProject(reg) PROVE Other
    BY <2>1, <1>0, Zenon DEF RegisterProject
  <2>2. ASSUME NEW id, NEW alias, RegisterPathAlias(id, alias) PROVE Other
    BY <2>2, <1>0, Zenon DEF RegisterPathAlias
  <2>3. ASSUME NEW id, NEW selector, ResolveHostRoot(id, selector) PROVE Other
    BY <2>3, <1>0, Zenon DEF ResolveHostRoot
  <2>4. ASSUME NEW seeds, Construct(seeds) PROVE Other
    BY <2>4, <1>0, Zenon DEF Construct
  <2> QED
    BY <2>1, <2>2, <2>3, <2>4
<1>3. (ServiceCall => Other) /\ (NameCall => Other) /\ (Deliver => Other)
  BY DEF ServiceCall, NameCall, Deliver, NoAnswer, Answers
<1>4. /\ \A via, id, p, name, n : ValidatePath(via, id, p, name, n) => Other
      /\ \A via, command, id, p, name : WriteCommand(via, command, id, p, name) => Other
      /\ \A via, id, scope, p, text, n : WriteScopedText(via, id, scope, p, text, n) => Other
  <2>1. ASSUME NEW via, NEW id, NEW p, NEW name, NEW n, ValidatePath(via, id, p, name, n) PROVE Other
    BY <2>1, <1>0, Zenon DEF ValidatePath
  <2>2. ASSUME NEW via, NEW command, NEW id, NEW p, NEW name, WriteCommand(via, command, id, p, name) PROVE Other
    BY <2>2, <1>0, Zenon DEF WriteCommand
  <2>3. ASSUME NEW via, NEW id, NEW scope, NEW p, NEW text, NEW n, WriteScopedText(via, id, scope, p, text, n)
        PROVE  Other
    BY <2>3, <1>0, Zenon DEF WriteScopedText
  <2> QED
    BY <2>1, <2>2, <2>3
<1>5. Other => QueriesExact'
  <2> HIDE DEF others
  <2> QED
    BY <1>1, NoQuery, QueriesAfter
<1> HIDE DEF Other
<1> QED
  BY <1>2, <1>3, <1>4, <1>5, Zenon

LEMMA NextQueries ==
  ASSUME KeptOk, QueriesExact, [GatewayNext]_gatewayVars
  PROVE  QueriesExact'
<1>1. CASE UNCHANGED gatewayVars
  BY <1>1 DEF gatewayVars, QueriesExact, Stored
<1>2. CASE Deliver
  BY <1>2, NoQueryCalls, Zenon
<1>3. CASE \E seeds \in Seeds : Construct(seeds)
  BY <1>3, NoQueryCalls, Zenon
<1>4. CASE ServiceCall
  BY <1>4, NoQueryCalls, Zenon
<1>5. CASE NameCall
  BY <1>5, NoQueryCalls, Zenon
<1>6. CASE BrokerCall
  BY <1>6, NoQueryCalls, Zenon DEF BrokerCall
<1>7. CASE ToolCall
  <2>1. \A id, p : \A n \in Limits : ReadText(id, p, n) => QueriesExact'
    BY UnityReads
  <2>2. \A id, scope, p : \A n \in Limits : ReadScopedText(id, scope, p, n) => QueriesExact'
    BY ScopedReads
  <2>3. \A id, scope : \A prefix \in ScopedPaths \cup {Undefined}, n \in Limits :
          ListScoped(id, scope, prefix, n) => QueriesExact'
    BY ListAnswers
  <2>4. \A id, scope : \A glob \in Globs, n \in Limits : GlobScoped(id, scope, glob, n) => QueriesExact'
    BY GlobAnswers
  <2> QED
    BY <1>7, <2>1, <2>2, <2>3, <2>4, NoQueryCalls, Zenon DEF ToolCall
<1> QED
  BY <1>1, <1>2, <1>3, <1>4, <1>5, <1>6, <1>7 DEF GatewayNext

\* Whatever was stored before, a reading shows the start of the text that is
\* kept and says truthfully whether it was cut, and a page of a listing or of a
\* glob holds the first of exactly the paths that are stored under the prefix
\* or in the language of the glob, each once and in order.
THEOREM QueriesAreExact == GatewaySpec => []QueriesExact
<1>1. GatewayInit => QueriesExact
  <2>1. GatewayInit => answer.tool = "none"
    BY DEF GatewayInit, NoAnswer
  <2>2. "none" \notin QueryTools
    BY DEF QueryTools
  <2> QED
    BY <2>1, <2>2, NoQuery, QueriesBefore
<1>2. KeptOk /\ QueriesExact /\ [GatewayNext]_gatewayVars => QueriesExact'
  BY NextQueries
<1> QED
  BY <1>1, <1>2, GatewayKeeps, PTL DEF GatewaySpec
=====================================================================
