-------------------------- MODULE ZipExtractProofs --------------------------
(***************************************************************************)
(* Proofs about ZipExtract, for any number of extractions at a time, any   *)
(* archives and any limits.                                                *)
(*                                                                         *)
(* Own(x) says what one extraction can rely on.  A step of y keeps Own(y), *)
(* shown action by action; and Own(x) for x # y because the step Touches   *)
(* only empty places and y's unfinished file and leaves x Alone.           *)
(*                                                                         *)
(* The budgets are sums over sets, which the model takes with              *)
(* MapThenSumSet.  That is a recursive function chosen for the set; the    *)
(* first part shows that there is one, that it is unique, and that a sum   *)
(* splits at any member: each time a smallest subset for which it fails    *)
(* is refuted.                                                             *)
(***************************************************************************)
EXTENDS ZipExtract, Integers, FiniteSetTheorems, TLAPS

-----------------------------------------------------------------------------
(* Sums over finite sets.                                                    *)

\* The member that the sum takes first, the sum, and what defines its function.
Pick(s) == CHOOSE x \in s : TRUE
SumOf(g, S) == MapThenSumSet(LAMBDA p : g[p], S)
Adds(h, g, S) == h = [s \in SUBSET S |-> IF s = {} THEN 0 ELSE g[Pick(s)] + h[s \ {Pick(s)}]]

LEMMA PickIsMember == \A s : s # {} => Pick(s) \in s
  BY Zenon DEF Pick

LEMMA SumIsChosen ==
  ASSUME NEW g, NEW S
  PROVE SumOf(g, S) = (CHOOSE h : Adds(h, g, S))[S]
BY Zenon DEF SumOf, MapThenSumSet, MapThenFoldSet, Adds, Pick

\* A set of bad subsets has a smallest one: how induction is done below.
LEMMA Smallest ==
  ASSUME NEW S, IsFiniteSet(S), NEW Bad, Bad \subseteq SUBSET S, Bad # {}
  PROVE  \E T \in Bad : \A U \in Bad : ~(U \subseteq T /\ U # T)
<1>1. IsWellFoundedOn(StrictSubsetOrdering(S), SUBSET S)
  BY FS_StrictSubsetOrderingWellFounded, FS_FiniteSubsetsOfFinite, Zenon
<1>2. PICK T \in Bad : \A U \in Bad : <<U, T>> \notin StrictSubsetOrdering(S)
  BY <1>1, WFMin, Zenon
<1>3. \A U \in Bad : <<U, T>> \in (SUBSET S) \X (SUBSET S)
  OBVIOUS
<1> QED
  BY <1>2, <1>3 DEF StrictSubsetOrdering

\* The recursive function of a sum: its equation, its restriction to a subset,
\* that there is only one and that there is one.
LEMMA AddsAt ==
  ASSUME NEW h, NEW g, NEW S, Adds(h, g, S), NEW s \in SUBSET S
  PROVE  h[s] = IF s = {} THEN 0 ELSE g[Pick(s)] + h[s \ {Pick(s)}]
<1> DEFINE H(x) == IF x = {} THEN 0 ELSE g[Pick(x)] + h[x \ {Pick(x)}]
<1>1. h = [x \in SUBSET S |-> H(x)]
  BY DEF Adds
<1> HIDE DEF H
<1>2. h[s] = H(s)
  BY <1>1
<1> QED
  BY <1>2 DEF H

LEMMA AddsBelow ==
  ASSUME NEW h, NEW g, NEW S, Adds(h, g, S), NEW T \in SUBSET S
  PROVE  Adds([s \in SUBSET T |-> h[s]], g, T)
<1> DEFINE k == [s \in SUBSET T |-> h[s]]
<1>1. \A s \in SUBSET T : k[s] = IF s = {} THEN 0 ELSE g[Pick(s)] + k[s \ {Pick(s)}]
  <2> SUFFICES ASSUME NEW s \in SUBSET T
               PROVE  k[s] = IF s = {} THEN 0 ELSE g[Pick(s)] + k[s \ {Pick(s)}]
    OBVIOUS
  <2>1. k[s] = h[s] /\ k[s \ {Pick(s)}] = h[s \ {Pick(s)}] /\ s \in SUBSET S
    OBVIOUS
  <2> QED
    BY <2>1, AddsAt
<1>2. k = [s \in SUBSET T |-> k[s]]
  OBVIOUS
<1> HIDE DEF k
<1>3. k = [s \in SUBSET T |-> IF s = {} THEN 0 ELSE g[Pick(s)] + k[s \ {Pick(s)}]]
  BY <1>1, <1>2
<1> QED
  BY <1>3 DEF k, Adds

LEMMA AddsOnce ==
  ASSUME NEW h, NEW k, NEW g, NEW S, IsFiniteSet(S), Adds(h, g, S), Adds(k, g, S)
  PROVE  h = k
<1> DEFINE Bad == {s \in SUBSET S : h[s] # k[s]}
<1>1. Bad = {}
  <2> SUFFICES ASSUME Bad # {} PROVE FALSE
    OBVIOUS
  <2>1. PICK T \in Bad : \A U \in Bad : ~(U \subseteq T /\ U # T)
    <3> HIDE DEF Bad
    <3>1. Bad \subseteq SUBSET S
      BY DEF Bad
    <3> QED
      BY <3>1, Smallest
  <2>2. T \in SUBSET S /\ h[T] # k[T]
    OBVIOUS
  <2>3. T # {}
    BY <2>2, AddsAt
  <2>4. Pick(T) \in T
    BY <2>3, PickIsMember
  <2>5. h[T \ {Pick(T)}] = k[T \ {Pick(T)}]
    BY <2>1, <2>4
  <2> QED
    BY <2>2, <2>3, <2>5, AddsAt
<1>2. h = [s \in SUBSET S |-> h[s]] /\ k = [s \in SUBSET S |-> k[s]]
  BY DEF Adds
<1> QED
  BY <1>1, <1>2

LEMMA AddsExists ==
  ASSUME NEW g, NEW S, IsFiniteSet(S)
  PROVE  \E h : Adds(h, g, S)
<1> DEFINE Bad == {s \in SUBSET S : ~\E h : Adds(h, g, s)}
<1> SUFFICES ASSUME Bad # {} PROVE FALSE
  OBVIOUS
<1>1. PICK T \in Bad : \A U \in Bad : ~(U \subseteq T /\ U # T)
  <2> HIDE DEF Bad
  <2>1. Bad \subseteq SUBSET S
    BY DEF Bad
  <2> QED
    BY <2>1, Smallest
<1>2. T \in SUBSET S /\ IsFiniteSet(T)
  BY FS_Subset
<1> DEFINE H(s) == CHOOSE h : Adds(h, g, s)
           V(s) == H(s)[s]
           h0 == [s \in SUBSET T |-> IF s = {} THEN 0 ELSE g[Pick(s)] + V(s \ {Pick(s)})]
<1>3. \A U \in SUBSET T : U # T => Adds(H(U), g, U)
  BY <1>1, <1>2
<1>4. \A U \in SUBSET T : U # T => V(U) = IF U = {} THEN 0 ELSE g[Pick(U)] + V(U \ {Pick(U)})
  <2> SUFFICES ASSUME NEW U \in SUBSET T, U # T
               PROVE  V(U) = IF U = {} THEN 0 ELSE g[Pick(U)] + V(U \ {Pick(U)})
    OBVIOUS
  <2>1. Adds(H(U), g, U)
    BY <1>3
  <2> DEFINE W == U \ {Pick(U)}
  <2>2. Adds([s \in SUBSET W |-> H(U)[s]], g, W)
    <3>1. W \in SUBSET U
      OBVIOUS
    <3> HIDE DEF H, W
    <3> QED BY <2>1, <3>1, AddsBelow
  <2>3. W # T /\ W \in SUBSET T /\ IsFiniteSet(W)
    <3>1. W \subseteq U /\ U \subseteq T /\ U # T
      OBVIOUS
    <3> QED
      BY <3>1, <1>2, FS_Subset
  <2>4. Adds(H(W), g, W)
    BY <1>3, <2>3
  <2>5. H(W) = [s \in SUBSET W |-> H(U)[s]]
    <3> HIDE DEF H, W
    <3> QED BY <2>2, <2>3, <2>4, AddsOnce
  <2>6. H(W)[W] = H(U)[W]
    <3> HIDE DEF H
    <3> QED BY <2>5
  <2>7. U \in SUBSET U
    OBVIOUS
  <2>8. H(U)[U] = IF U = {} THEN 0 ELSE g[Pick(U)] + H(U)[W]
    <3> HIDE DEF H
    <3> QED BY <2>1, <2>7, AddsAt
  <2> QED
    <3> HIDE DEF H
    <3> QED BY <2>6, <2>8
<1>5. \A s \in SUBSET T : h0[s \ {Pick(s)}] = V(s \ {Pick(s)}) \/ s = {}
  <2> SUFFICES ASSUME NEW s \in SUBSET T, s # {}
               PROVE h0[s \ {Pick(s)}] = V(s \ {Pick(s)})
    OBVIOUS
  <2> DEFINE W == s \ {Pick(s)}
  <2>1. W \in SUBSET T /\ W # T
    BY PickIsMember
  <2>2. h0[W] = IF W = {} THEN 0 ELSE g[Pick(W)] + V(W \ {Pick(W)})
    <3> HIDE DEF V, W
    <3> QED BY <2>1
  <2>3. V(W) = IF W = {} THEN 0 ELSE g[Pick(W)] + V(W \ {Pick(W)})
    <3> HIDE DEF V, W
    <3> QED BY <2>1, <1>4
  <2> QED
    BY <2>2, <2>3, Zenon
<1>6. h0 = [s \in SUBSET T |-> IF s = {} THEN 0 ELSE g[Pick(s)] + h0[s \ {Pick(s)}]]
  <2> HIDE DEF V
  <2>1. \A s \in SUBSET T : (IF s = {} THEN 0 ELSE g[Pick(s)] + V(s \ {Pick(s)}))
              = (IF s = {} THEN 0 ELSE g[Pick(s)] + h0[s \ {Pick(s)}])
    <3> HIDE DEF h0
    <3> QED BY <1>5
  <2> DEFINE k == h0
  <2>2. h0 = [s \in SUBSET T |-> (IF s = {} THEN 0 ELSE g[Pick(s)] + V(s \ {Pick(s)}))]
    OBVIOUS
  <2> HIDE DEF h0
  <2> QED BY <2>1, <2>2
<1>7. Adds(h0, g, T)
  <2> HIDE DEF h0
  <2> QED BY <1>6 DEF Adds
<1> QED
  BY <1>7

\* Sums over finite sets.
LEMMA SumIsAdded ==
  ASSUME NEW g, NEW S, IsFiniteSet(S), NEW h, Adds(h, g, S)
  PROVE  SumOf(g, S) = h[S]
<1>1. Adds(CHOOSE k : Adds(k, g, S), g, S)
  BY Zenon
<1> QED
  BY <1>1, SumIsChosen, AddsOnce, Zenon

LEMMA SumEquation ==
  ASSUME NEW g, NEW S, IsFiniteSet(S)
  PROVE  SumOf(g, S) = IF S = {} THEN 0 ELSE g[Pick(S)] + SumOf(g, S \ {Pick(S)})
<1>1. PICK h : Adds(h, g, S)
  BY AddsExists
<1> DEFINE T == S \ {Pick(S)}
<1>2. IsFiniteSet(T) /\ T \in SUBSET S
  BY FS_Subset
<1>3. Adds([s \in SUBSET T |-> h[s]], g, T)
  BY <1>1, AddsBelow
<1>4. SumOf(g, T) = [s \in SUBSET T |-> h[s]][T]
  <2> HIDE DEF T
  <2> QED BY <1>2, <1>3, SumIsAdded
<1>5. SumOf(g, T) = h[T]
  BY <1>4
<1> QED
  BY <1>1, <1>5, SumIsAdded, AddsAt

LEMMA SumType ==
  ASSUME NEW g, NEW S, IsFiniteSet(S), \A x \in S : g[x] \in Nat
  PROVE  SumOf(g, S) \in Nat
<1> DEFINE Bad == {T \in SUBSET S : SumOf(g, T) \notin Nat}
<1> SUFFICES ASSUME Bad # {} PROVE FALSE
  OBVIOUS
<1>1. PICK T \in Bad : \A U \in Bad : ~(U \subseteq T /\ U # T)
  <2> HIDE DEF Bad
  <2>1. Bad \subseteq SUBSET S
    BY DEF Bad
  <2> QED
    BY <2>1, Smallest
<1>2. T \in SUBSET S /\ SumOf(g, T) \notin Nat /\ IsFiniteSet(T)
  BY FS_Subset
<1>3. T # {} /\ SumOf(g, T) = g[Pick(T)] + SumOf(g, T \ {Pick(T)})
  <2>1. SumOf(g, T) = IF T = {} THEN 0 ELSE g[Pick(T)] + SumOf(g, T \ {Pick(T)})
    BY <1>2, SumEquation
  <2>2. T = {} => SumOf(g, T) = 0
    BY <2>1, Zenon
  <2>3. T # {}
    BY <1>2, <2>2
  <2> QED
    BY <2>1, <2>3, Zenon
<1>4. Pick(T) \in T
  BY <1>3, PickIsMember
<1>5. SumOf(g, T \ {Pick(T)}) \in Nat
  BY <1>1, <1>4
<1> QED
  BY <1>2, <1>3, <1>4, <1>5

LEMMA SumSame ==
  ASSUME NEW f, NEW g, NEW S, IsFiniteSet(S), \A x \in S : f[x] = g[x]
  PROVE  SumOf(f, S) = SumOf(g, S)
<1> DEFINE Bad == {T \in SUBSET S : SumOf(f, T) # SumOf(g, T)}
<1> SUFFICES ASSUME Bad # {} PROVE FALSE
  OBVIOUS
<1>1. PICK T \in Bad : \A U \in Bad : ~(U \subseteq T /\ U # T)
  <2> HIDE DEF Bad
  <2>1. Bad \subseteq SUBSET S
    BY DEF Bad
  <2> QED
    BY <2>1, Smallest
<1>2. T \in SUBSET S /\ SumOf(f, T) # SumOf(g, T) /\ IsFiniteSet(T)
  BY FS_Subset
<1>3. T # {}
  BY <1>2, SumEquation
<1>4. Pick(T) \in T
  BY <1>3, PickIsMember
<1>5. SumOf(f, T \ {Pick(T)}) = SumOf(g, T \ {Pick(T)})
  BY <1>1, <1>4
<1> QED
  BY <1>2, <1>3, <1>4, <1>5, SumEquation

LEMMA SumWithout ==
  ASSUME NEW g, NEW S, IsFiniteSet(S), \A x \in S : g[x] \in Nat, NEW p \in S
  PROVE  SumOf(g, S) = g[p] + SumOf(g, S \ {p})
<1> DEFINE Bad == {T \in SUBSET S : \E x \in T : SumOf(g, T) # g[x] + SumOf(g, T \ {x})}
<1> SUFFICES ASSUME Bad # {} PROVE FALSE
  OBVIOUS
<1>1. PICK T \in Bad : \A U \in Bad : ~(U \subseteq T /\ U # T)
  <2> HIDE DEF Bad
  <2>1. Bad \subseteq SUBSET S
    BY DEF Bad
  <2> QED
    BY <2>1, Smallest
<1>2. PICK x \in T : SumOf(g, T) # g[x] + SumOf(g, T \ {x})
  OBVIOUS
<1> DEFINE q == Pick(T)
<1>3. q \in T /\ SumOf(g, T) = g[q] + SumOf(g, T \ {q})
  BY FS_Subset, SumEquation, PickIsMember
<1> HIDE DEF q
<1>4. x # q
  BY <1>2, <1>3
<1>5. \A U \in SUBSET T : U # T => \A y \in U : SumOf(g, U) = g[y] + SumOf(g, U \ {y})
  BY <1>1
<1>6. SumOf(g, T \ {q}) = g[x] + SumOf(g, (T \ {q}) \ {x})
  BY <1>3, <1>4, <1>5
<1>7. SumOf(g, T \ {x}) = g[q] + SumOf(g, (T \ {x}) \ {q})
  BY <1>3, <1>4, <1>5
<1>8. (T \ {q}) \ {x} = (T \ {x}) \ {q}
  OBVIOUS
<1>9. SumOf(g, (T \ {q}) \ {x}) \in Nat
  <2>1. (T \ {q}) \ {x} \in SUBSET S
    OBVIOUS
  <2> QED
    BY <2>1, FS_Subset, SumType
<1>10. g[x] \in Nat /\ g[q] \in Nat
  BY <1>3
<1> HIDE DEF Bad
<1> QED
  BY <1>2, <1>3, <1>6, <1>7, <1>8, <1>9, <1>10

-----------------------------------------------------------------------------
(* The inductive invariant.                                                  *)

\* Where an extraction may be: walking to a place, writing a file, and owning
\* one that is not finished.
Walking == {"walk", "lstat", "open", "confirm"}
Writing == {"source", "create", "copy", "discard", "close", "remove"}
Owning  == {"copy", "discard", "close", "remove"}
Working == {"enter"} \cup Walking \cup Writing
Labels  == {"start", "preflight", "done"} \cup Working
Handles == {"archive", "destination", "current", "child", "parent", "source", "output"}
Owners  == Extractions \cup {Nobody}

IsObject(o) ==
  \/ o = Nothing \/ o = Link
  \/ o.by \in Owners /\ o = Dir(o.by)
  \/ o.by \in Owners /\ o.entry \in Nat /\ o.bytes \in Nat /\ o = File(o.by, o.entry, o.bytes)

\* Objects are those the code makes; everything else is in its range.
Types ==
  /\ DOMAIN fs = Paths /\ \A p \in Paths : IsObject(fs[p])
  /\ archive \in [Extractions -> Archives]
  /\ pc \in [Extractions -> Labels]
  /\ next \in [Extractions -> Nat] /\ depth \in [Extractions -> Nat] /\ total \in [Extractions -> Nat]
  /\ handles \in [Extractions -> SUBSET Handles]
  /\ stuck \subseteq Paths
  /\ result \in [Extractions -> {"none", "ok", "error"}]

Count(x) == Len(archive[x])
Entry(x, i) == archive[x][i]
Owned(x) == {p \in Paths : fs[p].type = "file" /\ fs[p].by = x}

\* The handles that are open at each step.
HoldsExactly(x) ==
  /\ pc[x] \in {"start", "done"} => handles[x] = {}
  /\ pc[x] = "preflight" => handles[x] = {"archive"}
  /\ pc[x] = "enter" => handles[x] \in {{"archive"}, {"archive", "destination"}}
  /\ pc[x] \in {"walk", "lstat", "open"} =>
       handles[x] \in {{"archive", "current"}, {"archive", "destination", "current"}}
  /\ pc[x] = "confirm" =>
       handles[x] \in {{"archive", "child"}, {"archive", "destination", "child"}}
  /\ pc[x] = "source" => handles[x] = {"archive", "destination", "parent"}
  /\ pc[x] = "create" => handles[x] = {"archive", "destination", "parent", "source"}
  /\ pc[x] \in {"copy", "discard", "close"} =>
       handles[x] = {"archive", "destination", "parent", "source", "output"}
  /\ pc[x] = "remove" => handles[x] = {"archive", "destination", "parent", "source"}

\* Where it is in the archive, and that only an accepted archive is worked on.
Control(x) ==
  /\ HoldsExactly(x)
  /\ next[x] \in 1 .. Count(x) + 1
  /\ pc[x] \in Walking /\ Opened(x) => next[x] <= Count(x)
  /\ pc[x] \in Writing => next[x] <= Count(x) /\ Current(x).kind = "file"
  /\ pc[x] \in Working => Preflight(archive[x])
  /\ result[x] = "ok" => pc[x] = "done" /\ next[x] = Count(x) + 1

\* The walk has come from its start through directories.
Start(x) == IF Opened(x) THEN Len(Destination) ELSE 0
Walked(x) ==
  pc[x] \in Walking =>
    /\ depth[x] \in Start(x) .. Goal(x)
    /\ pc[x] # "walk" => depth[x] < Goal(x)
    /\ depth[x] > Start(x) => fs[Up(Place(x), depth[x])].type = "dir"
    /\ pc[x] \in {"open", "confirm"} => fs[Step(x)].type = "dir"

\* A file of an entry before the next is whole; one of the next entry is being
\* written, fits what is left, or could not be removed.
FileAt(x, p) ==
  LET i == fs[p].entry
      e == Entry(x, i)
  IN /\ i \in 1 .. Count(x) /\ i <= next[x] /\ e.kind = "file" /\ p = Below(e.path)
     /\ fs[p].bytes <= e.actual /\ fs[p].bytes <= MaxEntryBytes
     /\ i < next[x] => fs[p].bytes = e.actual /\ e.sound
     /\ i = next[x] => /\ total[x] + fs[p].bytes <= MaxTotalBytes
                       /\ pc[x] \in Owning \/ (pc[x] = "done" /\ p \in stuck)
FilesRight(x) ==
  \A p \in Owned(x) : FileAt(x, p)
\* The place it writes at holds its own file of the entry it is at.
Writes(x) ==
  /\ pc[x] \in Owning => Place(x) \in Owned(x) /\ fs[Place(x)].entry = next[x]
  /\ pc[x] = "close" => AtEnd(x)

\* Every finished entry is there.
Present(x) ==
  \A i \in 1 .. Count(x) : i < next[x] =>
    LET found == fs[Below(Entry(x, i).path)]
    IN IF Entry(x, i).kind = "file" THEN found.type = "file" /\ found.by = x /\ found.entry = i
                                    ELSE found.type = "dir"

\* The names the preflight counted: of the destination and of every entry.
Directories(e) == IF e.kind = "dir" THEN Len(e.path) ELSE Len(e.path) - 1
RootNames == {Up(Destination, n) : n \in 1 .. Len(Destination)}
NamesOf(e) == {Up(Below(e.path), Len(Destination) + n) : n \in 1 .. Directories(e)}
MakesNamed(x) ==
  \A p \in Made(x) :
    /\ Preflight(archive[x])
    /\ fs[p].type = "dir" => \/ p \in RootNames
                             \/ \E i \in 1 .. Count(x) : p \in NamesOf(Entry(x, i))

\* The total is what the finished files hold.
Bytes == [p \in Paths |-> fs[p].bytes]
Finished(x) == {p \in Owned(x) : fs[p].entry < next[x]}
TotalIsSum(x) == total[x] = SumOf(Bytes, Finished(x)) /\ total[x] <= MaxTotalBytes

\* What an extraction can rely on whatever the others do.
Own(x) ==
  /\ Control(x) /\ Walked(x) /\ FilesRight(x) /\ Writes(x)
  /\ Present(x) /\ MakesNamed(x) /\ TotalIsSum(x)
IInv == Types /\ \A x \in Extractions : Own(x)

-----------------------------------------------------------------------------
(* Paths, and the sums of a preflight.                                       *)

\* A place below the root and its prefixes.
LEMMA Prefixes ==
  ASSUME NEW p \in Seq(STRING), NEW n \in 0 .. Len(p)
  PROVE  Up(p, n) \in Seq(STRING) /\ Len(Up(p, n)) = n /\ Up(p, Len(p)) = p
BY DEF Up

LEMMA Joined ==
  ASSUME NEW p \in Paths
  PROVE  /\ p \in Seq(STRING) /\ Destination \in Seq(STRING) /\ Len(p) \in Nat /\ Len(Destination) \in Nat
         /\ Below(p) \in Seq(STRING) /\ Len(Below(p)) = Len(Destination) + Len(p)
BY ZipAssumption DEF ZipAssumption, Below

LEMMA EntriesAre ==
  ASSUME NEW a \in Archives
  PROVE  /\ Len(a) \in Nat /\ DOMAIN a = 1 .. Len(a)
         /\ \A i \in 1 .. Len(a) :
              /\ a[i] \in Entries /\ a[i].path # <<>> /\ Below(a[i].path) \in Paths
              /\ Len(a[i].path) \in Nat \ {0}
              /\ Len(Below(a[i].path)) = Len(Destination) + Len(a[i].path)
<1>1. a \in Seq(Entries)
  BY ZipAssumption DEF ZipAssumption
<1>2. \A i \in 1 .. Len(a) : a[i] \in Entries /\ a[i].path # <<>> /\ Below(a[i].path) \in Paths
  BY <1>1, ZipAssumption DEF ZipAssumption
<1>3. ASSUME NEW i \in 1 .. Len(a)
      PROVE  Len(a[i].path) \in Nat \ {0} /\ Len(Below(a[i].path)) = Len(Destination) + Len(a[i].path)
  <2>1. a[i].path \in Paths
    BY <1>2 DEF Entries
  <2>2. a[i].path \in Seq(STRING)
    BY <2>1, Joined
  <2>3. Len(a[i].path) # 0
    BY <1>2, <2>2
  <2> QED
    BY <2>1, <2>2, <2>3, Joined
<1> QED
  BY <1>1, <1>2, <1>3

\* The sums of the model, written with functions.
Lengths(a) == [i \in DOMAIN a |-> Len(a[i].path)]
DirectoryCounts(a) == [i \in DOMAIN a |-> Directories(a[i])]

LEMMA LengthsAreSummed ==
  ASSUME NEW a, IsFiniteSet(DOMAIN a)
  PROVE  SumOver(a, LAMBDA e : Len(e.path)) = SumOf(Lengths(a), DOMAIN a)
<1> DEFINE g == Lengths(a)
           S == DOMAIN a
           Sums(h) == h = [s \in SUBSET S |->
                             IF s = {} THEN 0 ELSE Len(a[Pick(s)].path) + h[s \ {Pick(s)}]]
<1>1. ASSUME NEW h PROVE Adds(h, g, S) <=> Sums(h)
  <2>1. \A s \in SUBSET S : s # {} => g[Pick(s)] = Len(a[Pick(s)].path)
    BY PickIsMember DEF Lengths
  <2> HIDE DEF g
  <2>2. \A s \in SUBSET S :
          (IF s = {} THEN 0 ELSE Len(a[Pick(s)].path) + h[s \ {Pick(s)}])
            = (IF s = {} THEN 0 ELSE g[Pick(s)] + h[s \ {Pick(s)}])
    BY <2>1
  <2>3. [s \in SUBSET S |-> IF s = {} THEN 0 ELSE Len(a[Pick(s)].path) + h[s \ {Pick(s)}]]
          = [s \in SUBSET S |-> IF s = {} THEN 0 ELSE g[Pick(s)] + h[s \ {Pick(s)}]]
    BY <2>2
  <2> QED
    BY <2>3, Zenon DEF Adds
<1>2. SumOver(a, LAMBDA e : Len(e.path)) = (CHOOSE h : Sums(h))[S]
  BY Zenon DEF SumOver, MapThenSumSet, MapThenFoldSet, Pick
<1> HIDE DEF g, Sums
<1>3. \E h : Sums(h)
  BY <1>1, AddsExists
<1>4. Sums(CHOOSE h : Sums(h))
  BY <1>3, Zenon
<1>5. Adds(CHOOSE h : Sums(h), g, S)
  BY <1>1, <1>4
<1> HIDE DEF S
<1>6. SumOf(g, S) = (CHOOSE h : Sums(h))[S]
  BY <1>5, SumIsAdded DEF S
<1> QED
  BY <1>2, <1>6 DEF g, S

LEMMA DirectoriesAreSummed ==
  ASSUME NEW a, IsFiniteSet(DOMAIN a)
  PROVE  SumOver(a, LAMBDA e : IF e.kind = "dir" THEN Len(e.path) ELSE Len(e.path) - 1)
           = SumOf(DirectoryCounts(a), DOMAIN a)
<1> DEFINE g == DirectoryCounts(a)
           S == DOMAIN a
           D(e) == IF e.kind = "dir" THEN Len(e.path) ELSE Len(e.path) - 1
           Sums(h) == h = [s \in SUBSET S |->
                             IF s = {} THEN 0 ELSE D(a[Pick(s)]) + h[s \ {Pick(s)}]]
<1>2. SumOver(a, LAMBDA e : IF e.kind = "dir" THEN Len(e.path) ELSE Len(e.path) - 1) = (CHOOSE h : Sums(h))[S]
  BY Zenon DEF SumOver, MapThenSumSet, MapThenFoldSet, Pick
<1>1. ASSUME NEW h PROVE Adds(h, g, S) <=> Sums(h)
  <2>1. \A s \in SUBSET S : s # {} => g[Pick(s)] = D(a[Pick(s)])
    BY PickIsMember DEF DirectoryCounts, Directories
  <2> HIDE DEF g, D
  <2>2. \A s \in SUBSET S :
          (IF s = {} THEN 0 ELSE D(a[Pick(s)]) + h[s \ {Pick(s)}])
            = (IF s = {} THEN 0 ELSE g[Pick(s)] + h[s \ {Pick(s)}])
    BY <2>1
  <2>3. [s \in SUBSET S |-> IF s = {} THEN 0 ELSE D(a[Pick(s)]) + h[s \ {Pick(s)}]]
          = [s \in SUBSET S |-> IF s = {} THEN 0 ELSE g[Pick(s)] + h[s \ {Pick(s)}]]
    BY <2>2
  <2> QED
    BY <2>3, Zenon DEF Adds
<1> HIDE DEF g, Sums
<1>3. \E h : Sums(h)
  BY <1>1, AddsExists
<1>4. Sums(CHOOSE h : Sums(h))
  BY <1>3, Zenon
<1>5. Adds(CHOOSE h : Sums(h), g, S)
  BY <1>1, <1>4
<1> HIDE DEF S
<1>6. SumOf(g, S) = (CHOOSE h : Sums(h))[S]
  BY <1>5, SumIsAdded DEF S
<1> QED
  BY <1>2, <1>6 DEF g, S

LEMMA BytesAreSummed ==
  ASSUME NEW S, IsFiniteSet(S), S \subseteq Paths
  PROVE  MapThenSumSet(LAMBDA p : fs[p].bytes, S) = SumOf(Bytes, S)
<1> DEFINE g == Bytes
           Sums(h) == h = [s \in SUBSET S |->
                             IF s = {} THEN 0 ELSE fs[Pick(s)].bytes + h[s \ {Pick(s)}]]
<1>1. ASSUME NEW h PROVE Adds(h, g, S) <=> Sums(h)
  <2>1. \A s \in SUBSET S : s # {} => g[Pick(s)] = fs[Pick(s)].bytes
    BY PickIsMember DEF Bytes
  <2> HIDE DEF g
  <2>2. \A s \in SUBSET S :
          (IF s = {} THEN 0 ELSE fs[Pick(s)].bytes + h[s \ {Pick(s)}])
            = (IF s = {} THEN 0 ELSE g[Pick(s)] + h[s \ {Pick(s)}])
    BY <2>1
  <2>3. [s \in SUBSET S |-> IF s = {} THEN 0 ELSE fs[Pick(s)].bytes + h[s \ {Pick(s)}]]
          = [s \in SUBSET S |-> IF s = {} THEN 0 ELSE g[Pick(s)] + h[s \ {Pick(s)}]]
    BY <2>2
  <2> QED
    BY <2>3, Zenon DEF Adds
<1>2. MapThenSumSet(LAMBDA p : fs[p].bytes, S) = (CHOOSE h : Sums(h))[S]
  BY Zenon DEF MapThenSumSet, MapThenFoldSet, Pick
<1> HIDE DEF g, Sums
<1>3. \E h : Sums(h)
  BY <1>1, AddsExists
<1>4. Sums(CHOOSE h : Sums(h))
  BY <1>3, Zenon
<1>5. Adds(CHOOSE h : Sums(h), g, S)
  BY <1>1, <1>4
<1>6. SumOf(g, S) = (CHOOSE h : Sums(h))[S]
  BY <1>5, SumIsAdded
<1> QED
  BY <1>2, <1>6 DEF g

LEMMA BudgetMeans ==
  ASSUME NEW a, IsFiniteSet(DOMAIN a), Budget(a)
  PROVE  /\ Len(Destination) <= MaxPathDepth
         /\ \A i \in DOMAIN a : Len(Destination) + Len(a[i].path) <= MaxPathDepth
         /\ Len(Destination) + SumOf(DirectoryCounts(a), DOMAIN a) <= MaxDirectories
         /\ Len(Destination) + SumOf(Lengths(a), DOMAIN a) <= MaxObjects
<1>1. /\ Len(Destination) <= MaxPathDepth
      /\ \A i \in DOMAIN a : Len(Destination) + Len(a[i].path) <= MaxPathDepth
  BY DEF Budget
<1>2. Len(Destination) + SumOver(a, LAMBDA e : IF e.kind = "dir" THEN Len(e.path) ELSE Len(e.path) - 1) <= MaxDirectories
  BY Zenon DEF Budget, SumOver
<1>3. Len(Destination) + SumOver(a, LAMBDA e : Len(e.path)) <= MaxObjects
  BY Zenon DEF Budget, SumOver
<1>4. SumOver(a, LAMBDA e : IF e.kind = "dir" THEN Len(e.path) ELSE Len(e.path) - 1)
           = SumOf(DirectoryCounts(a), DOMAIN a)
  BY DirectoriesAreSummed, Zenon
<1>5. SumOver(a, LAMBDA e : Len(e.path)) = SumOf(Lengths(a), DOMAIN a)
  BY LengthsAreSummed, Zenon
<1> QED
  BY <1>1, <1>2, <1>3, <1>4, <1>5, Zenon

-----------------------------------------------------------------------------
(* How many places an accepted archive can touch.                            *)

\* How many elements a union, an image and a set of prefixes can have.
LEMMA JoinBound ==
  ASSUME NEW S, IsFiniteSet(S), NEW T, IsFiniteSet(T),
         NEW m \in Nat, Cardinality(S) <= m, NEW n \in Nat, Cardinality(T) <= n
  PROVE  IsFiniteSet(S \cup T) /\ Cardinality(S \cup T) <= m + n
<1>1. IsFiniteSet(S \cap T)
  BY FS_Subset
<1>2. Cardinality(S) \in Nat /\ Cardinality(T) \in Nat /\ Cardinality(S \cap T) \in Nat
  BY <1>1, FS_CardinalityType
<1>3. /\ IsFiniteSet(S \cup T)
      /\ Cardinality(S \cup T) = Cardinality(S) + Cardinality(T) - Cardinality(S \cap T)
  BY FS_Union
<1> QED
  BY <1>2, <1>3

LEMMA UnionBound ==
  ASSUME NEW S, IsFiniteSet(S), NEW F, NEW g,
         \A i \in S : IsFiniteSet(F[i]) /\ g[i] \in Nat /\ Cardinality(F[i]) <= g[i]
  PROVE  /\ IsFiniteSet(UNION {F[i] : i \in S})
         /\ Cardinality(UNION {F[i] : i \in S}) <= SumOf(g, S)
<1> DEFINE All(T) == UNION {F[i] : i \in T}
           Bad == {T \in SUBSET S : ~(IsFiniteSet(All(T)) /\ Cardinality(All(T)) <= SumOf(g, T))}
<1> SUFFICES ASSUME Bad # {} PROVE FALSE
  OBVIOUS
<1>1. PICK T \in Bad : \A U \in Bad : ~(U \subseteq T /\ U # T)
  <2> HIDE DEF Bad
  <2>1. Bad \subseteq SUBSET S
    BY DEF Bad
  <2> QED
    BY <2>1, Smallest
<1>2. T \in SUBSET S /\ IsFiniteSet(T)
  BY FS_Subset
<1>3. T # {}
  <2> SUFFICES ASSUME T = {} PROVE FALSE
    OBVIOUS
  <2>1. All(T) = {}
    OBVIOUS
  <2>2. SumOf(g, T) = 0
    BY <1>2, SumEquation
  <2>3. IsFiniteSet(All(T)) /\ Cardinality(All(T)) = 0
    BY <2>1, FS_EmptySet
  <2> QED
    BY <2>2, <2>3
<1>4. PICK i : i \in T
  BY <1>3
<1>5. IsFiniteSet(All(T \ {i})) /\ Cardinality(All(T \ {i})) <= SumOf(g, T \ {i})
  BY <1>1, <1>4
<1>6. All(T) = F[i] \cup All(T \ {i})
  BY <1>4
<1>7. SumOf(g, T) = g[i] + SumOf(g, T \ {i})
  BY <1>2, <1>4, SumWithout
<1>8. SumOf(g, T \ {i}) \in Nat
  BY <1>2, FS_Subset, SumType
<1> HIDE DEF All
<1>9. IsFiniteSet(All(T)) /\ Cardinality(All(T)) <= g[i] + SumOf(g, T \ {i})
  BY <1>2, <1>4, <1>5, <1>6, <1>8, JoinBound
<1> QED
  BY <1>7, <1>9

LEMMA ImageBound ==
  ASSUME NEW n \in Nat, NEW f, DOMAIN f = 1 .. n, f = [k \in 1 .. n |-> f[k]]
  PROVE  IsFiniteSet({f[k] : k \in 1 .. n}) /\ Cardinality({f[k] : k \in 1 .. n}) <= n
<1> DEFINE T == {f[k] : k \in 1 .. n}
<1>1. f \in Surjection(1 .. n, T)
  BY DEF Surjection
<1>2. IsFiniteSet(1 .. n) /\ Cardinality(1 .. n) = n
  BY FS_Interval
<1> QED
  BY <1>1, <1>2, FS_Surjection

\* The first n names below a place of length m.
LEMMA NamesBound ==
  ASSUME NEW p, NEW m \in Nat, NEW n \in Nat
  PROVE  /\ IsFiniteSet({Up(p, m + k) : k \in 1 .. n})
         /\ Cardinality({Up(p, m + k) : k \in 1 .. n}) <= n
<1> DEFINE f == [k \in 1 .. n |-> Up(p, m + k)]
<1>1. {f[k] : k \in 1 .. n} = {Up(p, m + k) : k \in 1 .. n}
  OBVIOUS
<1>2. DOMAIN f = 1 .. n /\ f = [k \in 1 .. n |-> f[k]]
  OBVIOUS
<1> HIDE DEF f
<1> QED
  BY <1>1, <1>2, ImageBound

AllNamesOf(e) == {Up(Below(e.path), Len(Destination) + n) : n \in 1 .. Len(e.path)}

\* The places of an entry, the places of the destination.
LEMMA EntryBound ==
  ASSUME NEW a \in Archives, NEW i \in 1 .. Len(a)
  PROVE  /\ IsFiniteSet(NamesOf(a[i])) /\ Cardinality(NamesOf(a[i])) <= Directories(a[i])
         /\ Directories(a[i]) \in Nat
         /\ IsFiniteSet(AllNamesOf(a[i])) /\ Cardinality(AllNamesOf(a[i])) <= Len(a[i].path)
         /\ NamesOf(a[i]) \subseteq AllNamesOf(a[i]) /\ Below(a[i].path) \in AllNamesOf(a[i])
         /\ \A p \in AllNamesOf(a[i]) : Len(p) <= Len(Destination) + Len(a[i].path)
<1>1. /\ Len(a[i].path) \in Nat \ {0} /\ Below(a[i].path) \in Seq(STRING) /\ Len(Destination) \in Nat
      /\ Len(Below(a[i].path)) = Len(Destination) + Len(a[i].path)
  BY EntriesAre, Joined, ZipAssumption DEF Entries, ZipAssumption
<1>2. Directories(a[i]) \in Nat /\ Directories(a[i]) <= Len(a[i].path)
  BY <1>1 DEF Directories
<1>3. IsFiniteSet(NamesOf(a[i])) /\ Cardinality(NamesOf(a[i])) <= Directories(a[i])
  BY <1>1, <1>2, NamesBound DEF NamesOf
<1>4. IsFiniteSet(AllNamesOf(a[i])) /\ Cardinality(AllNamesOf(a[i])) <= Len(a[i].path)
  BY <1>1, NamesBound DEF AllNamesOf
<1>5. NamesOf(a[i]) \subseteq AllNamesOf(a[i])
  BY <1>1, <1>2 DEF NamesOf, AllNamesOf
<1>6. Below(a[i].path) \in AllNamesOf(a[i])
  <2>1. Up(Below(a[i].path), Len(Destination) + Len(a[i].path)) = Below(a[i].path)
    <3> DEFINE q == Below(a[i].path)
    <3>1. q \in Seq(STRING) /\ Len(q) = Len(Destination) + Len(a[i].path) /\ Len(q) \in 0 .. Len(q)
      BY <1>1
    <3> HIDE DEF q
    <3>2. Up(q, Len(q)) = q
      BY <3>1, Prefixes
    <3> QED
      BY <3>1, <3>2 DEF q
  <2>2. Len(a[i].path) \in 1 .. Len(a[i].path)
    BY <1>1
  <2> QED
    BY <2>1, <2>2, Zenon DEF AllNamesOf
<1>7. \A n \in 1 .. Len(a[i].path) : Len(Up(Below(a[i].path), Len(Destination) + n)) = Len(Destination) + n
  <2> DEFINE q == Below(a[i].path)
  <2>1. q \in Seq(STRING) /\ \A n \in 1 .. Len(a[i].path) : Len(Destination) + n \in 0 .. Len(q)
    BY <1>1
  <2> HIDE DEF q
  <2>2. ASSUME NEW n \in 1 .. Len(a[i].path) PROVE Len(Up(q, Len(Destination) + n)) = Len(Destination) + n
    <3>1. Len(Destination) + n \in 0 .. Len(q)
      BY <2>1
    <3> QED
      BY <2>1, <3>1, Prefixes
  <2> QED
    BY <2>2 DEF q
<1>8. \A p \in AllNamesOf(a[i]) : Len(p) <= Len(Destination) + Len(a[i].path)
  BY <1>1, <1>7 DEF AllNamesOf
<1> QED
  BY <1>2, <1>3, <1>4, <1>5, <1>6, <1>8

LEMMA RootNamesBound ==
  /\ IsFiniteSet(RootNames) /\ Cardinality(RootNames) <= Len(Destination)
  /\ \A p \in RootNames : Len(p) <= Len(Destination)
<1>1. Destination \in Seq(STRING) /\ Len(Destination) \in Nat
  BY Joined, ZipAssumption DEF ZipAssumption
<1>2. RootNames = {Up(Destination, 0 + n) : n \in 1 .. Len(Destination)}
  BY <1>1 DEF RootNames
<1>3. IsFiniteSet(RootNames) /\ Cardinality(RootNames) <= Len(Destination)
  <2>1. 0 \in Nat
    OBVIOUS
  <2> QED
    BY <1>1, <1>2, <2>1, NamesBound, Zenon
<1>4. ASSUME NEW n \in 1 .. Len(Destination) PROVE Len(Up(Destination, n)) = n
  <2>1. n \in 0 .. Len(Destination)
    BY <1>1
  <2> QED
    BY <1>1, <2>1, Prefixes
<1> QED
  BY <1>1, <1>3, <1>4 DEF RootNames

\* All the places an extraction may make, and those of directories among them.
LEMMA PlacesBound ==
  ASSUME NEW a \in Archives, Budget(a)
  PROVE  LET all == RootNames \cup UNION {AllNamesOf(a[i]) : i \in 1 .. Len(a)}
             directories == RootNames \cup UNION {NamesOf(a[i]) : i \in 1 .. Len(a)}
         IN /\ IsFiniteSet(all) /\ Cardinality(all) <= MaxObjects
            /\ IsFiniteSet(directories) /\ Cardinality(directories) <= MaxDirectories
            /\ \A p \in all : Len(p) <= MaxPathDepth
<1> DEFINE all == UNION {AllNamesOf(a[i]) : i \in 1 .. Len(a)}
           dirs == UNION {NamesOf(a[i]) : i \in 1 .. Len(a)}
           S == DOMAIN a
<1>1. S = 1 .. Len(a) /\ Len(a) \in Nat /\ Len(Destination) \in Nat
  BY EntriesAre, Joined, ZipAssumption DEF ZipAssumption
<1>2. IsFiniteSet(S)
  BY <1>1, FS_Interval
<1>3. /\ Len(Destination) <= MaxPathDepth
      /\ \A i \in S : Len(Destination) + Len(a[i].path) <= MaxPathDepth
      /\ Len(Destination) + SumOf(DirectoryCounts(a), S) <= MaxDirectories
      /\ Len(Destination) + SumOf(Lengths(a), S) <= MaxObjects
  BY <1>2, BudgetMeans
<1>4. IsFiniteSet(all) /\ Cardinality(all) <= SumOf(Lengths(a), S) /\ SumOf(Lengths(a), S) \in Nat
  <2> DEFINE F == [i \in S |-> AllNamesOf(a[i])]
             g == Lengths(a)
  <2>1. \A i \in S : IsFiniteSet(F[i]) /\ g[i] \in Nat /\ Cardinality(F[i]) <= g[i]
    BY <1>1, EntryBound, EntriesAre DEF Lengths
  <2>2. all = UNION {F[i] : i \in S}
    BY <1>1
  <2> HIDE DEF F, g, all, S
  <2>3. IsFiniteSet(all) /\ Cardinality(all) <= SumOf(g, S)
    BY <1>2, <2>1, <2>2, UnionBound
  <2>4. SumOf(g, S) \in Nat
    BY <1>2, <2>1, SumType
  <2> QED
    BY <2>3, <2>4 DEF g
<1>5. IsFiniteSet(dirs) /\ Cardinality(dirs) <= SumOf(DirectoryCounts(a), S)
      /\ SumOf(DirectoryCounts(a), S) \in Nat
  <2> DEFINE F == [i \in S |-> NamesOf(a[i])]
             g == DirectoryCounts(a)
  <2>1. \A i \in S : IsFiniteSet(F[i]) /\ g[i] \in Nat /\ Cardinality(F[i]) <= g[i]
    BY <1>1, EntryBound DEF DirectoryCounts
  <2>2. dirs = UNION {F[i] : i \in S}
    BY <1>1
  <2> HIDE DEF F, g, dirs, S
  <2>3. IsFiniteSet(dirs) /\ Cardinality(dirs) <= SumOf(g, S)
    BY <1>2, <2>1, <2>2, UnionBound
  <2>4. SumOf(g, S) \in Nat
    BY <1>2, <2>1, SumType
  <2> QED
    BY <2>3, <2>4 DEF g
<1>6. \A p \in RootNames \cup all : Len(p) <= MaxPathDepth
  <2>1. \A p \in RootNames : Len(p) <= MaxPathDepth
    <3>1. \A p \in RootNames : Len(p) \in Nat
      BY Prefixes, Joined, ZipAssumption DEF RootNames, ZipAssumption
    <3> QED
      BY <1>1, <1>3, <3>1, RootNamesBound, ZipAssumption DEF ZipAssumption
  <2>2. \A i \in S : \A p \in AllNamesOf(a[i]) : Len(p) <= MaxPathDepth
    <3> SUFFICES ASSUME NEW i \in S, NEW p \in AllNamesOf(a[i]) PROVE Len(p) <= MaxPathDepth
      OBVIOUS
    <3>1. Len(a[i].path) \in Nat /\ Len(p) <= Len(Destination) + Len(a[i].path)
      BY <1>1, EntryBound, EntriesAre
    <3>2. Len(p) \in Nat
      BY <1>1, EntriesAre, Prefixes, ZipAssumption DEF AllNamesOf, ZipAssumption
    <3> QED
      BY <1>1, <1>3, <3>1, <3>2, ZipAssumption DEF ZipAssumption
  <2> QED
    BY <1>1, <2>1, <2>2
<1> HIDE DEF all, dirs, S
<1>7. IsFiniteSet(RootNames \cup all) /\ Cardinality(RootNames \cup all) <= Len(Destination) + SumOf(Lengths(a), S)
  BY <1>1, <1>4, RootNamesBound, JoinBound
<1>8. IsFiniteSet(RootNames \cup dirs)
      /\ Cardinality(RootNames \cup dirs) <= Len(Destination) + SumOf(DirectoryCounts(a), S)
  BY <1>1, <1>5, RootNamesBound, JoinBound
<1>9. Cardinality(RootNames \cup all) <= MaxObjects /\ Cardinality(RootNames \cup dirs) <= MaxDirectories
  <2>1. Cardinality(RootNames \cup all) \in Nat /\ Cardinality(RootNames \cup dirs) \in Nat
    BY <1>7, <1>8, FS_CardinalityType
  <2> QED
    BY <1>1, <1>3, <1>4, <1>5, <1>7, <1>8, <2>1, ZipAssumption DEF ZipAssumption
<1> QED
  BY <1>6, <1>7, <1>8, <1>9 DEF all, dirs

-----------------------------------------------------------------------------
(* Objects, places, and what a step may touch.                               *)

\* Objects: what tells them apart.
LEMMA ObjectKinds ==
  ASSUME NEW o, IsObject(o)
  PROVE  /\ o.type \in {"nothing", "dir", "link", "file"} /\ o.by \in Owners
         /\ o.type = "nothing" => o = Nothing
         /\ o.by \in Extractions => o.type \in {"dir", "file"}
         /\ o.type = "file" => o.entry \in Nat /\ o.bytes \in Nat /\ o = File(o.by, o.entry, o.bytes)
BY ZipAssumption DEF ZipAssumption, IsObject, Owners, Nothing, Link, Dir, File

LEMMA NewObjects ==
  ASSUME NEW x \in Extractions, NEW i \in Nat, NEW n \in Nat
  PROVE  /\ IsObject(Nothing) /\ IsObject(Dir(x)) /\ IsObject(File(x, i, n))
         /\ Nothing.by = Nobody /\ Nothing.type = "nothing"
         /\ Dir(x).by = x /\ Dir(x).type = "dir"
         /\ File(x, i, n).by = x /\ File(x, i, n).type = "file"
         /\ File(x, i, n).entry = i /\ File(x, i, n).bytes = n
         /\ x # Nobody
BY ZipAssumption DEF ZipAssumption, IsObject, Owners, Nothing, Dir, File

\* Where the extraction is in its archive.
LEMMA ArchiveFacts ==
  ASSUME Types, NEW x \in Extractions
  PROVE  /\ archive[x] \in Archives /\ Count(x) \in Nat
         /\ \A i \in 1 .. Count(x) :
              /\ Entry(x, i) \in Entries /\ Below(Entry(x, i).path) \in Paths
              /\ Entry(x, i).path \in Paths
              /\ Entry(x, i).actual \in Nat /\ Entry(x, i).sound \in BOOLEAN
              /\ Len(Entry(x, i).path) \in Nat \ {0}
              /\ Len(Below(Entry(x, i).path)) = Len(Destination) + Len(Entry(x, i).path)
<1>1. archive[x] \in Archives
  BY DEF Types
<1> QED
  BY <1>1, EntriesAre DEF Count, Entry, Entries

\* Where a walk leads, given that the entry it is for is there.
LEMMA WalkFacts ==
  ASSUME Types, NEW x \in Extractions,
         Opened(x) => next[x] \in 1 .. Count(x) /\ Preflight(archive[x])
  PROVE  /\ Place(x) \in Paths /\ Place(x) \in Seq(STRING) /\ Len(Place(x)) \in Nat
         /\ Len(Destination) \in Nat /\ Goal(x) \in Nat /\ Goal(x) <= Len(Place(x))
         /\ Start(x) \in 0 .. Goal(x)
         /\ Opened(x) => /\ next[x] \in 1 .. Count(x) /\ Current(x) = Entry(x, next[x])
                         /\ Place(x) = Below(Current(x).path)
                         /\ Goal(x) = Len(Destination) + Directories(Current(x))
                         /\ (Current(x).kind # "file" => Goal(x) = Len(Place(x)))
                         /\ Len(Place(x)) > Len(Destination)
         /\ ~Opened(x) => Place(x) = Destination /\ Goal(x) = Len(Destination)
<1>1. Destination \in Paths /\ Len(Destination) \in Nat
  BY Joined, ZipAssumption DEF ZipAssumption
<1>3. CASE ~Opened(x)
  BY <1>1, <1>3, Joined DEF Place, Goal, Start
<1>4. CASE Opened(x)
  <2>1. next[x] \in 1 .. Count(x)
    BY <1>4
  <2>2. Current(x) = Entry(x, next[x])
    BY DEF Current, Entry
  <2>3. Place(x) = Below(Current(x).path)
    BY <1>4 DEF Place
  <2>4. /\ Place(x) \in Paths /\ Len(Current(x).path) \in Nat \ {0}
        /\ Len(Place(x)) = Len(Destination) + Len(Current(x).path)
    BY <2>1, <2>2, <2>3, ArchiveFacts
  <2>5. Current(x).kind \in {"file", "dir", "refused"}
    BY <2>1, <2>2, ArchiveFacts DEF Entries
  <2>7. Current(x).kind # "refused"
    <3>1. next[x] \in DOMAIN archive[x]
      BY <2>1, ArchiveFacts, EntriesAre DEF Count
    <3> QED
      BY <1>4, <3>1 DEF Preflight, Current
  <2>8. Place(x) \in Seq(STRING)
    BY <2>4, Joined
  <2>9. Goal(x) = Len(Destination) + Directories(Current(x))
    BY <1>1, <1>4, <2>4, <2>5, <2>7 DEF Goal, Directories
  <2>10. Goal(x) \in Nat /\ Goal(x) <= Len(Place(x)) /\ (Current(x).kind # "file" => Goal(x) = Len(Place(x)))
    BY <1>1, <1>4, <2>4, <2>5, <2>7 DEF Goal
  <2>11. Len(Place(x)) > Len(Destination)
    BY <1>1, <2>4
  <2>12. Start(x) \in 0 .. Goal(x)
    BY <1>1, <1>4, <2>4, <2>5, <2>7 DEF Goal, Start
  <2> QED
    BY <1>1, <1>4, <2>1, <2>2, <2>3, <2>4, <2>8, <2>9, <2>10, <2>11, <2>12
<1> QED
  BY <1>3, <1>4

LEMMA PlaceFacts ==
  ASSUME Types, NEW x \in Extractions, Control(x), pc[x] \in Walking \cup Writing
  PROVE  /\ Place(x) \in Paths /\ Place(x) \in Seq(STRING) /\ Len(Place(x)) \in Nat
         /\ Len(Destination) \in Nat /\ Goal(x) \in Nat /\ Goal(x) <= Len(Place(x))
         /\ Start(x) \in 0 .. Goal(x)
         /\ pc[x] \in Writing => Opened(x)
         /\ Opened(x) => /\ next[x] \in 1 .. Count(x) /\ Current(x) = Entry(x, next[x])
                         /\ Place(x) = Below(Current(x).path)
                         /\ Goal(x) = Len(Destination) + Directories(Current(x))
                         /\ (Current(x).kind # "file" => Goal(x) = Len(Place(x)))
                         /\ Len(Place(x)) > Len(Destination)
         /\ ~Opened(x) => Place(x) = Destination /\ Goal(x) = Len(Destination)
<1>1. pc[x] \in Writing => Opened(x)
  BY DEF Control, HoldsExactly, Opened, Writing
<1>2. Opened(x) => next[x] \in 1 .. Count(x) /\ Preflight(archive[x])
  BY ArchiveFacts DEF Control, Working
<1> QED
  BY <1>1, <1>2, WalkFacts

LEMMA StepPlace ==
  ASSUME Types, NEW x \in Extractions, Control(x), pc[x] \in Walking, depth[x] < Goal(x)
  PROVE  Step(x) \in Paths /\ depth[x] + 1 \in 1 .. Goal(x)
<1>1. depth[x] + 1 \in 0 .. Len(Place(x)) /\ depth[x] + 1 \in 1 .. Goal(x)
  BY PlaceFacts DEF Types
<1> QED
  BY <1>1, PlaceFacts, ZipAssumption DEF ZipAssumption, Step

\* What a step of y may do to the files and directories.
Touches(y) ==
  /\ DOMAIN fs' = Paths
  /\ \A p \in Paths :
       /\ IsObject(fs'[p])
       /\ fs'[p] # fs[p] =>
            /\ fs'[p] = Nothing \/ fs'[p].by = y
            /\ \/ fs[p] = Nothing
               \/ /\ fs[p].type = "file" /\ fs[p].by = y
                  /\ fs[p].entry = next[y] /\ pc[y] \in {"copy", "remove"}

\* And it leaves alone what other extractions are doing.
Alone(y) ==
  /\ archive' = archive /\ stuck \subseteq stuck'
  /\ \A x \in Extractions \ {y} :
       /\ pc'[x] = pc[x] /\ next'[x] = next[x] /\ depth'[x] = depth[x]
       /\ total'[x] = total[x] /\ handles'[x] = handles[x] /\ result'[x] = result[x]

LEMMA StepIsAlone == ASSUME Types, NEW y \in Extractions, Extract(y) PROVE Alone(y)
<1> USE DEF Types, Alone, Goto, Swap, Return
<1>1. CASE Begin(y) BY <1>1 DEF Begin
<1>2. CASE CheckDeclared(y) BY <1>2 DEF CheckDeclared
<1>3. CASE Enter(y) BY <1>3 DEF Enter
<1>4. CASE MakeDirectory(y) BY <1>4 DEF MakeDirectory
<1>5. CASE ExamineDirectory(y) BY <1>5 DEF ExamineDirectory
<1>6. CASE OpenDirectory(y) BY <1>6 DEF OpenDirectory
<1>7. CASE ConfirmDirectory(y) BY <1>7 DEF ConfirmDirectory
<1>8. CASE Arrive(y) BY <1>8 DEF Arrive
<1>9. CASE OpenEntry(y) BY <1>9 DEF OpenEntry
<1>10. CASE CreateFile(y) BY <1>10 DEF CreateFile
<1>11. CASE CopyByte(y) BY <1>11 DEF CopyByte
<1>12. CASE CopyEnds(y) BY <1>12 DEF CopyEnds
<1>13. CASE CloseFile(y) BY <1>13 DEF CloseFile
<1>14. CASE Discard(y) BY <1>14 DEF Discard
<1>15. CASE RemoveFile(y) BY <1>15 DEF RemoveFile
<1> QED
  BY <1>1, <1>2, <1>3, <1>4, <1>5, <1>6, <1>7, <1>8, <1>9, <1>10, <1>11, <1>12, <1>13, <1>14, <1>15
  DEF Extract

\* A place that is written becomes what is written there, the others stay.
LEMMA OneWrite ==
  ASSUME Types, NEW p \in Paths, NEW o, fs' = [fs EXCEPT ![p] = o], NEW q \in Paths
  PROVE  DOMAIN fs' = Paths /\ fs'[q] = IF q = p THEN o ELSE fs[q]
BY DEF Types

LEMMA ByteIsWritten ==
  ASSUME Types, NEW p \in Paths, fs[p].type = "file", fs' = [fs EXCEPT ![p].bytes = @ + 1]
  PROVE  fs' = [fs EXCEPT ![p] = File(fs[p].by, fs[p].entry, fs[p].bytes + 1)]
<1>1. fs[p] = File(fs[p].by, fs[p].entry, fs[p].bytes)
  BY ObjectKinds DEF Types
<1>2. [fs[p] EXCEPT !.bytes = @ + 1] = File(fs[p].by, fs[p].entry, fs[p].bytes + 1)
  BY <1>1 DEF File
<1> QED
  BY <1>2

LEMMA StepTouches == ASSUME Types, NEW y \in Extractions, Own(y), Extract(y) PROVE Touches(y)
<1>1. CASE fs' = fs
  BY <1>1 DEF Types, Touches
<1>2. CASE MakeDirectory(y) /\ fs' # fs
  <2>1. fs[Step(y)] = Nothing /\ fs' = [fs EXCEPT ![Step(y)] = Dir(y)] /\ Step(y) \in Paths
    BY <1>2, StepPlace DEF MakeDirectory, Own, Walking
  <2>2. IsObject(Dir(y)) /\ Dir(y).by = y
    BY NewObjects
  <2> QED
    BY <2>1, <2>2, OneWrite DEF Touches, Types
<1>3. CASE CreateFile(y) /\ fs' # fs
  <2>1. fs[Place(y)] = Nothing /\ fs' = [fs EXCEPT ![Place(y)] = File(y, next[y], 0)] /\ Place(y) \in Paths
    BY <1>3, PlaceFacts DEF CreateFile, Own, Writing
  <2>2. IsObject(File(y, next[y], 0)) /\ File(y, next[y], 0).by = y
    <3>1. next[y] \in Nat
      BY DEF Types
    <3>2. ASSUME NEW i \in Nat PROVE IsObject(File(y, i, 0)) /\ File(y, i, 0).by = y
      BY DEF IsObject, File, Owners
    <3> QED
      BY <3>1, <3>2
  <2> QED
    BY <2>1, <2>2, OneWrite DEF Touches, Types
<1>4. CASE (CopyByte(y) \/ RemoveFile(y)) /\ fs' # fs
  <2>1. /\ Place(y) \in Paths /\ fs[Place(y)].type = "file" /\ fs[Place(y)].by = y
        /\ fs[Place(y)].entry = next[y] /\ pc[y] \in {"copy", "remove"}
    BY <1>4, PlaceFacts DEF CopyByte, RemoveFile, Own, Writing, Owning, Writes, Owned
  <2>2. \/ fs' = [fs EXCEPT ![Place(y)] = Nothing]
        \/ fs' = [fs EXCEPT ![Place(y)] = File(fs[Place(y)].by, fs[Place(y)].entry, fs[Place(y)].bytes + 1)]
    BY <1>4, <2>1, ByteIsWritten DEF CopyByte, RemoveFile
  <2>3. fs[Place(y)].entry \in Nat /\ fs[Place(y)].bytes \in Nat
    BY <2>1, ObjectKinds DEF Types
  <2>4. IsObject(Nothing) /\ IsObject(File(y, next[y], fs[Place(y)].bytes + 1))
        /\ File(y, next[y], fs[Place(y)].bytes + 1).by = y
    BY <2>1, <2>3, NewObjects
  <2> QED
    BY <2>1, <2>2, <2>4, OneWrite DEF Touches, Types
<1> QED
  BY <1>1, <1>2, <1>3, <1>4
  DEF Extract, Begin, CheckDeclared, Enter, ExamineDirectory, OpenDirectory, ConfirmDirectory,
      Arrive, OpenEntry, CopyEnds, CloseFile, Discard

\* The files of an extraction, finitely many, are those of its archive.
LEMMA OwnedFinite ==
  ASSUME Types, NEW x \in Extractions, FilesRight(x)
  PROVE  IsFiniteSet(Owned(x)) /\ (\A p \in Owned(x) : Bytes[p] \in Nat)
<1>1. Owned(x) \subseteq {Below(Entry(x, i).path) : i \in 1 .. Count(x)}
  BY DEF FilesRight, FileAt
<1>2. IsFiniteSet({Below(Entry(x, i).path) : i \in 1 .. Count(x)})
  <2> DEFINE f == [i \in 1 .. Count(x) |-> Below(Entry(x, i).path)]
  <2>1. {f[i] : i \in 1 .. Count(x)} = {Below(Entry(x, i).path) : i \in 1 .. Count(x)}
    OBVIOUS
  <2>2. DOMAIN f = 1 .. Count(x) /\ f = [k \in 1 .. Count(x) |-> f[k]]
    OBVIOUS
  <2>3. Count(x) \in Nat
    BY ArchiveFacts
  <2> HIDE DEF f
  <2> QED
    BY <2>1, <2>2, <2>3, ImageBound
<1>3. \A p \in Owned(x) : Bytes[p] \in Nat
  BY ObjectKinds DEF Types, Owned, Bytes
<1> QED
  BY <1>1, <1>2, <1>3, FS_Subset

\* What one extraction does leaves the work of the others as it is.
LEMMA OthersKeep ==
  ASSUME Types, NEW y \in Extractions, NEW x \in Extractions, x # y, Own(x),
         Touches(y), Alone(y)
  PROVE  Own(x)'
<1>1. \A p \in Paths : fs[p].by = x \/ fs[p].type = "dir" => fs'[p] = fs[p]
  BY ZipAssumption DEF Touches, Nothing, ZipAssumption
<1>2. \A p \in Paths : fs'[p].by = x => fs'[p] = fs[p]
  BY ZipAssumption DEF Touches, Nothing, ZipAssumption
<1>3. /\ archive' = archive /\ stuck \subseteq stuck'
      /\ pc'[x] = pc[x] /\ next'[x] = next[x] /\ depth'[x] = depth[x]
      /\ total'[x] = total[x] /\ handles'[x] = handles[x] /\ result'[x] = result[x]
  BY DEF Alone
<1>4. /\ Count(x)' = Count(x) /\ \A i : Entry(x, i)' = Entry(x, i)
      /\ Opened(x)' = Opened(x) /\ Current(x)' = Current(x) /\ Place(x)' = Place(x)
      /\ Goal(x)' = Goal(x) /\ Start(x)' = Start(x) /\ Step(x)' = Step(x)
  BY <1>3 DEF Count, Entry, Opened, Current, Place, Goal, Start, Step
<1>5. Owned(x)' = Owned(x) /\ \A p \in Owned(x) : fs'[p] = fs[p]
  BY <1>1, <1>2 DEF Owned
<1>6. Control(x)'
  BY <1>3, <1>4 DEF Own, Control, HoldsExactly
<1>7. Walked(x)'
  <2>1. CASE pc[x] \in Walking
    <3>1. Step(x) \in Paths \/ ~(depth[x] < Goal(x))
      BY <2>1, StepPlace DEF Own
    <3>2. depth[x] > Start(x) => Up(Place(x), depth[x]) \in Paths
      <4>1. depth[x] \in 0 .. Len(Place(x))
        BY <2>1, PlaceFacts DEF Own, Types, Walked, Start
      <4> QED
        BY <2>1, <4>1, PlaceFacts, ZipAssumption DEF Own, ZipAssumption
    <3> QED
      BY <1>1, <1>3, <1>4, <2>1, <3>1, <3>2 DEF Own, Walked
  <2>2. CASE pc[x] \notin Walking
    BY <1>3, <2>2 DEF Walked
  <2> QED
    BY <2>1, <2>2
<1>8. FilesRight(x)'
  <2> SUFFICES ASSUME NEW p \in Owned(x) PROVE FileAt(x, p)'
    BY <1>5 DEF FilesRight
  <2>1. FileAt(x, p)
    BY DEF Own, FilesRight
  <2>2. fs'[p] = fs[p]
    BY <1>5
  <2> QED
    BY <1>3, <1>4, <2>1, <2>2 DEF FileAt
<1>9. Writes(x)'
  <2>1. pc[x] \in Owning => fs'[Place(x)] = fs[Place(x)]
    BY <1>5 DEF Own, Writes
  <2> QED
    BY <1>3, <1>4, <1>5, <2>1 DEF Own, Writes, AtEnd, Written, Owning
<1>10. Present(x)'
  <2>1. \A i \in 1 .. Count(x) : Below(Entry(x, i).path) \in Paths
    BY ArchiveFacts
  <2> QED
    BY <1>1, <1>3, <1>4, <2>1 DEF Own, Present
<1>11. MakesNamed(x)'
  BY <1>1, <1>2, <1>3, <1>4 DEF Own, MakesNamed, Made
<1>12. TotalIsSum(x)'
  <2>1. Finished(x)' = Finished(x)
    BY <1>3, <1>5 DEF Finished
  <2>2. IsFiniteSet(Finished(x)) /\ \A p \in Finished(x) : Bytes'[p] = Bytes[p]
    BY <1>5, OwnedFinite, FS_Subset DEF Own, Finished, Bytes, Owned
  <2>3. SumOf(Bytes', Finished(x)) = SumOf(Bytes, Finished(x))
    BY <2>2, SumSame
  <2> QED
    BY <1>3, <2>1, <2>3 DEF Own, TotalIsSum
<1> QED
  BY <1>6, <1>7, <1>8, <1>9, <1>10, <1>11, <1>12 DEF Own

-----------------------------------------------------------------------------
(* Every step of an extraction keeps its own invariant.                      *)

\* Types are kept by every step.
LEMMA StepTypes == ASSUME Types, NEW y \in Extractions, Own(y), Extract(y) PROVE Types'
<1>1. DOMAIN fs' = Paths /\ \A p \in Paths : IsObject(fs'[p])
  BY StepTouches DEF Touches
<1>2. archive' = archive
  BY StepIsAlone DEF Alone
<1>3. pc' \in [Extractions -> Labels]
  <2> USE DEF Types, Goto, Return, Labels, Working, Walking, Writing
  <2> QED
    BY DEF Extract, Begin, CheckDeclared, Enter, MakeDirectory, ExamineDirectory, OpenDirectory,
           ConfirmDirectory, Arrive, OpenEntry, CreateFile, CopyByte, CopyEnds, CloseFile, Discard, RemoveFile
<1>4. result' \in [Extractions -> {"none", "ok", "error"}]
  <2> USE DEF Types, Goto, Return, Labels, Working, Walking, Writing
  <2> QED
    BY DEF Extract, Begin, CheckDeclared, Enter, MakeDirectory, ExamineDirectory, OpenDirectory,
           ConfirmDirectory, Arrive, OpenEntry, CreateFile, CopyByte, CopyEnds, CloseFile, Discard, RemoveFile
<1>5. handles' \in [Extractions -> SUBSET Handles]
  <2>1. ASSUME NEW closed, NEW opened \in SUBSET Handles, Swap(y, closed, opened)
        PROVE  handles' \in [Extractions -> SUBSET Handles]
    BY <2>1 DEF Types, Swap
  <2>2. \A closed : \A opened \in SUBSET Handles :
          Swap(y, closed, opened) => handles' \in [Extractions -> SUBSET Handles]
    BY <2>1
  <2>3. \/ handles' = handles
        \/ \E closed : \E opened \in SUBSET Handles : Swap(y, closed, opened)
    BY DEF Return, Handles,
           Extract, Begin, CheckDeclared, Enter, MakeDirectory, ExamineDirectory, OpenDirectory,
           ConfirmDirectory, Arrive, OpenEntry, CreateFile, CopyByte, CopyEnds, CloseFile, Discard, RemoveFile
  <2> QED
    BY <2>2, <2>3 DEF Types
<1>6. next' \in [Extractions -> Nat] /\ depth' \in [Extractions -> Nat]
  <2>1. CASE Enter(y)
    <3>1. Len(Destination) \in Nat
      BY Joined, ZipAssumption DEF ZipAssumption
    <3> QED
      BY <2>1, <3>1 DEF Types, Enter
  <2>2. CASE ConfirmDirectory(y) \/ Arrive(y) \/ CloseFile(y)
    BY <2>2 DEF Types, ConfirmDirectory, Arrive, CloseFile
  <2>3. CASE next' = next /\ depth' = depth
    BY <2>3 DEF Types
  <2> QED
    BY <2>1, <2>2, <2>3 DEF Extract, Begin, CheckDeclared, MakeDirectory, ExamineDirectory,
       OpenDirectory, OpenEntry, CreateFile, CopyByte, CopyEnds, Discard, RemoveFile
<1>7. total' \in [Extractions -> Nat]
  <2>1. CASE CloseFile(y)
    <3>1. Written(y) \in Nat
      BY <2>1, ObjectKinds, PlaceFacts DEF CloseFile, Own, Types, Written, Writes, Owned, Owning, Writing
    <3> QED
      BY <2>1, <3>1 DEF CloseFile, Types
  <2> QED
    BY <2>1 DEF Types, Extract, Begin, CheckDeclared, Enter, MakeDirectory, ExamineDirectory,
       OpenDirectory, ConfirmDirectory, Arrive, OpenEntry, CreateFile, CopyByte, CopyEnds, Discard, RemoveFile
<1>8. stuck' \subseteq Paths
  <2>1. CASE RemoveFile(y)
    <3>1. Place(y) \in Paths
      BY <2>1, PlaceFacts DEF RemoveFile, Own, Writing
    <3> QED
      BY <2>1, <3>1 DEF RemoveFile, Types
  <2> QED
    BY <2>1 DEF Types, Extract, Begin, CheckDeclared, Enter, MakeDirectory, ExamineDirectory,
       OpenDirectory, ConfirmDirectory, Arrive, OpenEntry, CreateFile, CopyByte, CopyEnds, CloseFile, Discard
<1> QED
  BY <1>1, <1>2, <1>3, <1>4, <1>5, <1>6, <1>7, <1>8 DEF Types

\* Steps that only move an extraction on keep what it has put on disk in order.
LEMMA MovingKeeps ==
  ASSUME Types, NEW y \in Extractions, Own(y),
         UNCHANGED <<fs, archive, next, total, stuck>>,
         pc[y] # "done", pc'[y] \in Owning <=> pc[y] \in Owning
  PROVE  FilesRight(y)' /\ Present(y)' /\ MakesNamed(y)' /\ TotalIsSum(y)'
<1>1. Count(y)' = Count(y) /\ (\A i : Entry(y, i)' = Entry(y, i)) /\ Owned(y)' = Owned(y)
      /\ Finished(y)' = Finished(y) /\ Bytes' = Bytes
  BY DEF Count, Entry, Owned, Finished, Bytes
<1>2. FilesRight(y)'
  <2>1. ASSUME NEW p \in Owned(y) PROVE FileAt(y, p)'
    <3>1. FileAt(y, p)
      BY DEF Own, FilesRight
    <3> QED
      BY <1>1, <3>1 DEF FileAt
  <2> QED
    BY <1>1, <2>1 DEF FilesRight
<1>3. Present(y)'
  BY <1>1 DEF Own, Present
<1>4. MakesNamed(y)'
  BY <1>1 DEF Own, MakesNamed, Made
<1>5. TotalIsSum(y)'
  BY <1>1 DEF Own, TotalIsSum
<1> QED
  BY <1>2, <1>3, <1>4, <1>5

\* An extraction that returns with everything closed.
LEMMA ReturnKeeps ==
  ASSUME Types, NEW y \in Extractions, Own(y),
         NEW outcome \in {"ok", "error"}, NEW closed, Return(y, outcome, closed),
         pc[y] \notin Owning \cup {"done"},
         handles[y] \subseteq closed \cup {"archive", "destination"},
         outcome = "ok" => next[y] = Count(y) + 1,
         UNCHANGED <<fs, archive, next, total, stuck>>
  PROVE  Own(y)'

<1>1. pc'[y] = "done" /\ result'[y] = outcome /\ handles'[y] = {}
  BY DEF Return, Goto, Swap, Types
<1>2. FilesRight(y)' /\ Present(y)' /\ MakesNamed(y)' /\ TotalIsSum(y)'
  BY <1>1, MovingKeeps DEF Owning
<1>3. Control(y)'
  BY <1>1 DEF Own, Control, HoldsExactly, Walking, Writing, Working, Count
<1>4. Walked(y)' /\ Writes(y)'
  BY <1>1 DEF Walked, Writes, Walking, Owning
<1> QED
  BY <1>2, <1>3, <1>4 DEF Own

LEMMA BeginKeeps == ASSUME Types, NEW y \in Extractions, Own(y), Begin(y) PROVE Own(y)'
<1>1. CASE Return(y, "error", {})
  BY <1>1, ReturnKeeps DEF Begin, Own, Control, HoldsExactly, Owning
<1>2. CASE Goto(y, "preflight") /\ Swap(y, {}, {"archive"}) /\ UNCHANGED result
  <2>1. pc'[y] = "preflight" /\ handles'[y] = {"archive"} /\ pc[y] = "start"
    BY <1>2 DEF Begin, Goto, Swap, Types, Own, Control, HoldsExactly
  <2>2. FilesRight(y)' /\ Present(y)' /\ MakesNamed(y)' /\ TotalIsSum(y)'
    BY <2>1, MovingKeeps DEF Begin, Owning
  <2>3. Control(y)' /\ Walked(y)' /\ Writes(y)'
    BY <1>2, <2>1
    DEF Begin, Own, Control, HoldsExactly, Walked, Writes, Walking, Writing, Working, Owning, Count
  <2> QED
    BY <2>2, <2>3 DEF Own
<1> QED
  BY <1>1, <1>2 DEF Begin

LEMMA CheckDeclaredKeeps ==
  ASSUME Types, NEW y \in Extractions, Own(y), CheckDeclared(y) PROVE Own(y)'
<1>1. CASE Return(y, "error", {})
  BY <1>1, ReturnKeeps DEF CheckDeclared, Own, Control, HoldsExactly, Owning
<1>2. CASE Preflight(archive[y]) /\ Goto(y, "enter") /\ UNCHANGED <<handles, result>>
  <2>1. pc'[y] = "enter" /\ handles'[y] = {"archive"} /\ pc[y] = "preflight"
    BY <1>2 DEF CheckDeclared, Goto, Types, Own, Control, HoldsExactly
  <2>2. FilesRight(y)' /\ Present(y)' /\ MakesNamed(y)' /\ TotalIsSum(y)'
    BY <2>1, MovingKeeps DEF CheckDeclared, Owning
  <2>3. Preflight(archive[y])'
    BY <1>2, Zenon DEF CheckDeclared
  <2>4. Control(y)' /\ Walked(y)' /\ Writes(y)'
    BY <1>2, <2>1, <2>3
    DEF CheckDeclared, Own, Control, HoldsExactly, Walked, Writes, Walking, Writing, Working, Owning, Count
  <2> QED
    BY <2>2, <2>4 DEF Own
<1> QED
  BY <1>1, <1>2 DEF CheckDeclared

LEMMA EnterKeeps == ASSUME Types, NEW y \in Extractions, Own(y), Enter(y) PROVE Own(y)'
<1>0. /\ pc[y] = "enter" /\ pc[y] \notin Owning \cup {"done"}
      /\ UNCHANGED <<fs, archive, next, total, stuck>>
      /\ handles[y] \subseteq {"archive", "destination"}
  BY DEF Enter, Owning, Own, Control, HoldsExactly
<1>1. CASE Return(y, "error", {})
  BY <1>0, <1>1, ReturnKeeps
<1>2. CASE Opened(y) /\ next[y] > Len(archive[y]) /\ Return(y, "ok", {})
  <2>1. next[y] = Count(y) + 1
    BY <1>2, ArchiveFacts DEF Own, Control, Count, Types
  <2> QED
    BY <1>0, <1>2, <2>1, ReturnKeeps
<1>3. CASE /\ ~Opened(y) \/ next[y] <= Len(archive[y])
           /\ Swap(y, {}, {"current"}) /\ Goto(y, "walk")
           /\ depth' = [depth EXCEPT ![y] = IF Opened(y) THEN Len(Destination) ELSE 0]
           /\ UNCHANGED result
  <2>1. pc'[y] = "walk" /\ handles'[y] = handles[y] \cup {"current"} /\ depth'[y] = Start(y)
    BY <1>3 DEF Goto, Swap, Types, Start
  <2>2. handles'[y] \in {{"archive", "current"}, {"archive", "destination", "current"}}
    BY <1>0, <2>1 DEF Own, Control, HoldsExactly
  <2>3. Opened(y)' <=> Opened(y)
    BY <2>1 DEF Opened
  <2>4. FilesRight(y)' /\ Present(y)' /\ MakesNamed(y)' /\ TotalIsSum(y)'
    BY <1>0, <2>1, MovingKeeps DEF Owning
  <2>5. Preflight(archive[y])'
    BY <1>0 DEF Own, Control, Working
  <2>6. HoldsExactly(y)'
    BY <2>1, <2>2 DEF HoldsExactly
  <2>7. Control(y)'
    BY <1>0, <1>3, <2>1, <2>3, <2>5, <2>6 DEF Own, Control, Count, Walking, Writing, Working
  <2>8. Walked(y)'
    <3>1. Start(y)' = Start(y) /\ Start(y) \in Nat
      BY <2>3, Joined, ZipAssumption DEF Start, ZipAssumption
    <3>2. Goal(y)' = Goal(y)
      BY <1>0, <2>3 DEF Goal, Place, Current
    <3>3. Start(y) \in 0 .. Goal(y) /\ Goal(y) \in Nat
      <4>1. Opened(y) => next[y] \in 1 .. Count(y) /\ Preflight(archive[y])
        BY <1>0, <1>3, ArchiveFacts DEF Own, Control, Working, Count
      <4> QED
        BY <4>1, WalkFacts
    <3> QED
      BY <2>1, <3>1, <3>2, <3>3 DEF Walked, Walking
  <2>9. Writes(y)'
    BY <2>1 DEF Writes, Owning
  <2> QED
    BY <2>4, <2>7, <2>8, <2>9 DEF Own
<1> QED
  BY <1>1, <1>2, <1>3 DEF Enter

LEMMA MakeDirectoryKeeps ==
  ASSUME Types, NEW y \in Extractions, Own(y), MakeDirectory(y) PROVE Own(y)'
<1>1. /\ pc[y] = "walk" /\ depth[y] < Goal(y) /\ pc[y] \in Walking /\ pc[y] \notin Owning \cup {"done"}
      /\ UNCHANGED <<archive, next, depth, total, stuck>>
  BY DEF MakeDirectory, Walking, Owning
<1>2. CASE Return(y, "error", {"current"}) /\ UNCHANGED fs
  BY <1>1, <1>2, ReturnKeeps DEF Own, Control, HoldsExactly
<1>3. CASE /\ fs' = IF fs[Step(y)] = Nothing THEN [fs EXCEPT ![Step(y)] = Dir(y)] ELSE fs
           /\ Goto(y, "lstat") /\ UNCHANGED <<handles, result>>
  <2>1. Step(y) \in Paths /\ depth[y] + 1 \in 1 .. Goal(y)
    BY <1>1, StepPlace DEF Own
  <2>2. pc'[y] = "lstat"
    BY <1>3 DEF Goto, Types
  <2>3. \A p \in Paths : \/ fs'[p] = fs[p]
                         \/ p = Step(y) /\ fs[p] = Nothing /\ fs'[p] = Dir(y)
    BY <1>3, <2>1, OneWrite DEF Types
  <2>4. /\ Nothing.type = "nothing" /\ Nothing.by = Nobody /\ y # Nobody /\ Nobody \notin Extractions
        /\ Dir(y).type = "dir" /\ Dir(y).by = y
    BY NewObjects, ZipAssumption DEF ZipAssumption
  <2>5. /\ Count(y)' = Count(y) /\ \A i : Entry(y, i)' = Entry(y, i)
        /\ Opened(y)' = Opened(y) /\ Current(y)' = Current(y) /\ Place(y)' = Place(y)
        /\ Goal(y)' = Goal(y) /\ Start(y)' = Start(y) /\ Step(y)' = Step(y)
    BY <1>1, <1>3 DEF Count, Entry, Opened, Current, Place, Goal, Start, Step
  <2>6. Owned(y)' = Owned(y) /\ \A p \in Owned(y) : fs'[p] = fs[p]
    BY <2>3, <2>4 DEF Owned
  <2>7. Control(y)'
    BY <1>1, <1>3, <2>2, <2>5 DEF Own, Control, HoldsExactly, Walking, Writing, Working
  <2>8. Walked(y)'
    <3>1. depth[y] > Start(y) => Up(Place(y), depth[y]) \in Paths
      <4>1. depth[y] \in 0 .. Len(Place(y))
        BY <1>1, PlaceFacts DEF Own, Types, Walked
      <4> QED
        BY <1>1, <4>1, PlaceFacts, ZipAssumption DEF Own, ZipAssumption
    <3>2. depth[y] > Start(y) => fs'[Up(Place(y), depth[y])].type = "dir"
      BY <1>1, <2>3, <2>4, <3>1 DEF Own, Walked
    <3> QED
      BY <1>1, <2>2, <2>5, <3>2 DEF Own, Walked, Walking
  <2>9. FilesRight(y)'
    <3> SUFFICES ASSUME NEW p \in Owned(y) PROVE FileAt(y, p)'
      BY <2>6 DEF FilesRight
    <3>1. FileAt(y, p) /\ fs'[p] = fs[p]
      BY <2>6 DEF Own, FilesRight
    <3> QED
      BY <1>1, <2>5, <3>1 DEF FileAt
  <2>10. Writes(y)'
    BY <2>2 DEF Writes, Owning
  <2>11. Present(y)'
    <3>1. \A i \in 1 .. Count(y) : Below(Entry(y, i).path) \in Paths
      BY ArchiveFacts
    <3> QED
      BY <1>1, <2>3, <2>4, <2>5, <3>1 DEF Own, Present
  <2>12. MakesNamed(y)'
    <3>1. Preflight(archive[y])
      BY <1>1 DEF Own, Control, Working
    <3>2. Step(y) \in RootNames \/ \E i \in 1 .. Count(y) : Step(y) \in NamesOf(Entry(y, i))
      <4>1. CASE ~Opened(y)
        BY <1>1, <2>1, <4>1, PlaceFacts DEF Own, RootNames, Step
      <4>2. CASE Opened(y)
        <5>1. /\ next[y] \in 1 .. Count(y) /\ Place(y) = Below(Entry(y, next[y]).path)
              /\ Goal(y) = Len(Destination) + Directories(Entry(y, next[y])) /\ Len(Destination) \in Nat
              /\ Goal(y) \in Nat
          BY <1>1, <4>2, PlaceFacts DEF Own
        <5>2. depth[y] \in Len(Destination) .. Goal(y)
          BY <1>1, <4>2 DEF Own, Walked, Start
        <5>3. Directories(Entry(y, next[y])) \in Int
          BY <5>1, ArchiveFacts DEF Directories
        <5> DEFINE n == depth[y] + 1 - Len(Destination)
        <5>4. n \in 1 .. Directories(Entry(y, next[y])) /\ Len(Destination) + n = depth[y] + 1
          BY <1>1, <5>1, <5>2, <5>3
        <5>5. Step(y) = Up(Below(Entry(y, next[y]).path), Len(Destination) + n)
          BY <5>1, <5>4 DEF Step
        <5> HIDE DEF n
        <5>6. Step(y) \in NamesOf(Entry(y, next[y]))
          BY <5>4, <5>5, Zenon DEF NamesOf
        <5> QED
          BY <5>1, <5>6
      <4> QED
        BY <4>1, <4>2
    <3>3. ASSUME NEW p \in Paths, fs'[p].by = y
          PROVE  /\ Preflight(archive[y])'
                 /\ fs'[p].type = "dir" => p \in RootNames \/ \E i \in 1 .. Count(y)' : p \in NamesOf(Entry(y, i)')
      <4>1. CASE fs'[p] = fs[p]
        BY <1>1, <2>5, <3>1, <3>3, <4>1 DEF Own, MakesNamed, Made
      <4>2. CASE p = Step(y)
        BY <1>1, <2>5, <3>1, <3>2, <4>2
      <4> QED
        BY <2>3, <4>1, <4>2
    <3> QED
      BY <3>3 DEF MakesNamed, Made
  <2>13. TotalIsSum(y)'
    <3>1. Finished(y)' = Finished(y)
      BY <1>1, <2>6 DEF Finished
    <3>2. IsFiniteSet(Finished(y)) /\ \A p \in Finished(y) : Bytes'[p] = Bytes[p]
      BY <2>6, OwnedFinite, FS_Subset DEF Own, Finished, Bytes, Owned
    <3>3. SumOf(Bytes', Finished(y)) = SumOf(Bytes, Finished(y))
      BY <3>2, SumSame
    <3> QED
      BY <1>1, <3>1, <3>3 DEF Own, TotalIsSum
  <2> QED
    BY <2>7, <2>8, <2>9, <2>10, <2>11, <2>12, <2>13 DEF Own
<1> QED
  BY <1>2, <1>3 DEF MakeDirectory

LEMMA ExamineDirectoryKeeps ==
  ASSUME Types, NEW y \in Extractions, Own(y), ExamineDirectory(y) PROVE Own(y)'
<1>1. /\ pc[y] = "lstat" /\ pc[y] \in Walking /\ pc[y] \notin Owning \cup {"done"}
      /\ UNCHANGED <<fs, archive, next, depth, total, stuck>>
  BY DEF ExamineDirectory, Walking, Owning
<1>2. CASE Return(y, "error", {"current"})
  BY <1>1, <1>2, ReturnKeeps DEF Own, Control, HoldsExactly
<1>3. CASE fs[Step(y)].type = "dir" /\ Goto(y, "open") /\ UNCHANGED <<handles, result>>
  <2>1. pc'[y] = "open"
    BY <1>3 DEF Goto, Types
  <2>2. FilesRight(y)' /\ Present(y)' /\ MakesNamed(y)' /\ TotalIsSum(y)'
    BY <1>1, <2>1, MovingKeeps DEF Owning
  <2>3. /\ Opened(y)' = Opened(y) /\ Current(y)' = Current(y) /\ Place(y)' = Place(y)
        /\ Goal(y)' = Goal(y) /\ Start(y)' = Start(y) /\ Step(y)' = Step(y)
    BY <1>1, <1>3 DEF Opened, Current, Place, Goal, Start, Step
  <2>4. Control(y)'
    BY <1>1, <1>3, <2>1, <2>3 DEF Own, Control, HoldsExactly, Walking, Writing, Working, Count
  <2>5. Walked(y)'
    BY <1>1, <1>3, <2>1, <2>3 DEF Own, Walked, Walking
  <2>6. Writes(y)'
    BY <2>1 DEF Writes, Owning
  <2> QED
    BY <2>2, <2>4, <2>5, <2>6 DEF Own
<1> QED
  BY <1>2, <1>3 DEF ExamineDirectory

LEMMA OpenDirectoryKeeps ==
  ASSUME Types, NEW y \in Extractions, Own(y), OpenDirectory(y) PROVE Own(y)'
<1>1. /\ pc[y] = "open" /\ pc[y] \in Walking /\ pc[y] \notin Owning \cup {"done"}
      /\ UNCHANGED <<fs, archive, next, depth, total, stuck>>
  BY DEF OpenDirectory, Walking, Owning
<1>2. CASE Return(y, "error", {"current"})
  BY <1>1, <1>2, ReturnKeeps DEF Own, Control, HoldsExactly
<1>3. CASE Swap(y, {"current"}, {"child"}) /\ Goto(y, "confirm") /\ UNCHANGED result
  <2>1. pc'[y] = "confirm" /\ handles'[y] = (handles[y] \ {"current"}) \cup {"child"}
    BY <1>3 DEF Goto, Swap, Types
  <2>2. FilesRight(y)' /\ Present(y)' /\ MakesNamed(y)' /\ TotalIsSum(y)'
    BY <1>1, <2>1, MovingKeeps DEF Owning
  <2>3. /\ Opened(y)' = Opened(y) /\ Current(y)' = Current(y)
        /\ handles'[y] \in {{"archive", "child"}, {"archive", "destination", "child"}}
    BY <1>1, <1>3, <2>1 DEF Opened, Current, Own, Control, HoldsExactly
  <2>4. Place(y)' = Place(y) /\ Goal(y)' = Goal(y) /\ Start(y)' = Start(y) /\ Step(y)' = Step(y)
    BY <1>1, <2>3 DEF Place, Goal, Start, Step
  <2>5. Control(y)'
    BY <1>1, <1>3, <2>1, <2>3 DEF Own, Control, HoldsExactly, Walking, Writing, Working, Count
  <2>6. Walked(y)'
    BY <1>1, <1>3, <2>1, <2>4 DEF Own, Walked, Walking
  <2>7. Writes(y)'
    BY <2>1 DEF Writes, Owning
  <2> QED
    BY <2>2, <2>5, <2>6, <2>7 DEF Own
<1> QED
  BY <1>2, <1>3 DEF OpenDirectory

LEMMA ConfirmDirectoryKeeps ==
  ASSUME Types, NEW y \in Extractions, Own(y), ConfirmDirectory(y) PROVE Own(y)'
<1>1. /\ pc[y] = "confirm" /\ pc[y] \in Walking /\ pc[y] \notin Owning \cup {"done"}
      /\ UNCHANGED <<fs, archive, next, total, stuck>>
  BY DEF ConfirmDirectory, Walking, Owning
<1>2. CASE Return(y, "error", {"child"})
  BY <1>1, <1>2, ReturnKeeps DEF Own, Control, HoldsExactly
<1>3. CASE /\ Swap(y, {"child"}, {"current"}) /\ Goto(y, "walk")
           /\ depth' = [depth EXCEPT ![y] = @ + 1] /\ UNCHANGED result
  <2>1. pc'[y] = "walk" /\ handles'[y] = (handles[y] \ {"child"}) \cup {"current"} /\ depth'[y] = depth[y] + 1
    BY <1>3 DEF Goto, Swap, Types
  <2>2. FilesRight(y)' /\ Present(y)' /\ MakesNamed(y)' /\ TotalIsSum(y)'
    BY <1>1, <2>1, MovingKeeps DEF Owning
  <2>3. /\ Opened(y)' = Opened(y) /\ Current(y)' = Current(y)
        /\ handles'[y] \in {{"archive", "current"}, {"archive", "destination", "current"}}
    BY <1>1, <1>3, <2>1 DEF Opened, Current, Own, Control, HoldsExactly
  <2>4. Place(y)' = Place(y) /\ Goal(y)' = Goal(y) /\ Start(y)' = Start(y)
    BY <1>1, <2>3 DEF Place, Goal, Start
  <2>5. Control(y)'
    BY <1>1, <1>3, <2>1, <2>3 DEF Own, Control, HoldsExactly, Walking, Writing, Working, Count
  <2>6. Walked(y)'
    <3>1. depth[y] \in Start(y) .. Goal(y) /\ depth[y] < Goal(y) /\ fs[Step(y)].type = "dir"
      BY <1>1 DEF Own, Walked
    <3>2. Start(y) \in Nat /\ Goal(y) \in Nat
      BY <1>1, PlaceFacts DEF Own
    <3> QED
      BY <1>1, <2>1, <2>4, <3>1, <3>2 DEF Walked, Walking, Step
  <2>7. Writes(y)'
    BY <2>1 DEF Writes, Owning
  <2> QED
    BY <2>2, <2>5, <2>6, <2>7 DEF Own
<1> QED
  BY <1>2, <1>3 DEF ConfirmDirectory

LEMMA ArriveKeeps == ASSUME Types, NEW y \in Extractions, Own(y), Arrive(y) PROVE Own(y)'
<1>1. /\ pc[y] = "walk" /\ pc[y] \in Walking /\ pc[y] \notin Owning \cup {"done"} /\ depth[y] = Goal(y)
      /\ UNCHANGED <<fs, archive, depth, total, stuck>>
      /\ handles[y] \in {{"archive", "current"}, {"archive", "destination", "current"}}
  BY DEF Arrive, Walking, Owning, Own, Control, HoldsExactly
<1>2. CASE Return(y, "error", {"current"}) /\ UNCHANGED next
  BY <1>1, <1>2, ReturnKeeps
<1>3. CASE /\ ~Opened(y) /\ Swap(y, {"current"}, {"destination"}) /\ Goto(y, "enter")
           /\ UNCHANGED <<next, result>>
  <2>1. pc'[y] = "enter" /\ handles'[y] = {"archive", "destination"}
    BY <1>1, <1>3 DEF Goto, Swap, Types, Opened
  <2>2. FilesRight(y)' /\ Present(y)' /\ MakesNamed(y)' /\ TotalIsSum(y)'
    BY <1>1, <1>3, <2>1, MovingKeeps DEF Owning
  <2>3. Control(y)'
    BY <1>1, <1>3, <2>1 DEF Own, Control, HoldsExactly, Walking, Writing, Working, Count
  <2>4. Walked(y)' /\ Writes(y)'
    BY <2>1 DEF Walked, Writes, Walking, Owning
  <2> QED
    BY <2>2, <2>3, <2>4 DEF Own
<1>4. CASE /\ Opened(y) /\ Current(y).kind # "file"
           /\ Swap(y, {"current"}, {}) /\ Goto(y, "enter")
           /\ next' = [next EXCEPT ![y] = @ + 1] /\ UNCHANGED result
  <2>1. pc'[y] = "enter" /\ handles'[y] = {"archive", "destination"} /\ next'[y] = next[y] + 1
    BY <1>1, <1>4 DEF Goto, Swap, Types, Opened
  <2>2. next[y] \in 1 .. Count(y) /\ Current(y) = Entry(y, next[y]) /\ Count(y) \in Nat
    BY <1>1, <1>4, PlaceFacts, ArchiveFacts DEF Own
  <2>3. Count(y)' = Count(y) /\ (\A i : Entry(y, i)' = Entry(y, i)) /\ Owned(y)' = Owned(y) /\ Bytes' = Bytes
    BY <1>1 DEF Count, Entry, Owned, Bytes
  <2>4. \A p \in Owned(y) : fs[p].entry \in 1 .. Count(y) /\ fs[p].entry < next[y]
    <3>1. ASSUME NEW p \in Owned(y) PROVE fs[p].entry \in 1 .. Count(y) /\ fs[p].entry < next[y]
      <4>1. FileAt(y, p)
        BY DEF Own, FilesRight
      <4>2. fs[p].entry # next[y]
        BY <1>4, <2>2, <4>1 DEF FileAt
      <4> QED
        BY <2>2, <4>1, <4>2 DEF FileAt
    <3> QED
      BY <3>1
  <2>5. FilesRight(y)'
    <3>1. ASSUME NEW p \in Owned(y) PROVE FileAt(y, p)'
      <4>1. FileAt(y, p)
        BY DEF Own, FilesRight
      <4> QED
        BY <1>1, <2>1, <2>2, <2>3, <2>4, <4>1 DEF FileAt
    <3> QED
      BY <2>3, <3>1 DEF FilesRight
  <2>6. Present(y)'
    <3>1. fs[Below(Entry(y, next[y]).path)].type = "dir" /\ Entry(y, next[y]).kind # "file"
      <4>1. /\ depth[y] = Len(Place(y)) /\ Place(y) = Below(Entry(y, next[y]).path)
            /\ depth[y] > Start(y) /\ Place(y) \in Seq(STRING) /\ Len(Place(y)) \in 0 .. Len(Place(y))
        BY <1>1, <1>4, PlaceFacts DEF Own, Start
      <4>2. Up(Place(y), Len(Place(y))) = Place(y)
        BY <4>1, Prefixes
      <4> QED
        BY <1>1, <1>4, <2>2, <4>1, <4>2 DEF Own, Walked
    <3>2. ASSUME NEW i \in 1 .. Count(y), i < next[y] + 1, i # next[y] PROVE i < next[y]
      BY <2>2, <3>2
    <3> QED
      BY <1>1, <2>1, <2>2, <2>3, <3>1, <3>2 DEF Own, Present
  <2>7. MakesNamed(y)'
    BY <1>1, <2>3 DEF Own, MakesNamed, Made
  <2>8. TotalIsSum(y)'
    <3>1. Finished(y)' = Finished(y)
      BY <1>1, <2>1, <2>2, <2>3, <2>4 DEF Finished
    <3> QED
      BY <1>1, <2>3, <3>1 DEF Own, TotalIsSum
  <2>9. Control(y)'
    BY <1>1, <1>4, <2>1, <2>2, <2>3 DEF Own, Control, HoldsExactly, Walking, Writing, Working
  <2>10. Walked(y)' /\ Writes(y)'
    BY <2>1 DEF Walked, Writes, Walking, Owning
  <2> QED
    BY <2>5, <2>6, <2>7, <2>8, <2>9, <2>10 DEF Own
<1>5. CASE /\ Opened(y) /\ Current(y).kind = "file"
           /\ Swap(y, {"current"}, {"parent"}) /\ Goto(y, "source")
           /\ UNCHANGED <<next, result>>
  <2>1. pc'[y] = "source" /\ handles'[y] = {"archive", "destination", "parent"}
    BY <1>1, <1>5 DEF Goto, Swap, Types, Opened
  <2>2. FilesRight(y)' /\ Present(y)' /\ MakesNamed(y)' /\ TotalIsSum(y)'
    BY <1>1, <1>5, <2>1, MovingKeeps DEF Owning
  <2>3. Control(y)'
    BY <1>1, <1>5, <2>1 DEF Own, Control, HoldsExactly, Walking, Writing, Working, Count, Current
  <2>4. Walked(y)' /\ Writes(y)'
    BY <2>1 DEF Walked, Writes, Walking, Owning
  <2> QED
    BY <2>2, <2>3, <2>4 DEF Own
<1> QED
  BY <1>2, <1>3, <1>4, <1>5 DEF Arrive

LEMMA OpenEntryKeeps == ASSUME Types, NEW y \in Extractions, Own(y), OpenEntry(y) PROVE Own(y)'
<1>1. /\ pc[y] = "source" /\ pc[y] \notin Owning \cup {"done"}
      /\ UNCHANGED <<fs, archive, next, depth, total, stuck>>
      /\ handles[y] = {"archive", "destination", "parent"}
  BY DEF OpenEntry, Owning, Own, Control, HoldsExactly
<1>2. CASE Return(y, "error", {"parent"})
  BY <1>1, <1>2, ReturnKeeps
<1>3. CASE Swap(y, {}, {"source"}) /\ Goto(y, "create") /\ UNCHANGED result
  <2>1. pc'[y] = "create" /\ handles'[y] = {"archive", "destination", "parent", "source"}
    BY <1>1, <1>3 DEF Goto, Swap, Types
  <2>2. FilesRight(y)' /\ Present(y)' /\ MakesNamed(y)' /\ TotalIsSum(y)'
    BY <1>1, <2>1, MovingKeeps DEF Owning
  <2>3. Control(y)'
    BY <1>1, <1>3, <2>1 DEF Own, Control, HoldsExactly, Walking, Writing, Working, Count, Current
  <2>4. Walked(y)' /\ Writes(y)'
    BY <2>1 DEF Walked, Writes, Walking, Owning
  <2> QED
    BY <2>2, <2>3, <2>4 DEF Own
<1> QED
  BY <1>2, <1>3 DEF OpenEntry

\* The copy is over, well or not, or the file is closed to be removed.
LEMMA EndingKeeps ==
  ASSUME Types, NEW y \in Extractions, Own(y),
         \/ CopyEnds(y) \/ Discard(y)
         \/ CloseFile(y) /\ Swap(y, {"output"}, {}) /\ Goto(y, "remove") /\ UNCHANGED <<next, total>>
  PROVE  Own(y)'
<1>1. /\ pc[y] \in {"copy", "discard", "close"}
      /\ UNCHANGED <<fs, archive, next, depth, total, stuck, result>>
      /\ \/ pc'[y] \in {"discard", "close"} /\ handles'[y] = handles[y]
         \/ pc'[y] = "remove" /\ handles'[y] = handles[y] \ {"output"}
      /\ pc'[y] = "close" => AtEnd(y)
  BY DEF CopyEnds, Discard, CloseFile, Goto, Swap, Types
<1>2. pc'[y] \in Owning /\ pc[y] \in Owning /\ Opened(y) /\ pc[y] # "done"
      /\ handles[y] = {"archive", "destination", "parent", "source", "output"}
  BY <1>1 DEF Owning, Opened, Own, Control, HoldsExactly
<1>3. /\ pc'[y] = "remove" => handles'[y] = {"archive", "destination", "parent", "source"}
      /\ pc'[y] \in {"discard", "close"} => handles'[y] = {"archive", "destination", "parent", "source", "output"}
      /\ Opened(y)'
  BY <1>1, <1>2 DEF Opened
<1>4. FilesRight(y)' /\ Present(y)' /\ MakesNamed(y)' /\ TotalIsSum(y)'
  BY <1>1, <1>2, MovingKeeps
<1>5. Current(y)' = Current(y) /\ Place(y)' = Place(y) /\ Owned(y)' = Owned(y) /\ Count(y)' = Count(y)
  BY <1>1, <1>2, <1>3 DEF Current, Place, Owned, Count
<1>6. Control(y)'
  BY <1>1, <1>2, <1>3, <1>5 DEF Own, Control, HoldsExactly, Walking, Writing, Working, Owning
<1>7. Walked(y)'
  BY <1>1 DEF Walked, Walking
<1>8. Writes(y)'
  BY <1>1, <1>2, <1>5 DEF Own, Writes, AtEnd, Written
<1> QED
  BY <1>4, <1>6, <1>7, <1>8 DEF Own

\* The place an extraction writes at is its current entry's; its other files are
\* those of finished entries.
LEMMA AtPlace ==
  ASSUME Types, NEW y \in Extractions, Own(y), pc[y] \in Writing
  PROVE  /\ Place(y) \in Paths /\ next[y] \in 1 .. Count(y) /\ Count(y) \in Nat
         /\ Current(y) = Entry(y, next[y])
         /\ Current(y).kind = "file" /\ Place(y) = Below(Entry(y, next[y]).path) /\ Opened(y)
         /\ Current(y).actual \in Nat
         /\ \A p \in Owned(y) : /\ FileAt(y, p) /\ fs[p].entry \in 1 .. Count(y) /\ fs[p].entry <= next[y]
                                /\ p # Place(y) => fs[p].entry < next[y]
                                /\ pc[y] \notin Owning => fs[p].entry < next[y]
         /\ \A i \in 1 .. Count(y) : Below(Entry(y, i).path) \in Paths
         /\ total[y] \in Nat /\ total[y] <= MaxTotalBytes /\ MaxTotalBytes \in Nat /\ MaxEntryBytes \in Nat
         /\ Preflight(archive[y])
<1>1. /\ Place(y) \in Paths /\ next[y] \in 1 .. Count(y) /\ Current(y) = Entry(y, next[y])
      /\ Place(y) = Below(Entry(y, next[y]).path) /\ Opened(y)
  BY PlaceFacts DEF Own
<1>2. Current(y).kind = "file" /\ Preflight(archive[y])
  BY DEF Own, Control, Working
<1>3. Count(y) \in Nat /\ Current(y).actual \in Nat /\ \A i \in 1 .. Count(y) : Below(Entry(y, i).path) \in Paths
  BY <1>1, ArchiveFacts
<1>4. ASSUME NEW p \in Owned(y)
      PROVE  /\ FileAt(y, p) /\ fs[p].entry \in 1 .. Count(y) /\ fs[p].entry <= next[y]
             /\ p # Place(y) => fs[p].entry < next[y]
             /\ pc[y] \notin Owning => fs[p].entry < next[y]
  <2>1. FileAt(y, p)
    BY DEF Own, FilesRight
  <2>2. pc[y] # "done"
    BY DEF Writing
  <2> QED
    BY <1>1, <1>3, <2>1, <2>2 DEF FileAt
<1>5. total[y] \in Nat /\ total[y] <= MaxTotalBytes /\ MaxTotalBytes \in Nat /\ MaxEntryBytes \in Nat
  BY ZipAssumption DEF ZipAssumption, Own, TotalIsSum, Types
<1> QED
  BY <1>1, <1>2, <1>3, <1>4, <1>5

LEMMA CreateFileKeeps == ASSUME Types, NEW y \in Extractions, Own(y), CreateFile(y) PROVE Own(y)'
<1>1. /\ pc[y] = "create" /\ pc[y] \notin Owning \cup {"done"} /\ pc[y] \in Writing
      /\ UNCHANGED <<archive, next, depth, total, stuck>>
      /\ handles[y] = {"archive", "destination", "parent", "source"}
  BY DEF CreateFile, Owning, Own, Control, HoldsExactly, Writing
<1>2. CASE Return(y, "error", {"source", "parent"}) /\ UNCHANGED fs
  BY <1>1, <1>2, ReturnKeeps
<1>3. CASE /\ fs[Place(y)] = Nothing
           /\ fs' = [fs EXCEPT ![Place(y)] = File(y, next[y], 0)]
           /\ Swap(y, {}, {"output"}) /\ Goto(y, "copy") /\ UNCHANGED result
  <2> DEFINE p0 == Place(y)
  <2>1. /\ pc'[y] = "copy"
        /\ handles'[y] = {"archive", "destination", "parent", "source", "output"}
    BY <1>1, <1>3 DEF Goto, Swap, Types
  <2>2. /\ fs'[p0] = File(y, next[y], 0) /\ \A p \in Paths : p # p0 => fs'[p] = fs[p]
        /\ fs[p0] = Nothing
    BY <1>1, <1>3, AtPlace, OneWrite
  <2>3. /\ Opened(y)' /\ Current(y)' = Current(y) /\ Place(y)' = Place(y)
        /\ Count(y)' = Count(y) /\ \A i : Entry(y, i)' = Entry(y, i)
    BY <1>1, <2>1, AtPlace DEF Opened, Current, Place, Count, Entry
  <2>4. /\ File(y, next[y], 0).type = "file" /\ File(y, next[y], 0).by = y
        /\ File(y, next[y], 0).entry = next[y] /\ File(y, next[y], 0).bytes = 0
        /\ Nothing.type = "nothing" /\ Nothing.by = Nobody /\ y # Nobody
    BY ZipAssumption DEF File, Nothing, ZipAssumption
  <2>5. Owned(y)' = Owned(y) \cup {p0} /\ p0 \notin Owned(y)
    BY <1>1, <2>2, <2>4, AtPlace DEF Owned
  <2>6. Control(y)'
    BY <1>1, <1>3, <2>1, <2>3 DEF Own, Control, HoldsExactly, Walking, Writing, Working
  <2>7. Walked(y)'
    BY <2>1 DEF Walked, Walking
  <2>8. Writes(y)'
    BY <1>1, <2>1, <2>2, <2>3, <2>4, <2>5 DEF Writes
  <2>9. FilesRight(y)'
    <3>1. ASSUME NEW p \in Owned(y) PROVE FileAt(y, p)'
      <4>1. FileAt(y, p) /\ fs[p].entry \in 1 .. Count(y) /\ fs[p].entry < next[y] /\ p \in Paths /\ p # p0
        BY <1>1, <2>5, AtPlace DEF Owned
      <4>2. next[y] \in 1 .. Count(y) /\ Count(y) \in Nat
        BY <1>1, AtPlace
      <4> HIDE DEF p0
      <4> QED
        BY <1>1, <2>2, <2>3, <4>1, <4>2 DEF FileAt
    <3>2. FileAt(y, p0)'
      BY <1>1, <2>1, <2>2, <2>3, <2>4, AtPlace DEF FileAt, Owning
    <3> QED
      BY <2>3, <2>5, <3>1, <3>2 DEF FilesRight
  <2>10. Present(y)'
    BY <1>1, <2>2, <2>3, <2>4, AtPlace DEF Own, Present
  <2>11. MakesNamed(y)'
    <3>1. ASSUME NEW p \in Paths, fs'[p].by = y
          PROVE  /\ Preflight(archive[y])'
                 /\ fs'[p].type = "dir" => p \in RootNames \/ \E i \in 1 .. Count(y)' : p \in NamesOf(Entry(y, i)')
      <4>1. CASE p # p0
        <5>1. fs'[p] = fs[p]
          BY <2>2, <4>1
        <5> QED
          BY <1>1, <2>3, <3>1, <5>1, AtPlace DEF Own, MakesNamed, Made
      <4>2. CASE p = p0
        BY <1>1, <2>2, <2>4, <4>2, AtPlace
      <4> QED
        BY <4>1, <4>2
    <3> QED
      BY <3>1 DEF MakesNamed, Made
  <2>12. TotalIsSum(y)'
    <3>1. Finished(y)' = Finished(y) /\ p0 \notin Finished(y)
      <4>1. \A p \in Owned(y) : fs'[p] = fs[p]
        BY <2>2, <2>5 DEF Owned
      <4>2. ~(fs'[p0].entry < next[y])
        BY <1>1, <2>2, <2>4, AtPlace
      <4> HIDE DEF p0
      <4> QED
        BY <1>1, <2>5, <4>1, <4>2 DEF Finished
    <3>2. IsFiniteSet(Finished(y)) /\ \A p \in Finished(y) : Bytes'[p] = Bytes[p]
      BY <2>2, <3>1, OwnedFinite, FS_Subset DEF Own, Finished, Bytes, Owned
    <3>3. SumOf(Bytes', Finished(y)) = SumOf(Bytes, Finished(y))
      BY <3>2, SumSame
    <3> QED
      BY <1>1, <3>1, <3>3 DEF Own, TotalIsSum
  <2> QED
    BY <2>6, <2>7, <2>8, <2>9, <2>10, <2>11, <2>12 DEF Own
<1> QED
  BY <1>2, <1>3 DEF CreateFile

LEMMA CopyByteKeeps == ASSUME Types, NEW y \in Extractions, Own(y), CopyByte(y) PROVE Own(y)'
<1> DEFINE p0 == Place(y)
           n == fs[p0].bytes
<1>1. /\ pc[y] = "copy" /\ pc[y] \in Owning /\ pc[y] \in Writing
      /\ UNCHANGED <<archive, pc, next, depth, total, handles, stuck, result>>
  BY DEF CopyByte, Owning, Writing
<1>2. p0 \in Owned(y) /\ fs[p0].entry = next[y] /\ fs[p0].by = y /\ fs[p0].type = "file" /\ n \in Nat
  BY <1>1, ObjectKinds DEF Own, Writes, Owned, Types
<1>3. fs' = [fs EXCEPT ![p0] = File(y, next[y], n + 1)]
  BY <1>1, <1>2, AtPlace, ByteIsWritten DEF CopyByte
<1>4. fs'[p0] = File(y, next[y], n + 1) /\ \A p \in Paths : p # p0 => fs'[p] = fs[p]
  BY <1>1, <1>3, AtPlace, OneWrite
<1>5. fs'[p0].type = "file" /\ fs'[p0].by = y /\ fs'[p0].entry = next[y] /\ fs'[p0].bytes = n + 1
  BY <1>4 DEF File
<1>6. /\ Opened(y)' = Opened(y) /\ Current(y)' = Current(y) /\ Place(y)' = Place(y)
      /\ Count(y)' = Count(y) /\ \A i : Entry(y, i)' = Entry(y, i)
  BY <1>1 DEF Opened, Current, Place, Count, Entry
<1>7. Owned(y)' = Owned(y)
  BY <1>2, <1>4, <1>5 DEF Owned
<1>8. n + 1 <= Current(y).actual /\ n + 1 <= MaxEntryBytes /\ total[y] + n + 1 <= MaxTotalBytes
  <2>1. n < Current(y).actual /\ n < Remaining(y)
    BY DEF CopyByte, Written
  <2> QED
    BY <1>1, <1>2, <2>1, AtPlace DEF Remaining
<1>9. Control(y)'
  BY <1>1, <1>6 DEF Own, Control, HoldsExactly
<1>10. Walked(y)'
  BY <1>1 DEF Walked, Walking
<1>11. Writes(y)'
  BY <1>1, <1>2, <1>5, <1>6, <1>7 DEF Writes
<1>12. FilesRight(y)'
  <2>1. ASSUME NEW p \in Owned(y), p # p0 PROVE FileAt(y, p)'
    <3>1. FileAt(y, p) /\ fs'[p] = fs[p]
      BY <1>1, <1>4, <2>1, AtPlace DEF Owned
    <3> QED
      BY <1>1, <1>6, <3>1 DEF FileAt
  <2>2. FileAt(y, p0)'
    <3>1. FileAt(y, p0)
      BY <1>1, <1>2, AtPlace
    <3> QED
      BY <1>1, <1>2, <1>5, <1>6, <1>8, <3>1, AtPlace DEF FileAt
  <2> QED
    BY <1>6, <1>7, <2>1, <2>2 DEF FilesRight
<1>13. Present(y)'
  <2>1. \A p \in Paths : fs'[p].type = fs[p].type /\ fs'[p].by = fs[p].by /\ fs'[p].entry = fs[p].entry
    BY <1>2, <1>4, <1>5
  <2> QED
    BY <1>1, <1>6, <2>1, AtPlace DEF Own, Present
<1>14. MakesNamed(y)'
  <2>1. \A p \in Paths : fs'[p].type = fs[p].type /\ fs'[p].by = fs[p].by
    BY <1>2, <1>4, <1>5
  <2> QED
    BY <1>1, <1>6, <2>1 DEF Own, MakesNamed, Made
<1>15. TotalIsSum(y)'
  <2>1. Finished(y)' = Finished(y) /\ p0 \notin Finished(y)
    <3>1. \A p \in Owned(y) : fs'[p].entry = fs[p].entry
      BY <1>2, <1>4, <1>5 DEF Owned
    <3>2. ~(fs[p0].entry < next[y])
      BY <1>1, <1>2, AtPlace
    <3> HIDE DEF p0
    <3> QED
      BY <1>1, <1>7, <3>1, <3>2 DEF Finished
  <2>2. IsFiniteSet(Finished(y)) /\ \A p \in Finished(y) : Bytes'[p] = Bytes[p]
    BY <1>4, <2>1, OwnedFinite, FS_Subset DEF Own, Finished, Bytes, Owned
  <2>3. SumOf(Bytes', Finished(y)) = SumOf(Bytes, Finished(y))
    BY <2>2, SumSame
  <2> QED
    BY <1>1, <2>1, <2>3 DEF Own, TotalIsSum
<1> QED
  BY <1>9, <1>10, <1>11, <1>12, <1>13, <1>14, <1>15 DEF Own

\* A file that is closed well is finished: it counts from now on.
LEMMA CloseFileKeeps ==
  ASSUME Types, NEW y \in Extractions, Own(y), CloseFile(y),
         Swap(y, {"output", "source", "parent"}, {}), Goto(y, "enter"),
         next' = [next EXCEPT ![y] = @ + 1], total' = [total EXCEPT ![y] = @ + Written(y)]
  PROVE  Own(y)'
<1> DEFINE p0 == Place(y)
           n == fs[p0].bytes
<1>1. /\ pc[y] = "close" /\ pc[y] \in Owning /\ pc[y] \in Writing
      /\ UNCHANGED <<fs, archive, depth, stuck, result>>
      /\ pc'[y] = "enter" /\ next'[y] = next[y] + 1 /\ total'[y] = total[y] + n
      /\ handles'[y] = handles[y] \ {"output", "source", "parent"}
      /\ handles[y] = {"archive", "destination", "parent", "source", "output"}
  BY DEF CloseFile, Owning, Writing, Goto, Swap, Types, Written, Own, Control, HoldsExactly
<1>2. handles'[y] = {"archive", "destination"}
  BY <1>1
<1>3. p0 \in Owned(y) /\ fs[p0].entry = next[y] /\ fs[p0].by = y /\ fs[p0].type = "file" /\ n \in Nat
  BY <1>1, ObjectKinds DEF Own, Writes, Owned, Types
<1>4. /\ Count(y)' = Count(y) /\ (\A i : Entry(y, i)' = Entry(y, i))
      /\ Owned(y)' = Owned(y) /\ Bytes' = Bytes
  BY <1>1 DEF Count, Entry, Owned, Bytes
<1>5. n = Current(y).actual /\ Current(y).sound /\ total[y] + n <= MaxTotalBytes
  <2>1. FileAt(y, p0) /\ AtEnd(y)
    BY <1>1, <1>3, AtPlace DEF Own, Writes
  <2> QED
    BY <1>3, <2>1 DEF FileAt, AtEnd, Written
<1>6. Control(y)'
  BY <1>1, <1>2, <1>4, AtPlace DEF Own, Control, HoldsExactly, Walking, Writing, Working
<1>7. Walked(y)' /\ Writes(y)'
  BY <1>1 DEF Walked, Walking, Writes, Owning
<1>8. FilesRight(y)'
  <2>1. ASSUME NEW p \in Owned(y) PROVE FileAt(y, p)'
    <3>1. FileAt(y, p) /\ fs[p].entry <= next[y] /\ fs[p].entry \in 1 .. Count(y)
          /\ (p # p0 => fs[p].entry < next[y]) /\ next[y] \in 1 .. Count(y) /\ Count(y) \in Nat
      BY <1>1, AtPlace
    <3>2. fs[p].bytes = Entry(y, fs[p].entry).actual /\ Entry(y, fs[p].entry).sound
      BY <1>1, <1>3, <1>5, <3>1, AtPlace DEF FileAt
    <3> QED
      BY <1>1, <1>4, <3>1, <3>2 DEF FileAt
  <2> QED
    BY <1>4, <2>1 DEF FilesRight
<1>9. Present(y)'
  <2>1. ASSUME NEW i \in 1 .. Count(y), i < next[y] + 1, i # next[y] PROVE i < next[y]
    BY <1>1, <2>1, AtPlace
  <2>2. Entry(y, next[y]).kind = "file" /\ Below(Entry(y, next[y]).path) = p0
    BY <1>1, AtPlace
  <2> QED
    BY <1>1, <1>3, <1>4, <2>1, <2>2 DEF Own, Present
<1>10. MakesNamed(y)'
  BY <1>1, <1>4 DEF Own, MakesNamed, Made
<1>11. TotalIsSum(y)'
  <2>1. Finished(y)' = Finished(y) \cup {p0} /\ p0 \notin Finished(y)
    <3>1. \A p \in Owned(y) : fs[p].entry < next[y] + 1 <=> (p = p0 \/ fs[p].entry < next[y])
      BY <1>1, <1>3, AtPlace
    <3>2. ~(fs[p0].entry < next[y])
      BY <1>1, <1>3, AtPlace
    <3> HIDE DEF p0
    <3> QED
      BY <1>1, <1>3, <1>4, <3>1, <3>2 DEF Finished
  <2>2. IsFiniteSet(Finished(y) \cup {p0}) /\ \A p \in Finished(y) \cup {p0} : Bytes[p] \in Nat
    <3>1. Finished(y) \cup {p0} \in SUBSET Owned(y)
      BY <1>3 DEF Finished
    <3> HIDE DEF p0
    <3> QED
      BY <3>1, OwnedFinite, FS_Subset DEF Own
  <2>3. SumOf(Bytes, Finished(y) \cup {p0}) = Bytes[p0] + SumOf(Bytes, (Finished(y) \cup {p0}) \ {p0})
    <3> HIDE DEF p0
    <3> QED
      BY <2>2, SumWithout
  <2>4. (Finished(y) \cup {p0}) \ {p0} = Finished(y)
    BY <2>1
  <2>5. Bytes[p0] = n
    BY <1>3 DEF Bytes, Owned
  <2>6. total[y] = SumOf(Bytes, Finished(y))
    BY DEF Own, TotalIsSum
  <2> HIDE DEF p0, n
  <2>7. SumOf(Bytes, Finished(y) \cup {p0}) = total'[y]
    <3>1. SumOf(Bytes, Finished(y) \cup {p0}) = n + total[y]
      BY <2>3, <2>4, <2>5, <2>6, Zenon
    <3>2. n + total[y] = total[y] + n
      BY <1>1, <1>3, AtPlace
    <3> QED
      BY <1>1, <3>1, <3>2
  <2> QED
    BY <1>1, <1>4, <1>5, <2>1, <2>7 DEF TotalIsSum
<1> QED
  BY <1>6, <1>7, <1>8, <1>9, <1>10, <1>11 DEF Own

LEMMA RemoveFileKeeps == ASSUME Types, NEW y \in Extractions, Own(y), RemoveFile(y) PROVE Own(y)'
<1> DEFINE p0 == Place(y)
<1>1. /\ pc[y] = "remove" /\ pc[y] \in Owning /\ pc[y] \in Writing
      /\ UNCHANGED <<archive, next, depth, total>>
      /\ handles[y] = {"archive", "destination", "parent", "source"}
      /\ pc'[y] = "done" /\ result'[y] = "error"
      /\ handles'[y] = handles[y] \ ({"source", "parent"} \cup {"archive", "destination"})
  BY DEF RemoveFile, Owning, Writing, Return, Goto, Swap, Types, Own, Control, HoldsExactly
<1>2. handles'[y] = {}
  BY <1>1
<1>3. p0 \in Owned(y) /\ fs[p0].entry = next[y] /\ fs[p0].by = y /\ fs[p0].type = "file"
  BY <1>1 DEF Own, Writes, Owned
<1>4. /\ \A p \in Paths : p # p0 => fs'[p] = fs[p]
      /\ fs'[p0] = Nothing \/ (fs'[p0] = fs[p0] /\ p0 \in stuck')
      /\ stuck \subseteq stuck'
  BY <1>1, AtPlace, OneWrite DEF RemoveFile
<1>5. Count(y)' = Count(y) /\ (\A i : Entry(y, i)' = Entry(y, i))
  BY <1>1 DEF Count, Entry
<1>6. Nothing.type = "nothing" /\ Nothing.by = Nobody /\ y # Nobody
  BY ZipAssumption DEF Nothing, ZipAssumption
<1>7. Owned(y)' \subseteq Owned(y) /\ (\A p \in Owned(y) : p # p0 => p \in Owned(y)')
      /\ (p0 \in Owned(y)' => p0 \in stuck' /\ fs'[p0] = fs[p0]) /\ \A p \in Owned(y)' : fs'[p] = fs[p]
  BY <1>3, <1>4, <1>6 DEF Owned
<1>8. Control(y)'
  BY <1>1, <1>2, <1>5 DEF Own, Control, HoldsExactly, Walking, Writing, Working
<1>9. Walked(y)' /\ Writes(y)'
  BY <1>1 DEF Walked, Walking, Writes, Owning
<1>10. FilesRight(y)'
  <2>1. ASSUME NEW p \in Owned(y)' PROVE FileAt(y, p)'
    <3>1. p \in Owned(y) /\ fs'[p] = fs[p]
      BY <1>7
    <3>2. /\ FileAt(y, p) /\ (p # p0 => fs[p].entry < next[y]) /\ fs[p].entry <= next[y]
          /\ next[y] \in 1 .. Count(y) /\ Count(y) \in Nat /\ fs[p].entry \in 1 .. Count(y)
      BY <1>1, <3>1, AtPlace
    <3>3. p = p0 => p \in stuck'
      BY <1>7
    <3> HIDE DEF p0
    <3> QED
      BY <1>1, <1>5, <3>1, <3>2, <3>3 DEF FileAt
  <2> QED
    BY <2>1 DEF FilesRight
<1>11. Present(y)'
  <2>1. ASSUME NEW i \in 1 .. Count(y), i < next[y]
        PROVE  fs'[Below(Entry(y, i).path)] = fs[Below(Entry(y, i).path)]
    <3>1. next[y] \in Nat /\ Below(Entry(y, i).path) \in Paths
      BY <1>1, AtPlace
    <3>2. Below(Entry(y, i).path) # p0
      BY <1>3, <2>1, <3>1 DEF Own, Present
    <3> QED
      BY <1>4, <3>1, <3>2
  <2> QED
    BY <1>1, <1>5, <2>1 DEF Own, Present
<1>12. MakesNamed(y)'
  <2>1. \A p \in Paths : fs'[p].by = y => fs'[p] = fs[p]
    BY <1>4, <1>6
  <2> QED
    BY <1>1, <1>5, <2>1 DEF Own, MakesNamed, Made
<1>13. TotalIsSum(y)'
  <2>1. Finished(y)' = Finished(y)
    <3>1. ~(fs[p0].entry < next[y])
      BY <1>1, <1>3, AtPlace
    <3> HIDE DEF p0
    <3> QED
      BY <1>1, <1>7, <3>1 DEF Finished
  <2>2. \A p \in Finished(y) : p # p0
    BY <1>1, <1>3, AtPlace DEF Finished
  <2>3. IsFiniteSet(Finished(y)) /\ \A p \in Finished(y) : Bytes'[p] = Bytes[p]
    BY <1>4, <2>2, OwnedFinite, FS_Subset DEF Own, Finished, Bytes, Owned
  <2>4. SumOf(Bytes', Finished(y)) = SumOf(Bytes, Finished(y))
    BY <2>3, SumSame
  <2> QED
    BY <1>1, <2>1, <2>4 DEF Own, TotalIsSum
<1> QED
  BY <1>8, <1>9, <1>10, <1>11, <1>12, <1>13 DEF Own

-----------------------------------------------------------------------------
(* The invariant holds.                                                      *)

LEMMA InitIInv == Init => IInv
<1> SUFFICES ASSUME Init PROVE IInv
  OBVIOUS
<1>1. \A p \in Paths : fs[p] \in {Nothing, Link, Dir(Nobody), File(Nobody, 0, 0)} /\ DOMAIN fs = Paths
  BY ZipAssumption DEF Init, ZipAssumption
<1>2. \A p \in Paths : IsObject(fs[p]) /\ fs[p].by \notin Extractions /\ fs[p].by = Nobody
  BY <1>1, ZipAssumption DEF IsObject, Nothing, Link, Dir, File, Owners, ZipAssumption
<1>3. Types
  <2>1. DOMAIN fs = Paths
    BY ZipAssumption DEF Init, ZipAssumption
  <2> QED
    BY <1>2, <2>1 DEF Init, Types, Labels
<1>4. ASSUME NEW x \in Extractions PROVE Own(x)
  <2>1. /\ pc[x] = "start" /\ next[x] = 1 /\ depth[x] = 0 /\ total[x] = 0 /\ handles[x] = {}
        /\ result[x] = "none" /\ Count(x) \in Nat
    BY <1>3, ArchiveFacts DEF Init
  <2>2. Owned(x) = {} /\ Made(x) = {} /\ Finished(x) = {}
    BY <1>2, ZipAssumption DEF Owned, Made, Finished, ZipAssumption
  <2>3. Control(x)
    BY <2>1 DEF Control, HoldsExactly, Walking, Writing, Working
  <2>4. Walked(x) /\ Writes(x) /\ FilesRight(x) /\ MakesNamed(x)
    BY <2>1, <2>2 DEF Walked, Walking, Writes, Owning, FilesRight, MakesNamed
  <2>5. Present(x)
    BY <2>1 DEF Present
  <2>6. TotalIsSum(x)
    <3>1. IsFiniteSet({})
      BY FS_EmptySet
    <3>2. SumOf(Bytes, {}) = 0
      BY <3>1, SumEquation
    <3> QED
      BY <2>1, <2>2, <3>2, ZipAssumption DEF TotalIsSum, ZipAssumption
  <2> QED
    BY <2>3, <2>4, <2>5, <2>6 DEF Own
<1> QED
  BY <1>3, <1>4 DEF IInv

LEMMA ExtractKeeps == ASSUME Types, NEW y \in Extractions, Own(y), Extract(y) PROVE Own(y)'
<1>1. CASE CloseFile(y)
  BY <1>1, CloseFileKeeps, EndingKeeps DEF CloseFile
<1> QED
  BY <1>1, BeginKeeps, CheckDeclaredKeeps, EnterKeeps, MakeDirectoryKeeps, ExamineDirectoryKeeps,
     OpenDirectoryKeeps, ConfirmDirectoryKeeps, ArriveKeeps, OpenEntryKeeps, CreateFileKeeps,
     CopyByteKeeps, EndingKeeps, RemoveFileKeeps
  DEF Extract

LEMMA UnchangedKeeps == IInv /\ UNCHANGED vars => IInv'
<1> SUFFICES ASSUME IInv, UNCHANGED vars PROVE IInv'
  OBVIOUS
<1> USE DEF vars
<1>1. Types'
  BY DEF IInv, Types
<1>2. ASSUME NEW x \in Extractions PROVE Own(x)'
  <2>1. Own(x)
    BY DEF IInv
  <2>2. Owned(x)' = Owned(x) /\ Made(x)' = Made(x) /\ Finished(x)' = Finished(x) /\ Bytes' = Bytes
        /\ Count(x)' = Count(x) /\ (\A i : Entry(x, i)' = Entry(x, i)) /\ Opened(x)' = Opened(x)
        /\ Current(x)' = Current(x) /\ Place(x)' = Place(x) /\ Goal(x)' = Goal(x) /\ Start(x)' = Start(x)
        /\ Step(x)' = Step(x)
    BY DEF Owned, Made, Finished, Bytes, Count, Entry, Opened, Current, Place, Goal, Start, Step
  <2>3. Control(x)' /\ Walked(x)' /\ Writes(x)'
    BY <2>1, <2>2 DEF Own, Control, HoldsExactly, Walked, Writes, AtEnd, Written
  <2>4. FilesRight(x)' /\ Present(x)' /\ MakesNamed(x)' /\ TotalIsSum(x)'
    BY <2>1, <2>2 DEF Own, FilesRight, FileAt, Present, MakesNamed, TotalIsSum
  <2> QED
    BY <2>3, <2>4 DEF Own
<1> QED
  BY <1>1, <1>2 DEF IInv

LEMMA StepIInv == IInv /\ [Next]_vars => IInv'
<1> SUFFICES ASSUME IInv, [Next]_vars PROVE IInv'
  OBVIOUS
<1>1. ASSUME NEW y \in Extractions, Extract(y) PROVE IInv'
  <2>1. Types /\ Own(y)
    BY DEF IInv
  <2>2. Types' /\ Own(y)'
    BY <1>1, <2>1, StepTypes, ExtractKeeps
  <2>3. Touches(y) /\ Alone(y)
    BY <1>1, <2>1, StepTouches, StepIsAlone
  <2>4. ASSUME NEW x \in Extractions, x # y PROVE Own(x)'
    BY <2>1, <2>3, <2>4, OthersKeep DEF IInv
  <2> QED
    BY <2>2, <2>4 DEF IInv
<1> QED
  BY <1>1, UnchangedKeeps DEF Next

LEMMA Invariant == Spec => []IInv
  BY InitIInv, StepIInv, PTL DEF Spec

\* At every place is nothing, a link, or a directory or file with its maker; the
\* steps, counters and handles of a call of ExtractZipWithLimits are those it has.
THEOREM TypeCorrect == Spec => []Types
<1>1. IInv => Types
  BY DEF IInv
<1> QED
  BY Invariant, <1>1, PTL

-----------------------------------------------------------------------------
(* What follows from it.                                                     *)

\* ExtractZipWithLimits returns with every handle closed and, unless the system
\* refused the removal, leaves only whole entries; if it reports success, all of
\* them, whatever call failed in between and whatever else was extracted there.
THEOREM ExtractionsEndClean == Spec => []EndsClean
<1>1. IInv => EndsClean
  <2> SUFFICES ASSUME IInv, NEW x \in Extractions, pc[x] = "done"
               PROVE  /\ handles[x] = {}
                      /\ \A p \in Made(x) : fs[p].type = "file" => p \in stuck \/ Whole(p)
                      /\ result[x] = "ok" =>
                           \A i \in 1..Len(archive[x]) :
                             LET found == fs[Below(archive[x][i].path)]
                             IN IF archive[x][i].kind = "file" THEN found.by = x /\ found.entry = i
                                ELSE found.type = "dir"
    BY DEF EndsClean
  <2>1. Types /\ Own(x) /\ Count(x) \in Nat
    BY ArchiveFacts DEF IInv
  <2>2. handles[x] = {}
    BY <2>1 DEF Own, Control, HoldsExactly
  <2>3. ASSUME NEW p \in Made(x), fs[p].type = "file" PROVE p \in stuck \/ Whole(p)
    <3>1. p \in Owned(x) /\ fs[p].by = x
      BY <2>3 DEF Owned, Made
    <3>2. FileAt(x, p)
      BY <2>1, <3>1 DEF Own, FilesRight
    <3>3. next[x] \in 1 .. Count(x) + 1
      BY <2>1 DEF Own, Control
    <3> QED
      BY <2>1, <3>1, <3>2, <3>3 DEF FileAt, Whole, Owning, Entry
  <2>4. ASSUME result[x] = "ok", NEW i \in 1 .. Len(archive[x])
        PROVE  LET found == fs[Below(archive[x][i].path)]
               IN IF archive[x][i].kind = "file" THEN found.by = x /\ found.entry = i
                  ELSE found.type = "dir"
    <3>1. i \in 1 .. Count(x) /\ i < next[x]
      BY <2>1, <2>4 DEF Own, Control, Count
    <3> QED
      BY <2>1, <3>1 DEF Own, Present, Entry
  <2> QED
    BY <2>2, <2>3, <2>4
<1> QED
  BY Invariant, <1>1, PTL

\* Files and directories that an extraction has made lie among the places its
\* preflight has counted.
LEMMA MadeWithin ==
  ASSUME Types, NEW x \in Extractions, FilesRight(x), MakesNamed(x), NEW p \in Made(x)
  PROVE  LET all == RootNames \cup UNION {AllNamesOf(archive[x][i]) : i \in 1 .. Len(archive[x])}
             directories == RootNames \cup UNION {NamesOf(archive[x][i]) : i \in 1 .. Len(archive[x])}
         IN p \in all /\ (p \notin Owned(x) => p \in directories)
<1> DEFINE a == archive[x]
<1>1. a \in Archives
  BY DEF Types
<1>2. \A i \in 1 .. Len(a) : NamesOf(a[i]) \subseteq AllNamesOf(a[i]) /\ Below(a[i].path) \in AllNamesOf(a[i])
  BY <1>1, EntryBound
<1>3. p \in Paths /\ fs[p].by = x /\ fs[p].type \in {"dir", "file"}
  BY ObjectKinds DEF Made, Types
<1>4. CASE fs[p].type = "file"
  <2>1. p \in Owned(x)
    BY <1>3, <1>4 DEF Owned
  <2>2. fs[p].entry \in 1 .. Len(a) /\ p = Below(a[fs[p].entry].path)
    BY <2>1 DEF FilesRight, FileAt, Entry, Count
  <2> QED
    BY <1>2, <2>1, <2>2
<1>5. CASE fs[p].type = "dir"
  <2>1. p \in RootNames \/ \E i \in 1 .. Len(a) : p \in NamesOf(a[i])
    BY <1>5 DEF MakesNamed, Entry, Count
  <2> QED
    BY <1>2, <2>1
<1> QED
  BY <1>3, <1>4, <1>5

LEMMA FewerThan ==
  ASSUME NEW S, IsFiniteSet(S), NEW T, T \subseteq S, NEW n \in Nat, Cardinality(S) <= n
  PROVE  Cardinality(T) <= n
<1>1. IsFiniteSet(T) /\ Cardinality(T) <= Cardinality(S)
  BY FS_Subset
<1>2. Cardinality(S) \in Nat /\ Cardinality(T) \in Nat
  BY <1>1, FS_CardinalityType
<1> QED
  BY <1>1, <1>2

\* The file being written is the only one whose bytes the total leaves out.
LEMMA BytesWithinTotal ==
  ASSUME Types, NEW x \in Extractions, Own(x)
  PROVE  SumOf(Bytes, Owned(x)) <= MaxTotalBytes
<1>1. IsFiniteSet(Owned(x)) /\ \A p \in Owned(x) : Bytes[p] \in Nat
  BY OwnedFinite DEF Own
<1>2. total[x] = SumOf(Bytes, Finished(x)) /\ total[x] <= MaxTotalBytes /\ total[x] \in Nat
  BY DEF Own, TotalIsSum, Types
<1>3. \A p \in Owned(x) : /\ fs[p].entry \in Nat /\ next[x] \in Nat /\ fs[p].entry <= next[x]
                          /\ p = Below(Entry(x, fs[p].entry).path)
                          /\ fs[p].entry = next[x] => total[x] + Bytes[p] <= MaxTotalBytes
  BY ObjectKinds DEF Own, FilesRight, FileAt, Types, Owned, Bytes
<1>4. CASE \E p \in Owned(x) : fs[p].entry = next[x]
  <2>1. PICK p \in Owned(x) : fs[p].entry = next[x]
    BY <1>4
  <2>2. \A q \in Owned(x) : q # p => fs[q].entry # next[x]
    BY <1>3, <2>1
  <2>3. Finished(x) = Owned(x) \ {p}
    BY <1>3, <2>1, <2>2 DEF Finished
  <2>4. SumOf(Bytes, Owned(x)) = Bytes[p] + SumOf(Bytes, Owned(x) \ {p})
    BY <1>1, SumWithout
  <2>5. Bytes[p] \in Nat /\ total[x] + Bytes[p] <= MaxTotalBytes /\ MaxTotalBytes \in Nat
    BY <1>1, <1>3, <2>1, ZipAssumption DEF ZipAssumption
  <2>6. SumOf(Bytes, Owned(x)) = Bytes[p] + total[x]
    BY <1>2, <2>3, <2>4
  <2> QED
    BY <1>2, <2>5, <2>6
<1>5. CASE ~\E p \in Owned(x) : fs[p].entry = next[x]
  <2>1. Finished(x) = Owned(x)
    BY <1>3, <1>5 DEF Finished
  <2> QED
    BY <1>2, <2>1
<1> QED
  BY <1>4, <1>5

\* The places, directories, depth and bytes that an extraction has put on disk
\* stay within the limits at every moment, for streams longer than declared and
\* directories made by others too; a refused archive leaves nothing.
THEOREM BudgetsAreKept == Spec => []BudgetsHold
<1>1. IInv => BudgetsHold
  <2> SUFFICES ASSUME IInv, NEW x \in Extractions
               PROVE  LET files == {p \in Made(x) : fs[p].type = "file"}
                      IN /\ Made(x) # {} => Preflight(archive[x])
                         /\ Cardinality(Made(x)) <= MaxObjects
                         /\ Cardinality(Made(x) \ files) <= MaxDirectories
                         /\ \A p \in Made(x) : Len(p) <= MaxPathDepth
                         /\ \A p \in files : fs[p].bytes <= MaxEntryBytes
                         /\ MapThenSumSet(LAMBDA p : fs[p].bytes, files) <= MaxTotalBytes
    BY DEF BudgetsHold
  <2> DEFINE a == archive[x]
             files == {p \in Made(x) : fs[p].type = "file"}
             all == RootNames \cup UNION {AllNamesOf(a[i]) : i \in 1 .. Len(a)}
             directories == RootNames \cup UNION {NamesOf(a[i]) : i \in 1 .. Len(a)}
  <2>1. Types /\ Own(x) /\ FilesRight(x) /\ MakesNamed(x) /\ a \in Archives
    BY DEF IInv, Own, Types
  <2>2. files = Owned(x)
    BY DEF Made, Owned
  <2>3. Made(x) # {} => Preflight(a)
    BY <2>1 DEF MakesNamed
  <2>4. Made(x) \subseteq all /\ Made(x) \ files \subseteq directories
    BY <2>1, <2>2, MadeWithin
  <2>5. MaxObjects \in Nat /\ MaxDirectories \in Nat
    BY ZipAssumption DEF ZipAssumption
  <2>6. /\ Cardinality(Made(x)) <= MaxObjects
        /\ Cardinality(Made(x) \ files) <= MaxDirectories
        /\ \A p \in Made(x) : Len(p) <= MaxPathDepth
    <3>1. CASE Made(x) = {}
      <4>1. Made(x) \ files = {} /\ Cardinality({}) = 0
        BY <3>1, FS_EmptySet
      <4> QED
        BY <2>5, <3>1, <4>1
    <3>2. CASE Made(x) # {}
      <4>1. Budget(a)
        BY <2>3, <3>2 DEF Preflight
      <4>2. /\ IsFiniteSet(all) /\ Cardinality(all) <= MaxObjects
            /\ IsFiniteSet(directories) /\ Cardinality(directories) <= MaxDirectories
            /\ \A p \in all : Len(p) <= MaxPathDepth
        BY <2>1, <4>1, PlacesBound
      <4> HIDE DEF all, directories, files
      <4> QED
        BY <2>4, <2>5, <4>2, FewerThan
    <3> QED
      BY <3>1, <3>2
  <2>7. \A p \in files : fs[p].bytes <= MaxEntryBytes
    BY <2>1, <2>2 DEF FilesRight, FileAt
  <2>8. MapThenSumSet(LAMBDA p : fs[p].bytes, files) <= MaxTotalBytes
    <3>1. IsFiniteSet(files) /\ files \subseteq Paths
      BY <2>1, <2>2, OwnedFinite DEF Owned
    <3> HIDE DEF files
    <3>2. MapThenSumSet(LAMBDA p : fs[p].bytes, files) = SumOf(Bytes, files)
      BY <3>1, BytesAreSummed, Zenon
    <3>3. SumOf(Bytes, files) <= MaxTotalBytes
      BY <2>1, <2>2, BytesWithinTotal
    <3> QED
      BY <3>2, <3>3, Zenon
  <2> HIDE DEF files
  <2>9. Made(x) # {} => Preflight(archive[x])
    BY <2>3
  <2> QED
    BY <2>6, <2>7, <2>8, <2>9, Zenon DEF files
<1> QED
  BY Invariant, <1>1, PTL

\* No extraction changes or removes what it did not make: extractEntry writes
\* and removes only the file that its own exclusive create has made.
THEOREM OthersStayUntouched == Spec => OthersUntouched
<1>1. IInv /\ [Next]_vars =>
        [\A p \in Paths :
          /\ Settled(p) => fs'[p] = fs[p]
          /\ fs'[p] # fs[p] /\ fs[p].by # Nobody => pc[fs[p].by] \in {"copy", "remove"}]_vars
  <2> SUFFICES ASSUME IInv, NEW y \in Extractions, Extract(y), NEW p \in Paths, fs'[p] # fs[p]
               PROVE  ~Settled(p) /\ (fs[p].by # Nobody => pc[fs[p].by] \in {"copy", "remove"})
    BY DEF Next, vars
  <2>1. Touches(y)
    BY StepTouches DEF IInv
  <2>2. CASE fs[p] = Nothing
    BY <2>2 DEF Settled, Nothing
  <2>3. CASE /\ fs[p].type = "file" /\ fs[p].by = y
             /\ fs[p].entry = next[y] /\ pc[y] \in {"copy", "remove"}
    BY <2>3, ZipAssumption DEF Settled, ZipAssumption, IInv, Types
  <2> QED
    BY <2>1, <2>2, <2>3 DEF Touches
<1> QED
  BY Invariant, <1>1, PTL DEF Spec, OthersUntouched
=============================================================================
