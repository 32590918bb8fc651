------------------------- MODULE PathIdentityProofs -------------------------
(***************************************************************************)
(* Proofs about PathIdentity: for every text, every option record, every   *)
(* operand, mount and length.  An identity is a root of one of six kinds   *)
(* and a sequence of real names (Whole); normalize returns nothing else    *)
(* (NormalizeGives), join appends names of the same root (JoinGives), and  *)
(* every way of writing an identity is read back as the root and the names *)
(* it was written from (ReadAgain, ReadFromWindows, ReadFromWSL).  The     *)
(* invariant Sound says that the identity in hand is the first one with    *)
(* names appended.  The recursions of validate-spec.mjs, a definition of   *)
(* its own, come to the same root and names (WholeIsAccepted), and a name  *)
(* made from a text or a git ref has plain symbols only (SanitizedName,    *)
(* GitRefName).                                                            *)
(***************************************************************************)
EXTENDS PathIdentity, SequenceTheorems, NaturalsInduction, WellFoundedInduction, TLAPS

(***************************************************************************)
(* Recursive definitions over a sequence                                   *)
(***************************************************************************)
\* A set of natural numbers that is not empty has a least member.
LEMMA LeastNatural ==
  ASSUME NEW B, B \subseteq Nat, B # {}
  PROVE  \E n \in B : \A m \in B : n <= m
<1>1. IsWellFoundedOn(OpToRel(<, Nat), Nat)
  BY NatLessThanWellFounded
<1>2. PICK n \in B : \A m \in B : <<m, n>> \notin OpToRel(<, Nat)
  BY <1>1, WFMin, Zenon
<1>3. \A m \in B : ~(m < n)
  BY <1>2 DEF OpToRel
<1> QED
  BY <1>3

\* A set of places in a text that is not empty has a greatest member.
LEMMA GreatestOf ==
  ASSUME NEW n \in Nat, NEW B, B \subseteq 1 .. n, B # {}
  PROVE  \E i \in B : \A j \in B : j <= i
<1> DEFINE flipped == {k \in Nat : n - k \in B}
<1>1. flipped \subseteq Nat /\ flipped # {}
  <2>1. PICK k \in B : k \in 1 .. n
    OBVIOUS
  <2>2. n - k \in Nat /\ n - (n - k) = k
    BY <2>1
  <2>3. n - k \in flipped
    BY <2>1, <2>2
  <2> QED
    BY <2>3
<1>2. PICK k \in flipped : \A m \in flipped : k <= m
  <2> HIDE DEF flipped
  <2> QED
    BY <1>1, LeastNatural
<1>3. ASSUME NEW j \in B PROVE j <= n - k
  <2>1. n - j \in Nat /\ n - (n - j) = j /\ j \in Nat
    OBVIOUS
  <2>2. n - j \in flipped
    BY <2>1
  <2>3. k \in Nat /\ k <= n - j
    BY <1>2, <2>2
  <2> QED
    BY <2>1, <2>3
<1> QED
  BY <1>2, <1>3

\* A function defined by recursion from its value at zero, one step after the other.
Recursive(f, n, base, step) ==
  f[0] = base /\ \A i \in 1 .. n : f[i] = step[i][f[i - 1]]

\* What a recursive definition over 0 .. n describes exists.
LEMMA RecursionExists ==
  ASSUME NEW n \in Nat, NEW V, NEW base \in V, NEW step \in [1 .. n -> [V -> V]]
  PROVE  \E f \in [0 .. n -> V] : Recursive(f, n, base, step)
<1> DEFINE B == {k \in 0 .. n : ~\E f \in [0 .. k -> V] : Recursive(f, k, base, step)}
<1> SUFFICES ASSUME B # {} PROVE FALSE
  OBVIOUS
<1>1. PICK k \in B : \A m \in B : k <= m
  <2>1. B \subseteq Nat
    OBVIOUS
  <2> HIDE DEF B
  <2> QED
    BY <2>1, LeastNatural
<1>2. CASE k = 0
  <2>1. [i \in 0 .. 0 |-> base] \in [0 .. 0 -> V] /\ Recursive([i \in 0 .. 0 |-> base], 0, base, step)
    BY DEF Recursive
  <2> QED
    BY <1>2, <2>1
<1>3. CASE k # 0
  <2>1. k - 1 \in 0 .. n /\ k - 1 \notin B
    BY <1>1, <1>3
  <2>2. PICK f \in [0 .. (k - 1) -> V] : Recursive(f, k - 1, base, step)
    BY <2>1
  <2> DEFINE g == [i \in 0 .. k |-> IF i = k THEN step[k][f[k - 1]] ELSE f[i]]
  <2>3. step[k][f[k - 1]] \in V
    <3>1. k \in 1 .. n /\ f[k - 1] \in V
      BY <1>3
    <3> QED
      BY <3>1
  <2>4. g \in [0 .. k -> V]
    BY <2>3
  <2>5. Recursive(g, k, base, step)
    <3>1. g[0] = base
      BY <1>3, <2>2 DEF Recursive
    <3>2. ASSUME NEW i \in 1 .. k PROVE g[i] = step[i][g[i - 1]]
      <4>1. CASE i = k
        BY <4>1
      <4>2. CASE i # k
        BY <2>2, <4>2 DEF Recursive
      <4> QED
        BY <4>1, <4>2
    <3> QED
      BY <3>1, <3>2 DEF Recursive
  <2> QED
    BY <2>4, <2>5
<1> QED
  BY <1>2, <1>3

\* The function that a recursive definition picks, whatever its values are elsewhere.
Follows(h, n, V, base, step) ==
  h[0] = base /\ \A i \in 1 .. n : h[i - 1] \in V => h[i] = step[i][h[i - 1]]

\* A function that follows the recursion is the one it describes.
LEMMA RecursionFollowed ==
  ASSUME NEW n \in Nat, NEW V, NEW base, NEW step, NEW f \in [0 .. n -> V], NEW h,
         Recursive(f, n, base, step), Follows(h, n, V, base, step)
  PROVE  \A i \in 0 .. n : h[i] = f[i]
<1> DEFINE B == {k \in 0 .. n : h[k] # f[k]}
<1> SUFFICES ASSUME B # {} PROVE FALSE
  OBVIOUS
<1>1. PICK k \in B : \A m \in B : k <= m
  <2>1. B \subseteq Nat
    OBVIOUS
  <2> HIDE DEF B
  <2> QED
    BY <2>1, LeastNatural
<1>2. k # 0
  BY DEF Recursive, Follows
<1>3. h[k - 1] = f[k - 1] /\ k \in 1 .. n
  BY <1>1, <1>2
<1>4. f[k - 1] \in V
  BY <1>3
<1> QED
  BY <1>3, <1>4 DEF Recursive, Follows

(***************************************************************************)
(* split("/") and join("/")                                                *)
(***************************************************************************)
PartsOf(S) == Seq(S \ {"/"})
PiecesOf(S) == {ps \in Seq(PartsOf(S)) : ps # <<>>}

SplitStep(ps, x) ==
  IF x = "/" THEN Append(ps, <<>>) ELSE [ps EXCEPT ![Len(ps)] = Append(@, x)]

\* A list of pieces has a last one.
LEMMA PiecesHaveLast ==
  ASSUME NEW S, NEW ps \in PiecesOf(S)
  PROVE  /\ ps \in Seq(PartsOf(S)) /\ Len(ps) \in Nat \ {0} /\ ps[Len(ps)] \in PartsOf(S)
         /\ \A i \in 1 .. Len(ps) : ps[i] \in PartsOf(S)
<1>1. ps \in Seq(PartsOf(S)) /\ ps # <<>>
  BY DEF PiecesOf
<1> HIDE DEF PartsOf
<1>2. Len(ps) \in Nat \ {0}
  BY <1>1, EmptySeq
<1> QED
  BY <1>1, <1>2, ElementOfSeq

\* One more character keeps a list of pieces one.
LEMMA SplitStepType ==
  ASSUME NEW S, NEW ps \in PiecesOf(S), NEW x \in S
  PROVE  SplitStep(ps, x) \in PiecesOf(S)
<1>1. ps \in Seq(PartsOf(S)) /\ Len(ps) \in Nat \ {0} /\ ps[Len(ps)] \in PartsOf(S)
  BY PiecesHaveLast
<1>2. CASE x = "/"
  <2>1. <<>> \in PartsOf(S)
    BY DEF PartsOf
  <2> HIDE DEF PartsOf
  <2>2. Append(ps, <<>>) \in Seq(PartsOf(S)) /\ Append(ps, <<>>) # <<>>
    BY <1>1, <2>1, AppendProperties
  <2> QED
    BY <1>2, <2>2 DEF SplitStep, PiecesOf
<1>3. CASE x # "/"
  <2> DEFINE p == ps[Len(ps)]
  <2>1. Append(p, x) \in PartsOf(S)
    <3>1. x \in S \ {"/"}
      BY <1>3
    <3> QED
      BY <1>1, <3>1, AppendProperties DEF PartsOf
  <2> HIDE DEF p, PartsOf
  <2>2. [ps EXCEPT ![Len(ps)] = Append(p, x)] \in Seq(PartsOf(S))
        /\ Len([ps EXCEPT ![Len(ps)] = Append(p, x)]) = Len(ps)
    BY <1>1, <2>1, ExceptSeq
  <2>3. SplitStep(ps, x) = [ps EXCEPT ![Len(ps)] = Append(p, x)]
    BY <1>3 DEF SplitStep, p
  <2>4. SplitStep(ps, x) # <<>>
    BY <1>1, <2>2, <2>3
  <2> QED
    BY <2>2, <2>3, <2>4 DEF PiecesOf
<1> QED
  BY <1>2, <1>3

\* The function that Split is defined by.
Splits(h, s) == h[0] = << <<>> >> /\ \A i \in 1 .. Len(s) : h[i] = SplitStep(h[i - 1], s[i])

\* Split is what its recursion over the text describes.
LEMMA SplitIsRecursive ==
  ASSUME NEW S, NEW s \in Seq(S)
  PROVE  \E f \in [0 .. Len(s) -> PiecesOf(S)] : Splits(f, s) /\ Split(s) = f[Len(s)]
<1> DEFINE base == << <<>> >>
           V == PiecesOf(S)
           step == [i \in 1 .. Len(s) |-> [ps \in V |-> SplitStep(ps, s[i])]]
           Eq(h) == h = [i \in 0 .. Len(s) |->
                           IF i = 0 THEN << <<>> >>
                           ELSE LET before == h[i - 1]
                                IN IF s[i] = "/" THEN Append(before, <<>>)
                                   ELSE [before EXCEPT ![Len(before)] = Append(@, s[i])]]
<1>1. Len(s) \in Nat /\ \A i \in 1 .. Len(s) : s[i] \in S
  OBVIOUS
<1>2. base \in V
  BY DEF PiecesOf, PartsOf
<1>3. step \in [1 .. Len(s) -> [V -> V]]
  BY <1>1, SplitStepType
<1>4. \A i \in 1 .. Len(s) : \A ps \in V : step[i][ps] = SplitStep(ps, s[i])
  OBVIOUS
<1>5. PICK f \in [0 .. Len(s) -> V] : Recursive(f, Len(s), base, step)
  <2> HIDE DEF base, step, V
  <2> QED
    BY <1>1, <1>2, <1>3, RecursionExists
<1>6. Splits(f, s)
  <2>1. f[0] = base
    BY <1>5 DEF Recursive
  <2>2. ASSUME NEW i \in 1 .. Len(s) PROVE f[i] = SplitStep(f[i - 1], s[i])
    <3>1. f[i - 1] \in V
      BY <1>1
    <3>2. f[i] = step[i][f[i - 1]]
      BY <1>5 DEF Recursive
    <3> HIDE DEF step, V
    <3> QED
      BY <1>4, <3>1, <3>2
  <2> QED
    BY <2>1, <2>2 DEF Splits
<1>7. \A h : Eq(h) <=> h = [i \in 0 .. Len(s) |-> IF i = 0 THEN base ELSE SplitStep(h[i - 1], s[i])]
  BY Zenon DEF SplitStep
<1>8. Eq(f)
  <2>1. f[0] = base
    BY <1>6 DEF Splits
  <2>2. \A i \in 1 .. Len(s) : f[i] = SplitStep(f[i - 1], s[i])
    BY <1>6 DEF Splits
  <2> HIDE DEF Eq, base
  <2>3. \A i \in 0 .. Len(s) : f[i] = IF i = 0 THEN base ELSE SplitStep(f[i - 1], s[i])
    BY <1>1, <2>1, <2>2
  <2>4. f = [i \in 0 .. Len(s) |-> IF i = 0 THEN base ELSE SplitStep(f[i - 1], s[i])]
    BY <2>3
  <2> QED
    BY <1>7, <2>4, Zenon
<1> DEFINE c == CHOOSE h : Eq(h)
<1>9. Eq(c)
  <2> HIDE DEF Eq
  <2> QED
    BY <1>8, Zenon
<1>10. Split(s) = c[Len(s)]
  BY Zenon DEF Split
<1> HIDE DEF Eq, c
<1>11. c = [i \in 0 .. Len(s) |-> IF i = 0 THEN base ELSE SplitStep(c[i - 1], s[i])]
  BY <1>7, <1>9, Zenon
<1>12. c[0] = base /\ \A i \in 1 .. Len(s) : c[i] = SplitStep(c[i - 1], s[i])
  <2> HIDE DEF base
  <2> QED
    BY <1>1, <1>11
<1>13. \A i \in 1 .. Len(s) : c[i - 1] \in V => c[i] = step[i][c[i - 1]]
  <2> HIDE DEF step, V
  <2> QED
    BY <1>4, <1>12
<1>14. \A i \in 0 .. Len(s) : c[i] = f[i]
  <2>1. Follows(c, Len(s), V, base, step)
    BY <1>12, <1>13 DEF Follows
  <2> HIDE DEF base, step, V
  <2> QED
    BY <1>1, <1>5, <2>1, RecursionFollowed
<1>15. Split(s) = f[Len(s)]
  BY <1>1, <1>10, <1>14
<1> QED
  BY <1>6, <1>15

\* The recursions of two texts agree as long as the texts do.
LEMMA SplitsAgree ==
  ASSUME NEW n \in Nat, NEW f, NEW g, NEW s, NEW t,
         Splits(f, s), Splits(g, t), Len(s) \in Nat, Len(t) \in Nat, n <= Len(s), n <= Len(t),
         \A i \in 1 .. n : s[i] = t[i]
  PROVE  f[n] = g[n]
<1> DEFINE B == {k \in 0 .. n : f[k] # g[k]}
<1> SUFFICES ASSUME B # {} PROVE FALSE
  OBVIOUS
<1>1. PICK k \in B : \A m \in B : k <= m
  <2>1. B \subseteq Nat
    OBVIOUS
  <2> HIDE DEF B
  <2> QED
    BY <2>1, LeastNatural
<1>2. k # 0
  BY DEF Splits
<1>3. f[k - 1] = g[k - 1] /\ k \in 1 .. n
  BY <1>1, <1>2
<1>4. f[k] = SplitStep(f[k - 1], s[k]) /\ g[k] = SplitStep(g[k - 1], t[k])
  BY <1>3 DEF Splits
<1>5. s[k] = t[k]
  BY <1>3
<1> QED
  BY <1>3, <1>4, <1>5

\* The empty text is one empty piece.
LEMMA SplitOfNothing ==
  Split(<<>>) = << <<>> >>
<1>1. <<>> \in Seq({}) /\ Len(<<>>) = 0
  OBVIOUS
<1>2. PICK f \in [0 .. Len(<<>>) -> PiecesOf({})] : Splits(f, <<>>) /\ Split(<<>>) = f[Len(<<>>)]
  BY <1>1, SplitIsRecursive, Zenon
<1> QED
  BY <1>1, <1>2 DEF Splits

\* One more character takes one more step of the recursion.
LEMMA SplitOfAppend ==
  ASSUME NEW S, NEW s \in Seq(S), NEW x \in S
  PROVE  Split(s) \in PiecesOf(S) /\ Split(Append(s, x)) = SplitStep(Split(s), x)
<1> DEFINE t == Append(s, x)
<1>1. t \in Seq(S) /\ Len(s) \in Nat /\ Len(t) = Len(s) + 1 /\ t[Len(t)] = x
      /\ \A i \in 1 .. Len(s) : t[i] = s[i]
  BY AppendProperties
<1> HIDE DEF t
<1>2. PICK f \in [0 .. Len(s) -> PiecesOf(S)] : Splits(f, s) /\ Split(s) = f[Len(s)]
  BY SplitIsRecursive
<1>3. PICK g \in [0 .. Len(t) -> PiecesOf(S)] : Splits(g, t) /\ Split(t) = g[Len(t)]
  BY <1>1, SplitIsRecursive
<1>4. g[Len(t)] = SplitStep(g[Len(t) - 1], t[Len(t)])
  <2>1. Len(t) \in 1 .. Len(t)
    BY <1>1
  <2> QED
    BY <1>3, <2>1 DEF Splits
<1>5. Len(t) - 1 = Len(s)
  BY <1>1
<1>6. f[Len(s)] = g[Len(s)]
  <2>1. Len(t) \in Nat /\ Len(s) <= Len(s) /\ Len(s) <= Len(t)
    BY <1>1
  <2> QED
    BY <1>1, <1>2, <1>3, <2>1, SplitsAgree
<1>7. Split(s) \in PiecesOf(S)
  <2>1. Len(s) \in 0 .. Len(s)
    BY <1>1
  <2> QED
    BY <1>2, <2>1
<1> QED
  BY <1>1, <1>2, <1>3, <1>4, <1>5, <1>6, <1>7 DEF t

\* Split returns pieces: texts without a slash.
LEMMA SplitType ==
  ASSUME NEW S, NEW s \in Seq(S)
  PROVE  Split(s) \in PiecesOf(S)
<1>1. PICK f \in [0 .. Len(s) -> PiecesOf(S)] : Splits(f, s) /\ Split(s) = f[Len(s)]
  BY SplitIsRecursive
<1>2. Len(s) \in 0 .. Len(s)
  OBVIOUS
<1> QED
  BY <1>1, <1>2

JoinStep(i, v, p) == IF i = 1 THEN p ELSE v \o <<"/">> \o p

\* The function that Joined is defined by.
Joins(h, ps) == h[0] = <<>> /\ \A i \in 1 .. Len(ps) : h[i] = JoinStep(i, h[i - 1], ps[i])

\* A piece is a text.
LEMMA PartsAreTexts ==
  ASSUME NEW S, NEW p \in PartsOf(S)
  PROVE  p \in Seq(S)
BY SeqMonotonic DEF PartsOf

\* Two texts with a slash between them.
LEMMA SlashBetween ==
  ASSUME NEW S, "/" \in S, NEW s \in Seq(S), NEW t \in Seq(S)
  PROVE  /\ s \o <<"/">> \o t \in Seq(S)
         /\ Len(s \o <<"/">> \o t) = Len(s) + 1 + Len(t)
         /\ s \o <<"/">> \o t = Append(s, "/") \o t
<1>1. <<"/">> \in Seq(S) /\ Len(<<"/">>) = 1
  OBVIOUS
<1>2. s \o <<"/">> \in Seq(S) /\ Len(s \o <<"/">>) = Len(s) + 1
  BY <1>1, ConcatProperties
<1>3. s \o <<"/">> = Append(s, "/")
  BY AppendIsConcat
<1> QED
  BY <1>2, <1>3, ConcatProperties

\* Joined is what its recursion over the pieces describes.
LEMMA JoinedIsRecursive ==
  ASSUME NEW S, "/" \in S, NEW ps \in Seq(PartsOf(S))
  PROVE  \E f \in [0 .. Len(ps) -> Seq(S)] : Joins(f, ps) /\ Joined(ps) = f[Len(ps)]
<1> DEFINE base == <<>>
           V == Seq(S)
           step == [i \in 1 .. Len(ps) |-> [v \in V |-> JoinStep(i, v, ps[i])]]
           Eq(h) == h = [i \in 0 .. Len(ps) |->
                           CASE i = 0 -> <<>>
                             [] i = 1 -> ps[1]
                             [] OTHER -> h[i - 1] \o <<"/">> \o ps[i]]
<1>1. Len(ps) \in Nat /\ \A i \in 1 .. Len(ps) : ps[i] \in Seq(S)
  <2>1. Len(ps) \in Nat /\ \A i \in 1 .. Len(ps) : ps[i] \in PartsOf(S)
    OBVIOUS
  <2> QED
    BY <2>1, PartsAreTexts
<1>2. base \in V
  OBVIOUS
<1>3. step \in [1 .. Len(ps) -> [V -> V]]
  <2>1. ASSUME NEW i \in 1 .. Len(ps), NEW v \in V PROVE JoinStep(i, v, ps[i]) \in V
    BY <1>1, SlashBetween DEF JoinStep
  <2> QED
    BY <2>1
<1>4. \A i \in 1 .. Len(ps) : \A v \in V : step[i][v] = JoinStep(i, v, ps[i])
  OBVIOUS
<1>5. PICK f \in [0 .. Len(ps) -> V] : Recursive(f, Len(ps), base, step)
  <2> HIDE DEF base, step, V
  <2> QED
    BY <1>1, <1>2, <1>3, RecursionExists
<1>6. Joins(f, ps)
  <2>1. f[0] = base
    BY <1>5 DEF Recursive
  <2>2. ASSUME NEW i \in 1 .. Len(ps) PROVE f[i] = JoinStep(i, f[i - 1], ps[i])
    <3>1. f[i - 1] \in V
      BY <1>1
    <3>2. f[i] = step[i][f[i - 1]]
      BY <1>5 DEF Recursive
    <3> HIDE DEF step, V
    <3> QED
      BY <1>4, <3>1, <3>2
  <2> QED
    BY <2>1, <2>2 DEF Joins
<1>7. \A h : Eq(h) <=> h = [i \in 0 .. Len(ps) |-> IF i = 0 THEN base ELSE JoinStep(i, h[i - 1], ps[i])]
  <2> SUFFICES ASSUME NEW h, NEW i \in 0 .. Len(ps)
               PROVE  (CASE i = 0 -> <<>>
                         [] i = 1 -> ps[1]
                         [] OTHER -> h[i - 1] \o <<"/">> \o ps[i])
                      = IF i = 0 THEN base ELSE JoinStep(i, h[i - 1], ps[i])
    OBVIOUS
  <2>1. i = 0 => i # 1
    OBVIOUS
  <2> QED
    BY <2>1, Zenon DEF JoinStep
<1>8. Eq(f)
  <2>1. f[0] = base
    BY <1>6 DEF Joins
  <2>2. \A i \in 1 .. Len(ps) : f[i] = JoinStep(i, f[i - 1], ps[i])
    BY <1>6 DEF Joins
  <2> HIDE DEF Eq, base
  <2>3. \A i \in 0 .. Len(ps) : f[i] = IF i = 0 THEN base ELSE JoinStep(i, f[i - 1], ps[i])
    BY <1>1, <2>1, <2>2
  <2>4. f = [i \in 0 .. Len(ps) |-> IF i = 0 THEN base ELSE JoinStep(i, f[i - 1], ps[i])]
    BY <2>3
  <2> QED
    BY <1>7, <2>4, Zenon
<1> DEFINE c == CHOOSE h : Eq(h)
<1>9. Eq(c)
  <2> HIDE DEF Eq
  <2> QED
    BY <1>8, Zenon
<1>10. Joined(ps) = c[Len(ps)]
  BY Zenon DEF Joined
<1> HIDE DEF Eq, c
<1>11. c = [i \in 0 .. Len(ps) |-> IF i = 0 THEN base ELSE JoinStep(i, c[i - 1], ps[i])]
  BY <1>7, <1>9, Zenon
<1>12. c[0] = base /\ \A i \in 1 .. Len(ps) : c[i] = JoinStep(i, c[i - 1], ps[i])
  <2> HIDE DEF base
  <2> QED
    BY <1>1, <1>11
<1>13. \A i \in 1 .. Len(ps) : c[i - 1] \in V => c[i] = step[i][c[i - 1]]
  <2> HIDE DEF step, V
  <2> QED
    BY <1>4, <1>12
<1>14. \A i \in 0 .. Len(ps) : c[i] = f[i]
  <2>1. Follows(c, Len(ps), V, base, step)
    BY <1>12, <1>13 DEF Follows
  <2>2. Len(ps) \in Nat
    OBVIOUS
  <2> HIDE DEF base, step, V
  <2> QED
    BY <1>5, <2>1, <2>2, RecursionFollowed
<1>15. Joined(ps) = f[Len(ps)]
  BY <1>1, <1>10, <1>14
<1> QED
  BY <1>6, <1>15

\* The recursions of two lists agree as long as the lists do.
LEMMA JoinsAgree ==
  ASSUME NEW n \in Nat, NEW f, NEW g, NEW s, NEW t,
         Joins(f, s), Joins(g, t), Len(s) \in Nat, Len(t) \in Nat, n <= Len(s), n <= Len(t),
         \A i \in 1 .. n : s[i] = t[i]
  PROVE  f[n] = g[n]
<1> DEFINE B == {k \in 0 .. n : f[k] # g[k]}
<1> SUFFICES ASSUME B # {} PROVE FALSE
  OBVIOUS
<1>1. PICK k \in B : \A m \in B : k <= m
  <2>1. B \subseteq Nat
    OBVIOUS
  <2> HIDE DEF B
  <2> QED
    BY <2>1, LeastNatural
<1>2. k # 0
  BY DEF Joins
<1>3. f[k - 1] = g[k - 1] /\ k \in 1 .. n
  BY <1>1, <1>2
<1>4. f[k] = JoinStep(k, f[k - 1], s[k]) /\ g[k] = JoinStep(k, g[k - 1], t[k])
  BY <1>3 DEF Joins
<1>5. s[k] = t[k]
  BY <1>3
<1> QED
  BY <1>3, <1>4, <1>5

\* Joined returns a text.
LEMMA JoinedType ==
  ASSUME NEW S, "/" \in S, NEW ps \in Seq(PartsOf(S))
  PROVE  Joined(ps) \in Seq(S)
<1>1. PICK f \in [0 .. Len(ps) -> Seq(S)] : Joins(f, ps) /\ Joined(ps) = f[Len(ps)]
  BY JoinedIsRecursive
<1>2. Len(ps) \in 0 .. Len(ps)
  OBVIOUS
<1> QED
  BY <1>1, <1>2

\* No pieces make the empty text.
LEMMA JoinedOfNothing ==
  Joined(<<>>) = <<>>
<1>1. <<>> \in Seq(PartsOf({"/"})) /\ Len(<<>>) = 0
  OBVIOUS
<1>2. PICK f \in [0 .. Len(<<>>) -> Seq({"/"})] : Joins(f, <<>>) /\ Joined(<<>>) = f[Len(<<>>)]
  BY <1>1, JoinedIsRecursive
<1> QED
  BY <1>1, <1>2 DEF Joins

\* One more piece follows after a slash.
LEMMA JoinedOfAppend ==
  ASSUME NEW S, "/" \in S, NEW ps \in Seq(PartsOf(S)), NEW p \in PartsOf(S)
  PROVE  Joined(Append(ps, p)) = IF ps = <<>> THEN p ELSE Joined(ps) \o <<"/">> \o p
<1> DEFINE t == Append(ps, p)
<1> HIDE DEF PartsOf
<1>1. t \in Seq(PartsOf(S)) /\ Len(ps) \in Nat /\ Len(t) = Len(ps) + 1 /\ t[Len(t)] = p
      /\ \A i \in 1 .. Len(ps) : t[i] = ps[i]
  BY AppendProperties
<1> HIDE DEF t
<1>2. PICK f \in [0 .. Len(ps) -> Seq(S)] : Joins(f, ps) /\ Joined(ps) = f[Len(ps)]
  BY JoinedIsRecursive
<1>3. PICK g \in [0 .. Len(t) -> Seq(S)] : Joins(g, t) /\ Joined(t) = g[Len(t)]
  BY <1>1, JoinedIsRecursive
<1>4. g[Len(t)] = JoinStep(Len(t), g[Len(t) - 1], t[Len(t)])
  <2>1. Len(t) \in 1 .. Len(t)
    BY <1>1
  <2> QED
    BY <1>3, <2>1 DEF Joins
<1>5. Len(t) - 1 = Len(ps) /\ (Len(t) = 1 <=> ps = <<>>)
  BY <1>1, EmptySeq
<1>6. f[Len(ps)] = g[Len(ps)]
  <2>1. Len(t) \in Nat /\ Len(ps) <= Len(ps) /\ Len(ps) <= Len(t)
    BY <1>1
  <2> QED
    BY <1>1, <1>2, <1>3, <2>1, JoinsAgree
<1>7. Joined(t) = JoinStep(Len(t), Joined(ps), p)
  BY <1>1, <1>2, <1>3, <1>4, <1>5, <1>6
<1> QED
  BY <1>5, <1>7 DEF t, JoinStep

\* One piece is its own text.
LEMMA JoinedOfOne ==
  ASSUME NEW S, "/" \in S, NEW p \in PartsOf(S)
  PROVE  Joined(<<p>>) = p
<1>1. <<>> \in Seq(PartsOf(S)) /\ Append(<<>>, p) = <<p>>
  OBVIOUS
<1> QED
  BY <1>1, JoinedOfAppend

\* What holds of the empty sequence and survives Append holds of every sequence.
LEMMA ByAppending ==
  ASSUME NEW S, NEW G, <<>> \in G, \A s \in Seq(S), x \in S : s \in G => Append(s, x) \in G
  PROVE  \A s \in Seq(S) : s \in G
<1> DEFINE B == {n \in Nat : \E s \in Seq(S) : Len(s) = n /\ s \notin G}
<1>1. SUFFICES ASSUME B # {} PROVE FALSE
  OBVIOUS
<1>2. PICK n \in B : \A m \in B : n <= m
  <2>1. B \subseteq Nat
    OBVIOUS
  <2> HIDE DEF B
  <2> QED
    BY <1>1, <2>1, LeastNatural
<1>3. PICK s \in Seq(S) : Len(s) = n /\ s \notin G
  BY <1>2
<1>4. s # <<>>
  BY <1>3
<1>5. PICK t \in Seq(S), x \in S : s = Append(t, x)
  BY <1>4, SequenceEmptyOrAppend
<1>6. Len(t) \in Nat /\ n = Len(t) + 1
  BY <1>3, <1>5, AppendProperties
<1>7. t \notin G
  BY <1>3, <1>5
<1>8. Len(t) \in B
  BY <1>6, <1>7
<1> HIDE DEF B
<1> QED
  BY <1>2, <1>6, <1>8

\* Append goes to the second of two texts.
LEMMA AppendAfter ==
  ASSUME NEW S, NEW s \in Seq(S), NEW t \in Seq(S), NEW x \in S
  PROVE  s \o Append(t, x) = Append(s \o t, x)
<1>1. s \o t \in Seq(S) /\ <<x>> \in Seq(S) /\ Append(t, x) = t \o <<x>>
  BY ConcatProperties, AppendIsConcat
<1>2. Append(s \o t, x) = (s \o t) \o <<x>>
  BY <1>1, AppendIsConcat
<1> QED
  BY <1>1, <1>2, ConcatAssociative

\* A character that is no slash extends the last piece.
LEMMA SplitStepOfAppend ==
  ASSUME NEW S, NEW ps \in Seq(PartsOf(S)), NEW p \in PartsOf(S), NEW x \in S, x # "/"
  PROVE  SplitStep(Append(ps, p), x) = Append(ps, Append(p, x)) /\ Append(p, x) \in PartsOf(S)
<1> DEFINE qs == Append(ps, p)
           q == Append(p, x)
<1>1. q \in PartsOf(S)
  BY AppendProperties DEF PartsOf
<1> HIDE DEF PartsOf, q
<1>2. qs \in Seq(PartsOf(S)) /\ Len(qs) = Len(ps) + 1 /\ Len(ps) \in Nat /\ qs[Len(qs)] = p
      /\ \A i \in 1 .. Len(ps) : qs[i] = ps[i]
  BY AppendProperties
<1>3. SplitStep(qs, x) = [qs EXCEPT ![Len(qs)] = q]
  BY <1>2 DEF SplitStep, q
<1> HIDE DEF qs
<1>4. Append(ps, q) \in Seq(PartsOf(S)) /\ Len(Append(ps, q)) = Len(ps) + 1
      /\ Append(ps, q)[Len(ps) + 1] = q /\ \A i \in 1 .. Len(ps) : Append(ps, q)[i] = ps[i]
  BY <1>1, AppendProperties
<1>5. [qs EXCEPT ![Len(qs)] = q] \in Seq(PartsOf(S)) /\ Len([qs EXCEPT ![Len(qs)] = q]) = Len(qs)
      /\ \A j \in 1 .. Len(qs) : [qs EXCEPT ![Len(qs)] = q][j] = IF j = Len(qs) THEN q ELSE qs[j]
  BY <1>1, <1>2, ExceptSeq
<1>6. Len(Append(ps, q)) = Len([qs EXCEPT ![Len(qs)] = q])
  BY <1>2, <1>4, <1>5
<1>7. ASSUME NEW i \in 1 .. Len(Append(ps, q)) PROVE Append(ps, q)[i] = [qs EXCEPT ![Len(qs)] = q][i]
  <2>1. /\ Len(Append(ps, q)) = Len(ps) + 1 /\ Len(qs) = Len(ps) + 1 /\ Len(ps) \in Nat
    BY <1>2, <1>4
  <2>2. i \in 1 .. Len(qs) /\ (i = Len(qs) \/ (i \in 1 .. Len(ps) /\ i # Len(qs))) /\ Len(qs) = Len(ps) + 1
    BY <2>1
  <2>3. [qs EXCEPT ![Len(qs)] = q][i] = IF i = Len(qs) THEN q ELSE qs[i]
    BY <1>5, <2>2, Zenon
  <2>4. CASE i = Len(qs)
    BY <1>4, <2>2, <2>3, <2>4, Zenon
  <2>5. CASE i \in 1 .. Len(ps) /\ i # Len(qs)
    BY <1>2, <1>4, <2>3, <2>5, Zenon
  <2> QED
    BY <2>2, <2>4, <2>5
<1>8. Append(ps, q) = [qs EXCEPT ![Len(qs)] = q]
  BY <1>4, <1>5, <1>6, <1>7, SeqEqual, Zenon
<1> QED
  BY <1>1, <1>3, <1>8 DEF q, qs

\* A piece is not split.
LEMMA SplitOfPart ==
  ASSUME NEW S, NEW p \in PartsOf(S)
  PROVE  Split(p) = <<p>>
<1> DEFINE G == {q \in PartsOf(S) : Split(q) = <<q>>}
<1>1. <<>> \in G
  BY SplitOfNothing DEF PartsOf
<1>2. ASSUME NEW q \in PartsOf(S), NEW x \in S \ {"/"}, q \in G PROVE Append(q, x) \in G
  <2>1. q \in Seq(S) /\ Split(q) = <<q>> /\ <<q>> = Append(<<>>, q) /\ <<>> \in Seq(PartsOf(S))
    BY <1>2, PartsAreTexts
  <2>2. Split(Append(q, x)) = SplitStep(<<q>>, x)
    BY <2>1, SplitOfAppend
  <2>3. SplitStep(<<q>>, x) = Append(<<>>, Append(q, x)) /\ Append(q, x) \in PartsOf(S)
    <3>1. x \in S /\ x # "/"
      OBVIOUS
    <3>2. SplitStep(Append(<<>>, q), x) = Append(<<>>, Append(q, x)) /\ Append(q, x) \in PartsOf(S)
      BY <2>1, <3>1, SplitStepOfAppend
    <3> QED
      BY <2>1, <3>2
  <2> QED
    BY <2>2, <2>3
<1>3. \A q \in Seq(S \ {"/"}) : q \in G
  <2> HIDE DEF G
  <2> QED
    BY <1>1, <1>2, ByAppending DEF PartsOf
<1> QED
  BY <1>3 DEF PartsOf

\* What follows the last slash is the last piece.
LEMMA SplitAtSlash ==
  ASSUME NEW S, "/" \in S, NEW s \in Seq(S), NEW p \in PartsOf(S)
  PROVE  Split(s \o <<"/">> \o p) = Append(Split(s), p)
<1> DEFINE G == {q \in PartsOf(S) : Split(s \o <<"/">> \o q) = Append(Split(s), q)}
           ps == Split(s)
<1>0. ps \in Seq(PartsOf(S))
  BY SplitType DEF PiecesOf
<1>1. <<>> \in G
  <2>1. <<>> \in PartsOf(S) /\ Append(s, "/") \in Seq(S)
    BY AppendProperties DEF PartsOf
  <2>2. s \o <<"/">> \o <<>> = Append(s, "/")
    BY <2>1, SlashBetween, ConcatEmptySeq
  <2>3. Split(Append(s, "/")) = Append(ps, <<>>)
    BY SplitOfAppend DEF SplitStep
  <2> QED
    BY <2>1, <2>2, <2>3
<1>2. ASSUME NEW q \in PartsOf(S), NEW x \in S \ {"/"}, q \in G PROVE Append(q, x) \in G
  <2>1. q \in Seq(S) /\ Split(s \o <<"/">> \o q) = Append(ps, q)
    BY <1>2, PartsAreTexts
  <2>2. Append(q, x) \in Seq(S)
    BY <2>1, AppendProperties
  <2>3. s \o <<"/">> \o Append(q, x) = Append(s \o <<"/">> \o q, x)
    <3>1. Append(s, "/") \in Seq(S)
      BY AppendProperties
    <3>2. Append(s, "/") \o Append(q, x) = Append(Append(s, "/") \o q, x)
      BY <2>1, <3>1, AppendAfter
    <3> QED
      BY <2>1, <2>2, <3>2, SlashBetween
  <2>4. Split(s \o <<"/">> \o Append(q, x)) = SplitStep(Append(ps, q), x)
    BY <2>1, <2>3, SlashBetween, SplitOfAppend, ZenonT(40)
  <2>5. SplitStep(Append(ps, q), x) = Append(ps, Append(q, x)) /\ Append(q, x) \in PartsOf(S)
    BY <1>0, SplitStepOfAppend
  <2> QED
    BY <2>4, <2>5
<1>3. \A q \in Seq(S \ {"/"}) : q \in G
  <2> HIDE DEF G
  <2> QED
    BY <1>1, <1>2, ByAppending DEF PartsOf
<1> QED
  BY <1>3 DEF PartsOf

\* split("/") takes apart what join("/") put together.
LEMMA SplitOfJoined ==
  ASSUME NEW S, "/" \in S, NEW ps \in PiecesOf(S)
  PROVE  Split(Joined(ps)) = ps
<1> DEFINE G == {qs \in Seq(PartsOf(S)) : qs # <<>> => Split(Joined(qs)) = qs}
<1>1. <<>> \in G
  OBVIOUS
<1>2. ASSUME NEW qs \in Seq(PartsOf(S)), NEW p \in PartsOf(S), qs \in G PROVE Append(qs, p) \in G
  <2>1. Joined(qs) \in Seq(S) /\ Append(qs, p) \in Seq(PartsOf(S))
    BY JoinedType, AppendProperties
  <2>2. CASE qs = <<>>
    <3>1. Joined(Append(qs, p)) = p
      BY <2>2, JoinedOfAppend
    <3>2. Append(qs, p) = <<p>>
      BY <2>2
    <3> QED
      BY <2>1, <3>1, <3>2, SplitOfPart
  <2>3. CASE qs # <<>>
    <3>1. Joined(Append(qs, p)) = Joined(qs) \o <<"/">> \o p
      BY <2>3, JoinedOfAppend
    <3>2. Split(Joined(Append(qs, p))) = Append(qs, p)
      BY <1>2, <2>1, <2>3, <3>1, SplitAtSlash
    <3> QED
      BY <2>1, <3>2
  <2> QED
    BY <2>2, <2>3
<1>3. \A qs \in Seq(PartsOf(S)) : qs \in G
  <2> HIDE DEF G, PartsOf
  <2> QED
    BY <1>1, <1>2, ByAppending
<1> QED
  BY <1>3 DEF PiecesOf

\* join("/") puts together what split("/") took apart.
LEMMA JoinedOfSplit ==
  ASSUME NEW S, "/" \in S, NEW s \in Seq(S)
  PROVE  Joined(Split(s)) = s
<1> DEFINE G == {t \in Seq(S) : Joined(Split(t)) = t}
<1>1. <<>> \in G
  <2>1. <<>> \in PartsOf(S)
    BY DEF PartsOf
  <2> QED
    BY <2>1, SplitOfNothing, JoinedOfOne
<1>2. ASSUME NEW t \in Seq(S), NEW x \in S, t \in G PROVE Append(t, x) \in G
  <2>1. Split(t) \in PiecesOf(S) /\ Split(Append(t, x)) = SplitStep(Split(t), x) /\ Joined(Split(t)) = t
        /\ Append(t, x) \in Seq(S)
    BY <1>2, SplitOfAppend
  <2>2. CASE x = "/"
    <3>1. <<>> \in PartsOf(S) /\ Split(t) \in Seq(PartsOf(S)) /\ Split(t) # <<>>
      BY <2>1 DEF PartsOf, PiecesOf
    <3>2. Split(Append(t, x)) = Append(Split(t), <<>>)
      BY <2>1, <2>2 DEF SplitStep
    <3>3. Joined(Append(Split(t), <<>>)) = t \o <<"/">> \o <<>>
      BY <2>1, <3>1, JoinedOfAppend
    <3>4. t \o <<"/">> \o <<>> = Append(t, x)
      BY <2>1, <2>2, SlashBetween, ConcatEmptySeq
    <3> QED
      BY <2>1, <3>2, <3>3, <3>4
  <2>3. CASE x # "/"
    <3>1. Split(t) \in Seq(PartsOf(S)) /\ Split(t) # <<>>
      BY <2>1 DEF PiecesOf
    <3>2. PICK ps \in Seq(PartsOf(S)), p \in PartsOf(S) : Split(t) = Append(ps, p)
      <4> HIDE DEF PartsOf
      <4> QED
        BY <3>1, SequenceEmptyOrAppend
    <3>3. Split(Append(t, x)) = Append(ps, Append(p, x)) /\ Append(p, x) \in PartsOf(S)
      BY <2>1, <2>3, <3>2, SplitStepOfAppend
    <3>4. Joined(Append(ps, Append(p, x))) =
          IF ps = <<>> THEN Append(p, x) ELSE Joined(ps) \o <<"/">> \o Append(p, x)
      BY <3>3, JoinedOfAppend
    <3>5. t = IF ps = <<>> THEN p ELSE Joined(ps) \o <<"/">> \o p
      BY <2>1, <3>2, JoinedOfAppend
    <3>6. Joined(ps) \in Seq(S) /\ p \in Seq(S) /\ Append(p, x) \in Seq(S)
      BY <3>3, JoinedType, PartsAreTexts
    <3>7. Joined(ps) \o <<"/">> \o Append(p, x) = Append(Joined(ps) \o <<"/">> \o p, x)
      <4>1. Append(Joined(ps), "/") \in Seq(S)
        BY <3>6, AppendProperties
      <4>2. Append(Joined(ps), "/") \o Append(p, x) = Append(Append(Joined(ps), "/") \o p, x)
        BY <3>6, <4>1, AppendAfter
      <4> QED
        BY <3>6, <4>2, SlashBetween
    <3> QED
      BY <2>1, <3>3, <3>4, <3>5, <3>7
  <2> QED
    BY <2>2, <2>3
<1>3. \A t \in Seq(S) : t \in G
  <2> HIDE DEF G
  <2> QED
    BY <1>1, <1>2, ByAppending
<1> QED
  BY <1>3

\* Two lists of pieces joined one after the other.
LEMMA JoinedOfConcat ==
  ASSUME NEW S, "/" \in S, NEW ps \in PiecesOf(S), NEW qs \in PiecesOf(S)
  PROVE  Joined(ps \o qs) = Joined(ps) \o <<"/">> \o Joined(qs) /\ ps \o qs \in PiecesOf(S)
<1> DEFINE P == PartsOf(S)
           G == {rs \in Seq(P) : rs # <<>> => Joined(ps \o rs) = Joined(ps) \o <<"/">> \o Joined(rs)}
<1>1. ps \in Seq(P) /\ ps # <<>> /\ qs \in Seq(P) /\ qs # <<>>
  BY DEF PiecesOf
<1> HIDE DEF P
<1>2. \A rs \in Seq(P) : Joined(rs) \in Seq(S)
  BY JoinedType DEF P
<1>3. \A rs \in Seq(P), p \in P : Joined(Append(rs, p)) = IF rs = <<>> THEN p ELSE Joined(rs) \o <<"/">> \o p
  BY JoinedOfAppend DEF P
<1>4. <<>> \in G
  OBVIOUS
<1>5. ASSUME NEW rs \in Seq(P), NEW p \in P, rs \in G PROVE Append(rs, p) \in G
  <2>1. ps \o rs \in Seq(P) /\ Append(rs, p) \in Seq(P) /\ ps \o Append(rs, p) = Append(ps \o rs, p)
    BY <1>1, ConcatProperties, AppendProperties, AppendAfter
  <2>2. ps \o rs # <<>>
    BY <1>1, ConcatEqualIffEmpty
  <2>3. Joined(ps \o Append(rs, p)) = Joined(ps \o rs) \o <<"/">> \o p
    BY <1>3, <2>1, <2>2
  <2>4. p \in Seq(S)
    BY PartsAreTexts DEF P
  <2>5. CASE rs = <<>>
    <3>1. ps \o rs = ps /\ Joined(Append(rs, p)) = p
      BY <1>1, <1>3, <2>5, ConcatEmptySeq
    <3> QED
      BY <2>1, <2>3, <3>1
  <2>6. CASE rs # <<>>
    <3>1. Joined(ps \o rs) = Joined(ps) \o <<"/">> \o Joined(rs) /\ Joined(Append(rs, p)) = Joined(rs) \o <<"/">> \o p
      BY <1>3, <1>5, <2>6
    <3>2. Joined(ps) \in Seq(S) /\ Joined(rs) \in Seq(S) /\ <<"/">> \in Seq(S)
      BY <1>1, <1>2
    <3> DEFINE a == Joined(ps) \o <<"/">>
               b == Joined(rs) \o <<"/">>
    <3>3. a \in Seq(S) /\ b \in Seq(S)
      BY <3>2, ConcatProperties
    <3>4. a \o Joined(rs) \o <<"/">> = a \o b
      <4> HIDE DEF a
      <4> QED
        BY <3>2, <3>3, ConcatAssociative
    <3>5. a \o b \o p = a \o (b \o p)
      <4> HIDE DEF a, b
      <4> QED
        BY <2>4, <3>3, ConcatAssociative
    <3> QED
      BY <2>1, <2>3, <3>1, <3>4, <3>5
  <2> QED
    BY <2>5, <2>6
<1>6. \A rs \in Seq(P) : rs \in G
  <2> HIDE DEF G
  <2> QED
    BY <1>4, <1>5, ByAppending
<1>7. ps \o qs \in Seq(P) /\ ps \o qs # <<>>
  BY <1>1, ConcatProperties, ConcatEqualIffEmpty
<1> QED
  BY <1>1, <1>6, <1>7 DEF P, PiecesOf

\* Two texts with a slash between them are cut where each of them is.
LEMMA SplitOfConcat ==
  ASSUME NEW S, "/" \in S, NEW s \in Seq(S), NEW t \in Seq(S)
  PROVE  Split(s \o <<"/">> \o t) = Split(s) \o Split(t)
<1>1. Split(s) \in PiecesOf(S) /\ Split(t) \in PiecesOf(S) /\ Joined(Split(s)) = s /\ Joined(Split(t)) = t
  BY SplitType, JoinedOfSplit
<1>2. Joined(Split(s) \o Split(t)) = s \o <<"/">> \o t /\ Split(s) \o Split(t) \in PiecesOf(S)
  BY <1>1, JoinedOfConcat
<1> QED
  BY <1>2, SplitOfJoined

(***************************************************************************)
(* cleanComponents                                                         *)
(***************************************************************************)
DotNames == {<<>>, <<".">>, <<".", ".">>}

NamesIn(parts) == {parts[i] : i \in 1 .. Len(parts)} \ DotNames

CleanStep(r, part, absolute, outsideCode) ==
  Then(r, LAMBDA kept :
    IF part \in {<<>>, <<".">>} THEN Ok(kept)
    ELSE IF part # <<".", ".">> THEN Ok(Append(kept, part))
    ELSE IF kept # <<>> THEN Ok(Front(kept))
    ELSE Unless(~absolute, outsideCode, Ok(kept)))

CleanResults(parts, outsideCode) ==
  {Ok(kept) : kept \in Seq(NamesIn(parts))} \cup {Err(outsideCode)}

\* One step of cleanComponents returns kept names or its error.
LEMMA CleanStepType ==
  ASSUME NEW parts, NEW i \in 1 .. Len(parts), NEW absolute, NEW outsideCode, outsideCode # "ok",
         NEW r \in CleanResults(parts, outsideCode)
  PROVE  CleanStep(r, parts[i], absolute, outsideCode) \in CleanResults(parts, outsideCode)
<1> DEFINE part == parts[i]
           N == NamesIn(parts)
<1>1. CASE r = Err(outsideCode)
  <2>1. CleanStep(r, part, absolute, outsideCode) = r
    BY <1>1 DEF CleanStep, Then, IsOk, Err
  <2> QED
    BY <2>1
<1>2. ASSUME NEW kept \in Seq(N), r = Ok(kept)
      PROVE  CleanStep(r, part, absolute, outsideCode) \in CleanResults(parts, outsideCode)
  <2> DEFINE next == CleanStep(r, part, absolute, outsideCode)
  <2>1. r.code = "ok" /\ r.value = kept
    BY <1>2 DEF Ok
  <2>2. CASE part \in {<<>>, <<".">>}
    <3>1. next = Ok(kept)
      BY <2>1, <2>2, Zenon DEF CleanStep, Then, IsOk
    <3> QED
      BY <3>1 DEF CleanResults
  <2>3. CASE part \notin {<<>>, <<".">>} /\ part # <<".", ".">>
    <3>1. next = Ok(Append(kept, part))
      BY <2>1, <2>3, Zenon DEF CleanStep, Then, IsOk
    <3>2. part \in N
      BY <2>3 DEF NamesIn, DotNames
    <3> HIDE DEF part, N
    <3>3. Append(kept, part) \in Seq(N)
      BY <3>2, AppendProperties
    <3> QED
      BY <3>1, <3>3 DEF CleanResults, N
  <2>4. CASE part \notin {<<>>, <<".">>} /\ part = <<".", ".">> /\ kept # <<>>
    <3>1. next = Ok(Front(kept))
      BY <2>1, <2>4, Zenon DEF CleanStep, Then, IsOk
    <3> HIDE DEF N
    <3>2. Front(kept) \in Seq(N)
      <4>1. Len(kept) \in Nat /\ \A j \in 1 .. Len(kept) - 1 : kept[j] \in N
        OBVIOUS
      <4> QED
        BY <4>1, SubSeqProperties DEF Front
    <3> QED
      BY <3>1, <3>2 DEF CleanResults, N
  <2>5. CASE part \notin {<<>>, <<".">>} /\ part = <<".", ".">> /\ ~(kept # <<>>)
    <3>1. next = Unless(~absolute, outsideCode, Ok(kept))
      BY <2>1, <2>5, Zenon DEF CleanStep, Then, IsOk
    <3> QED
      BY <3>1 DEF CleanResults, Unless
  <2> QED
    BY <2>2, <2>3, <2>4, <2>5
<1> QED
  BY <1>1, <1>2 DEF CleanResults

\* The function that CleanComponents is defined by.
Cleans(h, parts, absolute, outsideCode) ==
  h[0] = Ok(<<>>)
  /\ \A i \in 1 .. Len(parts) : h[i] = CleanStep(h[i - 1], parts[i], absolute, outsideCode)

\* CleanComponents is what its recursion over the pieces describes.
LEMMA CleanIsRecursive ==
  ASSUME NEW rest, NEW absolute, NEW outsideCode, outsideCode # "ok", Len(Split(rest)) \in Nat
  PROVE  \E f \in [0 .. Len(Split(rest)) -> CleanResults(Split(rest), outsideCode)] :
           /\ Cleans(f, Split(rest), absolute, outsideCode)
           /\ CleanComponents(rest, absolute, outsideCode) = f[Len(Split(rest))]
<1> DEFINE parts == Split(rest)
           base == Ok(<<>>)
           V == CleanResults(parts, outsideCode)
           n == Len(parts)
           step == [i \in 1 .. n |-> [v \in V |-> CleanStep(v, parts[i], absolute, outsideCode)]]
           Eq(h) == h = [i \in 0 .. Len(parts) |->
                          IF i = 0 THEN Ok(<<>>)
                          ELSE LET part == parts[i]
                               IN Then(h[i - 1], LAMBDA kept :
                                    IF part \in {<<>>, <<".">>} THEN Ok(kept)
                                    ELSE IF part # <<".", ".">> THEN Ok(Append(kept, part))
                                    ELSE IF kept # <<>> THEN Ok(Front(kept))
                                    ELSE Unless(~absolute, outsideCode, Ok(kept)))]
<1>1. n \in Nat
  OBVIOUS
<1>2. base \in V
  <2>1. <<>> \in Seq(NamesIn(parts))
    OBVIOUS
  <2> QED
    BY <2>1 DEF CleanResults
<1>3. step \in [1 .. n -> [V -> V]]
  BY <1>1, CleanStepType
<1>4. \A i \in 1 .. n : \A v \in V : step[i][v] = CleanStep(v, parts[i], absolute, outsideCode)
  OBVIOUS
<1>5. PICK f \in [0 .. n -> V] : Recursive(f, n, base, step)
  <2> HIDE DEF base, step, V, n
  <2> QED
    BY <1>1, <1>2, <1>3, RecursionExists
<1>6. Cleans(f, parts, absolute, outsideCode)
  <2>1. f[0] = base
    BY <1>5 DEF Recursive
  <2>2. ASSUME NEW i \in 1 .. n PROVE f[i] = CleanStep(f[i - 1], parts[i], absolute, outsideCode)
    <3>1. f[i - 1] \in V
      BY <1>1
    <3>2. f[i] = step[i][f[i - 1]]
      BY <1>5 DEF Recursive
    <3> HIDE DEF step, V
    <3> QED
      BY <1>4, <3>1, <3>2
  <2> QED
    BY <2>1, <2>2 DEF Cleans
<1>7. \A h : Eq(h) <=> h = [i \in 0 .. n |->
                               IF i = 0 THEN base ELSE CleanStep(h[i - 1], parts[i], absolute, outsideCode)]
  BY Zenon DEF CleanStep
<1>8. Eq(f)
  <2>1. f[0] = base
    BY <1>6 DEF Cleans
  <2>2. \A i \in 1 .. n : f[i] = CleanStep(f[i - 1], parts[i], absolute, outsideCode)
    BY <1>6 DEF Cleans
  <2> HIDE DEF Eq, base, n
  <2>3. \A i \in 0 .. n : f[i] = IF i = 0 THEN base ELSE CleanStep(f[i - 1], parts[i], absolute, outsideCode)
    BY <1>1, <2>1, <2>2
  <2>4. f = [i \in 0 .. n |-> IF i = 0 THEN base ELSE CleanStep(f[i - 1], parts[i], absolute, outsideCode)]
    BY <2>3
  <2> QED
    BY <1>7, <2>4, Zenon
<1> DEFINE c == CHOOSE h : Eq(h)
<1>9. Eq(c)
  <2> HIDE DEF Eq
  <2> QED
    BY <1>8, Zenon
<1>10. CleanComponents(rest, absolute, outsideCode) = c[n]
  BY Zenon DEF CleanComponents
<1> HIDE DEF Eq, c
<1>11. c = [i \in 0 .. n |-> IF i = 0 THEN base ELSE CleanStep(c[i - 1], parts[i], absolute, outsideCode)]
  BY <1>7, <1>9, Zenon
<1>12. c[0] = base /\ \A i \in 1 .. n : c[i] = CleanStep(c[i - 1], parts[i], absolute, outsideCode)
  <2> HIDE DEF base, n
  <2> QED
    BY <1>1, <1>11
<1>13. \A i \in 1 .. n : c[i - 1] \in V => c[i] = step[i][c[i - 1]]
  <2> HIDE DEF step, V, n
  <2> QED
    BY <1>4, <1>12
<1>14. \A i \in 0 .. n : c[i] = f[i]
  <2>1. Follows(c, n, V, base, step)
    BY <1>12, <1>13 DEF Follows
  <2> HIDE DEF base, step, V, n
  <2> QED
    BY <1>1, <1>5, <2>1, RecursionFollowed
<1>15. CleanComponents(rest, absolute, outsideCode) = f[n]
  <2> HIDE DEF n
  <2> QED
    BY <1>1, <1>10, <1>14
<1> QED
  BY <1>6, <1>15

RealNames(S) == PartsOf(S) \ DotNames

\* The text has these names in this order, after dots and doubled slashes only.
Reads(rest, kept) ==
  \E lead \in Seq({<<>>, <<".">>}) : Split(rest) = lead \o kept

\* A text has finitely many pieces.
LEMMA SplitLength ==
  ASSUME NEW S, NEW s \in Seq(S)
  PROVE  Len(Split(s)) \in Nat
BY SplitType, PiecesHaveLast

\* cleanComponents keeps real names of the text only, or fails with its own code.
LEMMA CleanedAreNames ==
  ASSUME NEW S, NEW rest \in Seq(S), NEW absolute, NEW outsideCode, outsideCode # "ok"
  PROVE  /\ CleanComponents(rest, absolute, outsideCode) \in CleanResults(Split(rest), outsideCode)
         /\ NamesIn(Split(rest)) \subseteq RealNames(S)
<1>1. Len(Split(rest)) \in Nat
  BY SplitLength
<1>2. PICK f \in [0 .. Len(Split(rest)) -> CleanResults(Split(rest), outsideCode)] :
           /\ Cleans(f, Split(rest), absolute, outsideCode)
           /\ CleanComponents(rest, absolute, outsideCode) = f[Len(Split(rest))]
  BY <1>1, CleanIsRecursive
<1>3. \A i \in 1 .. Len(Split(rest)) : Split(rest)[i] \in PartsOf(S)
  BY SplitType, PiecesHaveLast
<1>4. Len(Split(rest)) \in 0 .. Len(Split(rest))
  BY <1>1
<1> QED
  BY <1>2, <1>3, <1>4 DEF NamesIn, RealNames

\* A text that reads as names is cleaned to exactly these names.
LEMMA CleanReads ==
  ASSUME NEW S, NEW rest \in Seq(S), NEW kept \in Seq(RealNames(S)), Reads(rest, kept),
         NEW absolute, NEW outsideCode, outsideCode # "ok"
  PROVE  CleanComponents(rest, absolute, outsideCode) = Ok(kept)
<1> DEFINE parts == Split(rest)
           R == RealNames(S)
           D == {<<>>, <<".">>}
<1>1. PICK lead \in Seq(D) : parts = lead \o kept
  BY DEF Reads
<1>2. Len(parts) \in Nat
  BY SplitLength
<1>3. PICK f \in [0 .. Len(parts) -> CleanResults(parts, outsideCode)] :
           /\ Cleans(f, parts, absolute, outsideCode)
           /\ CleanComponents(rest, absolute, outsideCode) = f[Len(parts)]
  BY <1>2, CleanIsRecursive
<1> DEFINE L == Len(lead)
           now(k) == Ok(SubSeq(kept, 1, k - L))
           B == {k \in 0 .. Len(parts) : f[k] # now(k)}
<1>4. L \in Nat /\ Len(kept) \in Nat /\ Len(parts) = L + Len(kept)
      /\ (\A i \in 1 .. L : parts[i] \in D) /\ (\A i \in 1 .. Len(kept) : parts[L + i] = kept[i] /\ kept[i] \in R)
  <2> HIDE DEF D, R
  <2>1. lead \in Seq(D \cup R) /\ kept \in Seq(D \cup R)
    BY SeqMonotonic DEF R
  <2>2. L \in Nat /\ Len(kept) \in Nat
    BY DEF R
  <2>3. Len(parts) = L + Len(kept) /\ \A i \in 1 .. L + Len(kept) :
          parts[i] = IF i <= L THEN lead[i] ELSE kept[i - L]
    BY <1>1, <2>1, ConcatProperties
  <2> HIDE DEF parts
  <2>4. \A i \in 1 .. L : parts[i] \in D
    BY <2>2, <2>3
  <2>5. ASSUME NEW i \in 1 .. Len(kept) PROVE parts[L + i] = kept[i] /\ kept[i] \in R
    BY <2>2, <2>3 DEF R
  <2> QED
    BY <2>2, <2>3, <2>4, <2>5
<1>5. SubSeq(kept, 1, Len(kept)) = kept
  BY SubSeqFull
<1> HIDE DEF parts
<1>6. B = {}
  <2> SUFFICES ASSUME B # {} PROVE FALSE
    OBVIOUS
  <2>1. PICK k \in B : \A m \in B : k <= m
    <3>1. B \subseteq Nat
      BY <1>2
    <3> HIDE DEF B
    <3> QED
      BY <3>1, LeastNatural
  <2>2. CASE k = 0
    <3>1. f[0] = Ok(<<>>)
      BY <1>3 DEF Cleans
    <3>2. SubSeq(kept, 1, 0 - L) = <<>>
      BY <1>4, SubSeqEmpty
    <3> QED
      BY <2>1, <2>2, <3>1, <3>2
  <2>3. CASE k # 0
    <3>1. k \in 1 .. Len(parts) /\ k - 1 \in 0 .. Len(parts) /\ ~(k <= k - 1)
      BY <1>2, <2>3
    <3>2. f[k - 1] = now(k - 1)
      <4>1. k - 1 \notin B
        <5> HIDE DEF B
        <5> QED
          BY <2>1, <3>1
      <4> QED
        BY <3>1, <4>1
    <3>3. f[k] = CleanStep(now(k - 1), parts[k], absolute, outsideCode)
      <4> HIDE DEF now
      <4> QED
        BY <1>3, <3>1, <3>2 DEF Cleans
    <3>4. now(k - 1).code = "ok" /\ now(k - 1).value = SubSeq(kept, 1, k - 1 - L)
      BY DEF Ok
    <3>5. CASE k <= L
      <4>1. parts[k] \in {<<>>, <<".">>}
        BY <1>4, <3>1, <3>5
      <4>2. f[k] = Ok(SubSeq(kept, 1, k - 1 - L))
        <5> HIDE DEF now
        <5> QED
          BY <3>3, <3>4, <4>1, Zenon DEF CleanStep, Then, IsOk
      <4>3. SubSeq(kept, 1, k - 1 - L) = <<>> /\ SubSeq(kept, 1, k - L) = <<>>
        BY <1>4, <3>1, <3>5, SubSeqEmpty
      <4> QED
        BY <2>1, <4>2, <4>3
    <3>6. CASE ~(k <= L)
      <4> DEFINE j == k - L
      <4>1. j \in 1 .. Len(kept) /\ k = L + j
        BY <1>4, <3>1, <3>6
      <4>2. parts[k] = kept[j] /\ kept[j] \in R
        <5> HIDE DEF j, R
        <5> QED
          BY <1>4, <4>1
      <4>3. parts[k] \notin {<<>>, <<".">>} /\ parts[k] # <<".", ".">>
        BY <4>2 DEF RealNames, DotNames
      <4>4. f[k] = Ok(Append(SubSeq(kept, 1, k - 1 - L), kept[j]))
        <5> HIDE DEF now, j
        <5> QED
          BY <3>3, <3>4, <4>2, <4>3, Zenon DEF CleanStep, Then, IsOk
      <4>5. SubSeq(kept, 1, j) = Append(SubSeq(kept, 1, j - 1), kept[j])
        <5>1. 1 \in 1 .. Len(kept)
          BY <1>4, <4>1
        <5> HIDE DEF j, R
        <5>2. SubSeq(kept, 1, j) = SubSeq(kept, 1, j - 1) \o << kept[j] >>
          BY <4>1, <5>1, SubSeqRecursiveSecond
        <5>3. SubSeq(kept, 1, j - 1) \in Seq(R)
          <6>1. j - 1 \in Int /\ \A i \in 1 .. j - 1 : kept[i] \in R
            BY <1>4, <4>1
          <6> QED
            BY <6>1, SubSeqProperties
        <5> QED
          BY <4>2, <5>2, <5>3, AppendIsConcat
      <4>6. k - 1 - L = j - 1
        BY <1>4, <3>1
      <4> QED
        BY <2>1, <4>4, <4>5, <4>6
    <3> QED
      BY <3>5, <3>6
  <2> QED
    BY <2>2, <2>3
<1>7. f[Len(parts)] = now(Len(parts))
  <2>1. Len(parts) \in 0 .. Len(parts)
    BY <1>2
  <2> HIDE DEF now
  <2> QED
    BY <1>6, <2>1, Zenon
<1>8. Len(parts) - L = Len(kept)
  BY <1>4
<1> QED
  BY <1>3, <1>5, <1>7, <1>8 DEF parts

\* Real names are pieces.
LEMMA RealNamesArePieces ==
  ASSUME NEW S, NEW kept \in Seq(RealNames(S))
  PROVE  kept \in Seq(PartsOf(S)) /\ (kept # <<>> => kept \in PiecesOf(S))
BY SeqMonotonic DEF RealNames, PiecesOf

\* Joined names read as themselves.
LEMMA ReadsJoined ==
  ASSUME NEW S, "/" \in S, NEW kept \in Seq(RealNames(S))
  PROVE  Reads(Joined(kept), kept) /\ Joined(kept) \in Seq(S)
<1>1. kept \in Seq(PartsOf(S)) /\ (kept # <<>> => kept \in PiecesOf(S))
  BY RealNamesArePieces
<1>2. Joined(kept) \in Seq(S)
  BY <1>1, JoinedType
<1>3. CASE kept = <<>>
  <2>1. Split(Joined(kept)) = << <<>> >>
    BY <1>3, JoinedOfNothing, SplitOfNothing
  <2>2. << <<>> >> \in Seq({<<>>, <<".">>}) /\ << <<>> >> \o <<>> = << <<>> >>
    OBVIOUS
  <2> QED
    BY <1>2, <1>3, <2>1, <2>2 DEF Reads
<1>4. CASE kept # <<>>
  <2>1. Split(Joined(kept)) = kept
    BY <1>1, <1>4, SplitOfJoined
  <2>2. <<>> \in Seq({<<>>, <<".">>}) /\ <<>> \o kept = kept
    BY ConcatEmptySeq
  <2> QED
    BY <1>2, <2>1, <2>2 DEF Reads
<1> QED
  BY <1>3, <1>4

\* A dot reads as no name.
LEMMA ReadsDot ==
  Reads(<<".">>, <<>>)
<1>1. <<".">> \in PartsOf({"."})
  BY DEF PartsOf
<1>2. Split(<<".">>) = << <<".">> >>
  BY <1>1, SplitOfPart
<1>3. << <<".">> >> \in Seq({<<>>, <<".">>}) /\ << <<".">> >> \o <<>> = << <<".">> >>
  OBVIOUS
<1> QED
  BY <1>2, <1>3 DEF Reads

\* The relative marker changes nothing of what is read.
LEMMA ReadsMarked ==
  ASSUME NEW S, {".", "/"} \subseteq S, NEW rest \in Seq(S), NEW kept \in Seq(RealNames(S)), Reads(rest, kept)
  PROVE  Reads(<<".", "/">> \o rest, kept) /\ <<".", "/">> \o rest \in Seq(S)
<1> DEFINE D == {<<>>, <<".">>}
<1>1. PICK lead \in Seq(D) : Split(rest) = lead \o kept
  BY DEF Reads
<1>2. <<".">> \in Seq(S) /\ <<".", "/">> = <<".">> \o <<"/">> /\ <<".", "/">> \in Seq(S)
  OBVIOUS
<1>3. Split(<<".", "/">> \o rest) = Split(<<".">>) \o Split(rest)
  BY <1>2, SplitOfConcat
<1>4. Split(<<".">>) = << <<".">> >>
  <2>1. <<".">> \in PartsOf({"."})
    BY DEF PartsOf
  <2> QED
    BY <2>1, SplitOfPart
<1>5. << <<".">> >> \in Seq(D)
  OBVIOUS
<1>6. << <<".">> >> \o (lead \o kept) = (<< <<".">> >> \o lead) \o kept /\ << <<".">> >> \o lead \in Seq(D)
  <2> HIDE DEF D
  <2> DEFINE Y == D \cup RealNames(S)
             d == << <<".">> >>
  <2>1. lead \in Seq(Y) /\ kept \in Seq(Y) /\ d \in Seq(Y)
    BY <1>5, SeqMonotonic
  <2> HIDE DEF Y
  <2>2. d \o lead \in Seq(D)
    BY <1>5, ConcatProperties
  <2> HIDE DEF d
  <2>3. d \o (lead \o kept) = (d \o lead) \o kept
    BY <2>1, ConcatAssociative, SMTT(30)
  <2> QED
    BY <2>2, <2>3 DEF d
<1>7. <<".", "/">> \o rest \in Seq(S)
  BY <1>2, ConcatProperties
<1> QED
  BY <1>1, <1>3, <1>4, <1>6, <1>7 DEF Reads

\* More names after a slash are read after the first ones.
LEMMA ReadsLonger ==
  ASSUME NEW S, "/" \in S, NEW rest \in Seq(S), NEW kept \in Seq(RealNames(S)), Reads(rest, kept),
         NEW more \in Seq(RealNames(S)), more # <<>>
  PROVE  Reads(rest \o <<"/">> \o Joined(more), kept \o more) /\ rest \o <<"/">> \o Joined(more) \in Seq(S)
<1> DEFINE D == {<<>>, <<".">>}
<1>1. PICK lead \in Seq(D) : Split(rest) = lead \o kept
  BY DEF Reads
<1>2. Joined(more) \in Seq(S) /\ Split(Joined(more)) = more
  BY RealNamesArePieces, JoinedType, SplitOfJoined
<1>3. Split(rest \o <<"/">> \o Joined(more)) = (lead \o kept) \o more
  <2>1. Split(rest \o <<"/">> \o Joined(more)) = Split(rest) \o Split(Joined(more))
    BY <1>2, SplitOfConcat
  <2> QED
    BY <1>1, <1>2, <2>1, Zenon
<1>4. (lead \o kept) \o more = lead \o (kept \o more)
  <2> HIDE DEF D
  <2> DEFINE Y == D \cup RealNames(S)
  <2>1. lead \in Seq(Y) /\ kept \in Seq(Y) /\ more \in Seq(Y)
    BY SeqMonotonic
  <2> HIDE DEF Y
  <2> QED
    BY <2>1, ConcatAssociative, SMTT(30)
<1> QED
  BY <1>2, <1>3, <1>4, SlashBetween DEF Reads

\* The real names in a text are the names it reads as.
LEMMA ReadsNames ==
  ASSUME NEW S, NEW rest, NEW kept \in Seq(RealNames(S)), Reads(rest, kept)
  PROVE  NamesIn(Split(rest)) = {kept[i] : i \in 1 .. Len(kept)}
<1> DEFINE D == {<<>>, <<".">>}
           R == RealNames(S)
<1>1. PICK lead \in Seq(D) : Split(rest) = lead \o kept
  BY DEF Reads
<1> DEFINE parts == Split(rest)
<1>2. D \cap R = {} /\ D \subseteq DotNames /\ R \cap DotNames = {}
  BY DEF RealNames, DotNames
<1> HIDE DEF D, R
<1>3. lead \in Seq(D \cup R) /\ kept \in Seq(D \cup R)
  BY SeqMonotonic DEF R
<1>4. Len(lead) \in Nat /\ Len(kept) \in Nat /\ (\A i \in 1 .. Len(lead) : lead[i] \in D)
      /\ \A i \in 1 .. Len(kept) : kept[i] \in R
  BY DEF R
<1>5. Len(parts) = Len(lead) + Len(kept) /\ \A i \in 1 .. Len(lead) + Len(kept) :
        parts[i] = IF i <= Len(lead) THEN lead[i] ELSE kept[i - Len(lead)]
  BY <1>1, <1>3, ConcatProperties
<1> HIDE DEF parts
<1>6. ASSUME NEW i \in 1 .. Len(parts), parts[i] \notin DotNames
      PROVE  \E j \in 1 .. Len(kept) : parts[i] = kept[j]
  <2>1. ~(i <= Len(lead))
    BY <1>2, <1>4, <1>5, <1>6
  <2>2. i - Len(lead) \in 1 .. Len(kept) /\ parts[i] = kept[i - Len(lead)]
    BY <1>4, <1>5, <2>1
  <2> QED
    BY <2>2
<1>7. ASSUME NEW j \in 1 .. Len(kept)
      PROVE  kept[j] \notin DotNames /\ \E i \in 1 .. Len(parts) : parts[i] = kept[j]
  <2>1. Len(lead) + j \in 1 .. Len(parts) /\ parts[Len(lead) + j] = kept[j]
    BY <1>4, <1>5
  <2> QED
    BY <1>2, <1>4, <2>1
<1>8. NamesIn(parts) \subseteq {kept[i] : i \in 1 .. Len(kept)}
  BY <1>6 DEF NamesIn
<1>9. {kept[i] : i \in 1 .. Len(kept)} \subseteq NamesIn(parts)
  BY <1>7 DEF NamesIn
<1>10. NamesIn(parts) = {kept[i] : i \in 1 .. Len(kept)}
  BY <1>8, <1>9
<1> QED
  BY <1>10 DEF parts

(***************************************************************************)
(* Beginnings and ends of texts                                            *)
(***************************************************************************)
\* Two signs one after the other.
LEMMA Pair ==
  ASSUME NEW S, NEW a \in S, NEW b \in S
  PROVE  <<a>> \o <<b>> = <<a, b>> /\ <<a, b>> \in Seq(S) /\ <<a>> \in Seq(S)
<1> DEFINE u == <<a>> \o <<b>>
           w == <<a, b>>
<1>1. w \in Seq(S) /\ Len(w) = 2 /\ w[1] = a /\ w[2] = b /\ <<a>> \in Seq(S) /\ <<b>> \in Seq(S)
  OBVIOUS
<1>2. u \in Seq(S) /\ Len(u) = 2 /\ u[1] = a /\ u[2] = b
  OBVIOUS
<1> HIDE DEF u, w
<1>3. u = w
  <2>1. \A i \in 1 .. Len(u) : u[i] = w[i]
    BY <1>1, <1>2
  <2> QED
    BY <1>1, <1>2, <2>1, SeqEqual
<1> QED
  BY <1>1, <1>3 DEF u, w
\* Two signs before a text, together or one by one.
LEMMA PairBefore ==
  ASSUME NEW S, NEW a \in S, NEW b \in S, NEW s \in Seq(S)
  PROVE  <<a, b>> \o s = <<a>> \o (<<b>> \o s)
<1>1. <<a>> \in Seq(S) /\ <<b>> \in Seq(S)
  OBVIOUS
<1>2. <<a>> \o <<b>> \o s = <<a>> \o (<<b>> \o s)
  BY <1>1, ConcatAssociative
<1> QED
  BY <1>2, Pair

\* What From returns: the tail of a text.
LEMMA FromType ==
  ASSUME NEW S, NEW v \in Seq(S), NEW i \in Nat \ {0}
  PROVE  /\ From(v, i) \in Seq(S)
         /\ Len(From(v, i)) = IF i <= Len(v) THEN Len(v) - i + 1 ELSE 0
         /\ \A j \in 1 .. Len(v) - i + 1 : From(v, i)[j] = v[i + j - 1]
<1>1. \A j \in i .. Len(v) : v[j] \in S
  OBVIOUS
<1>2. Len(v) \in Int /\ i \in Int
  OBVIOUS
<1> QED
  BY <1>1, <1>2, SubSeqProperties DEF From

\* What startsWith tests.
LEMMA StartsWithMeans ==
  ASSUME NEW S, NEW v \in Seq(S), NEW p \in Seq(S)
  PROVE  StartsWith(v, p) <=> Len(p) <= Len(v) /\ \A i \in 1 .. Len(p) : v[i] = p[i]
<1>1. SubSeq(p, 1, Len(p)) = p /\ Len(p) \in Nat /\ Len(v) \in Nat
  BY SubSeqFull
<1>2. ASSUME Len(p) <= Len(v)
      PROVE  SubSeq(v, 1, Len(p)) \in Seq(S) /\ Len(SubSeq(v, 1, Len(p))) = Len(p)
             /\ \A i \in 1 .. Len(p) : SubSeq(v, 1, Len(p))[i] = v[i]
  <2>1. \A j \in 1 .. Len(p) : v[j] \in S
    BY <1>1, <1>2
  <2>2. 1 \in Int /\ Len(p) \in Int
    OBVIOUS
  <2>3. SubSeq(v, 1, Len(p)) \in Seq(S) /\ Len(SubSeq(v, 1, Len(p))) = (IF 1 <= Len(p) THEN Len(p) - 1 + 1 ELSE 0)
        /\ \A i \in 1 .. Len(p) - 1 + 1 : SubSeq(v, 1, Len(p))[i] = v[1 + i - 1]
    BY <2>1, <2>2, SubSeqProperties
  <2>4. Len(SubSeq(v, 1, Len(p))) = Len(p)
    BY <1>1, <2>3
  <2>5. ASSUME NEW i \in 1 .. Len(p) PROVE SubSeq(v, 1, Len(p))[i] = v[i]
    <3>1. i \in 1 .. Len(p) - 1 + 1 /\ 1 + i - 1 = i
      BY <1>1
    <3> QED
      BY <2>3, <3>1
  <2> QED
    BY <2>3, <2>4, <2>5
<1>3. ASSUME StartsWith(v, p)
      PROVE  Len(p) <= Len(v) /\ \A i \in 1 .. Len(p) : v[i] = p[i]
  <2>1. Len(p) <= Len(v) /\ p = SubSeq(v, 1, Len(p))
    BY <1>1, <1>3 DEF StartsWith, IsPrefix
  <2> QED
    BY <1>2, <2>1
<1>4. ASSUME Len(p) <= Len(v), \A i \in 1 .. Len(p) : v[i] = p[i]
      PROVE  StartsWith(v, p)
  <2>1. SubSeq(v, 1, Len(p)) = p
    BY <1>2, <1>4, SeqEqual
  <2> QED
    BY <1>1, <1>4, <2>1 DEF StartsWith, IsPrefix
<1> QED
  BY <1>3, <1>4

\* A text starts with what was put before it, and the rest follows.
LEMMA StartsWithConcat ==
  ASSUME NEW S, NEW p \in Seq(S), NEW t \in Seq(S)
  PROVE  StartsWith(p \o t, p) /\ From(p \o t, Len(p) + 1) = t
<1> DEFINE v == p \o t
<1>1. v \in Seq(S) /\ Len(v) = Len(p) + Len(t) /\ Len(p) \in Nat /\ Len(t) \in Nat
      /\ \A i \in 1 .. Len(p) + Len(t) : v[i] = IF i <= Len(p) THEN p[i] ELSE t[i - Len(p)]
  BY ConcatProperties
<1> HIDE DEF v
<1>2. StartsWith(v, p)
  BY <1>1, StartsWithMeans, SMTT(30)
<1>3. From(v, Len(p) + 1) \in Seq(S) /\ Len(From(v, Len(p) + 1)) = Len(t)
      /\ \A j \in 1 .. Len(t) : From(v, Len(p) + 1)[j] = t[j]
  <2>1. Len(p) + 1 \in Nat \ {0}
    BY <1>1
  <2>2. From(v, Len(p) + 1) \in Seq(S)
        /\ Len(From(v, Len(p) + 1)) = (IF Len(p) + 1 <= Len(v) THEN Len(v) - (Len(p) + 1) + 1 ELSE 0)
        /\ \A j \in 1 .. Len(v) - (Len(p) + 1) + 1 : From(v, Len(p) + 1)[j] = v[(Len(p) + 1) + j - 1]
    BY <1>1, <2>1, FromType
  <2>3. ASSUME NEW j \in 1 .. Len(t) PROVE From(v, Len(p) + 1)[j] = t[j]
    <3> DEFINE i == Len(p) + j
    <3>1. Len(v) = Len(p) + Len(t) /\ Len(p) \in Nat /\ Len(t) \in Nat
      BY <1>1
    <3>2. /\ j \in 1 .. Len(v) - (Len(p) + 1) + 1 /\ (Len(p) + 1) + j - 1 = i
          /\ i \in 1 .. Len(p) + Len(t) /\ ~(i <= Len(p)) /\ i - Len(p) = j
      BY <3>1
    <3>3. From(v, Len(p) + 1)[j] = v[i]
      BY <2>2, <3>2
    <3> HIDE DEF i
    <3>4. v[i] = t[i - Len(p)]
      BY <1>1, <3>2
    <3> QED
      BY <3>2, <3>3, <3>4, Zenon
  <2> QED
    BY <1>1, <2>2, <2>3
<1> QED
  BY <1>2, <1>3, SeqEqual DEF v

\* A text that starts with a prefix is the prefix and the rest.
LEMMA StartsWithGives ==
  ASSUME NEW S, NEW v \in Seq(S), NEW p \in Seq(S), StartsWith(v, p)
  PROVE  v = p \o From(v, Len(p) + 1) /\ From(v, Len(p) + 1) \in Seq(S)
<1>1. Len(p) \in Nat /\ Len(v) \in Nat /\ Len(p) <= Len(v) /\ SubSeq(p, 1, Len(p)) = SubSeq(v, 1, Len(p))
  BY DEF StartsWith, IsPrefix
<1>2. SubSeq(p, 1, Len(p)) = p /\ SubSeq(v, 1, Len(v)) = v
  BY SubSeqFull
<1>3. SubSeq(v, 1, Len(p)) \o SubSeq(v, Len(p) + 1, Len(v)) = SubSeq(v, 1, Len(v))
  <2>1. 1 \in 1 .. Len(v) + 1 /\ Len(p) \in 1 - 1 .. Len(v) /\ Len(v) \in Len(p) .. Len(v)
    BY <1>1
  <2> QED
    BY <2>1, ConcatAdjacentSubSeq
<1>4. From(v, Len(p) + 1) \in Seq(S)
  <2>1. Len(p) + 1 \in Nat \ {0}
    BY <1>1
  <2> QED
    BY <2>1, FromType
<1> QED
  BY <1>1, <1>2, <1>3, <1>4, Zenon DEF From

\* A real name is a text that is not empty and has no slash.
LEMMA NamesAreTexts ==
  ASSUME NEW S, NEW p \in RealNames(S)
  PROVE  /\ p \in Seq(S) /\ p \in PartsOf(S) /\ Len(p) \in Nat \ {0}
         /\ \A i \in 1 .. Len(p) : p[i] \in S /\ p[i] # "/"
<1>1. p \in Seq(S \ {"/"}) /\ p # <<>>
  BY DEF RealNames, PartsOf, DotNames
<1>2. p \in Seq(S)
  BY <1>1, SeqMonotonic
<1> QED
  BY <1>1, <1>2 DEF PartsOf

\* What joined names look like at their start.
LEMMA JoinedStarts ==
  ASSUME NEW S, "/" \in S, NEW kept \in Seq(RealNames(S)), kept # <<>>
  PROVE  /\ Joined(kept) \in Seq(S) /\ Len(Joined(kept)) \in Nat \ {0} /\ Joined(kept)[1] # "/"
         /\ Split(Joined(kept)) = kept /\ Joined(kept) # <<".">> /\ ~StartsWith(Joined(kept), <<".", "/">>)
<1> DEFINE s == Joined(kept)
<1>1. s \in Seq(S) /\ Split(s) = kept
  BY RealNamesArePieces, JoinedType, SplitOfJoined
<1>2. Len(kept) \in Nat \ {0} /\ kept[1] \in RealNames(S)
  BY EmptySeq
<1>3. kept[1] \notin DotNames
  BY <1>2 DEF RealNames
<1> HIDE DEF s
<1>4. s # <<>>
  BY <1>1, <1>3, SplitOfNothing DEF DotNames
<1>5. Len(s) \in Nat \ {0}
  BY <1>1, <1>4, EmptySeq
<1>6. \A p \in PartsOf(S) : kept[1] # p => s # p
  BY <1>1, SplitOfPart
<1>7. ASSUME NEW p \in PartsOf(S), p \in DotNames, StartsWith(s, p \o <<"/">>) PROVE FALSE
  <2>1. p \in Seq(S) /\ <<"/">> \in Seq(S)
    BY PartsAreTexts
  <2>2. p \o <<"/">> \in Seq(S)
    BY <2>1, ConcatProperties
  <2>3. PICK t \in Seq(S) : s = p \o <<"/">> \o t
    <3> DEFINE q == p \o <<"/">>
    <3>1. StartsWith(s, q) /\ q \in Seq(S)
      BY <1>7, <2>2
    <3> HIDE DEF q
    <3>2. s = q \o From(s, Len(q) + 1) /\ From(s, Len(q) + 1) \in Seq(S)
      BY <1>1, <3>1, StartsWithGives
    <3>3. \E t \in Seq(S) : s = q \o t
      BY <3>2
    <3> QED
      BY <3>3 DEF q
  <2>4. Split(s) = <<p>> \o Split(t)
    BY <2>1, <2>3, SplitOfConcat, SplitOfPart, ZenonT(40)
  <2>5. Split(t) \in Seq(PartsOf(S)) /\ <<p>> \in Seq(PartsOf(S)) /\ Len(<<p>>) = 1
    BY SplitType DEF PiecesOf
  <2>6. (<<p>> \o Split(t))[1] = p
    <3> HIDE DEF PartsOf
    <3>1. 1 \in 1 .. Len(<<p>>) + Len(Split(t)) /\ 1 <= Len(<<p>>)
      BY <2>5
    <3>2. (<<p>> \o Split(t))[1] = <<p>>[1]
      BY <2>5, <3>1, ConcatProperties
    <3> QED
      BY <3>2
  <2> QED
    BY <1>1, <1>3, <1>7, <2>4, <2>6
<1>8. s[1] # "/"
  <2> SUFFICES ASSUME s[1] = "/" PROVE FALSE
    OBVIOUS
  <2>1. <<>> \in PartsOf(S) /\ <<>> \in DotNames /\ <<>> \o <<"/">> = <<"/">> /\ <<"/">> \in Seq(S)
    BY DEF PartsOf, DotNames
  <2>2. StartsWith(s, <<"/">>)
    <3>1. Len(<<"/">>) <= Len(s) /\ \A i \in 1 .. Len(<<"/">>) : s[i] = <<"/">>[i]
      BY <1>5
    <3> QED
      BY <1>1, <2>1, <3>1, StartsWithMeans
  <2> QED
    BY <1>7, <2>1, <2>2
<1>9. s # <<".">>
  <2> SUFFICES ASSUME s = <<".">> PROVE FALSE
    OBVIOUS
  <2>1. <<".">> \in PartsOf({"."})
    BY DEF PartsOf
  <2>2. kept = << <<".">> >>
    BY <1>1, <2>1, SplitOfPart
  <2> QED
    BY <1>3, <2>2 DEF DotNames
<1>10. ~StartsWith(s, <<".", "/">>)
  <2> SUFFICES ASSUME StartsWith(s, <<".", "/">>) PROVE FALSE
    OBVIOUS
  <2>0. Len(s) >= 1 /\ s[1] = "."
    <3> DEFINE X == S \cup {"."}
    <3>1. s \in Seq(X) /\ <<".", "/">> \in Seq(X) /\ Len(<<".", "/">>) = 2 /\ <<".", "/">>[1] = "."
      BY <1>1, SeqMonotonic
    <3> HIDE DEF X
    <3>2. Len(<<".", "/">>) <= Len(s) /\ \A i \in 1 .. Len(<<".", "/">>) : s[i] = <<".", "/">>[i]
      BY <3>1, StartsWithMeans, ZenonT(40)
    <3>3. 1 \in 1 .. Len(<<".", "/">>)
      BY <3>1
    <3> QED
      BY <1>5, <3>1, <3>2, <3>3
  <2>1. "." \in S
    BY <1>1, <1>5, <2>0
  <2>2. <<".">> \in PartsOf(S) /\ <<".">> \in DotNames
    BY <2>1 DEF PartsOf, DotNames
  <2>3. <<".">> \o <<"/">> = <<".", "/">>
    BY <2>1, Pair
  <2> QED
    BY <1>7, <2>2, <2>3
<1> QED
  BY <1>1, <1>5, <1>8, <1>9, <1>10 DEF s

(***************************************************************************)
(* Roots and identities                                                    *)
(***************************************************************************)
\* The symbols that the functions put into a text themselves.
Written == {"/", "\\", ".", "?", ":", "-", NUL, "UNC", "mnt", "component", "v2", "ref", "sha256"}
           \cup Letters \cup {"localhost", "CON"}
           \cup {"file", "#", "Assets", "UnityMcpKnowledge", "Library", "SGGUnityMcp", "Temp"}
Symbols == Written \cup STRING \cup {ToString(ref) : ref \in Refs}
Alphabet(kind) == Symbols \ (IF IsWindowsRoot(kind) THEN {NUL, "\\"} ELSE {NUL})
NamesOf(kind) == RealNames(Alphabet(kind))

RootAt(kind, prefix) ==
  \/ kind = "relative" /\ prefix = <<>>
  \/ kind = "posix" /\ prefix = <<"/">>
  \/ kind = "drive" /\ \E l \in LowerLetters : prefix = <<l, ":", "/">>
  \/ kind = "extended-drive" /\ \E l \in LowerLetters : prefix = ExtendedMark \o <<l, ":", "/">>
  \/ kind = "unc" /\ \E a \in NamesOf(kind), b \in NamesOf(kind) :
       a # <<"?">> /\ prefix = <<"/", "/">> \o a \o <<"/">> \o b
  \/ kind = "extended-unc" /\ \E a \in NamesOf(kind), b \in NamesOf(kind) :
       prefix = ExtendedMark \o <<"UNC", "/">> \o a \o <<"/">> \o b

Uncs == {"unc", "extended-unc"}

Whole(kind, prefix, parts) ==
  IF kind = "relative" THEN MarkRelative(Joined(parts))
  ELSE IF parts = <<>> THEN prefix
  ELSE prefix \o (IF kind \in Uncs THEN <<"/">> ELSE <<>>) \o Joined(parts)

\* The signs that the code writes are in every alphabet.
LEMMA Signs ==
  ASSUME NEW kind
  PROVE  /\ {"/", ".", "?", ":", "UNC"} \cup Letters \subseteq Alphabet(kind)
         /\ "/" \in Alphabet(kind) /\ NUL \notin Alphabet(kind) /\ Alphabet(kind) \subseteq Symbols
         /\ LowerLetters \subseteq Letters /\ "/" \notin Letters /\ "." \notin Letters
         /\ \A l \in Letters : Lower(l) \in LowerLetters
         /\ \A l \in LowerLetters : Lower(l) = l
<1>1. {"/", ".", "?", ":", "UNC"} \cup Letters \subseteq Alphabet(kind)
  <2>1. ASSUME NEW x \in {"/", ".", "?", ":", "UNC"} \cup Letters PROVE x \in Written /\ x # NUL /\ x # "\\"
    BY DEF Letters, NUL, Written
  <2> QED
    BY <2>1 DEF Alphabet, Symbols
<1>2. NUL \notin Alphabet(kind) /\ Alphabet(kind) \subseteq Symbols
  BY DEF Alphabet
<1>3. LowerLetters \subseteq Letters /\ "/" \notin Letters /\ "." \notin Letters
  BY DEF Letters, LowerLetters
<1>4. Lower("C") = "c" /\ Lower("D") = "d"
  BY DEF Lower
<1>5. Lower("c") = "c" /\ Lower("d") = "d"
  BY DEF Lower
<1> QED
  BY <1>1, <1>2, <1>3, <1>4, <1>5 DEF Letters, LowerLetters

\* A text that the code takes for a root of this kind, with these names under it.
Denotes(v, kind, prefix, parts) ==
  /\ v \in Seq(Alphabet(kind)) /\ v # <<>>
  /\ RootAt(kind, prefix) /\ parts \in Seq(NamesOf(kind))
  /\ \E rest \in Seq(Alphabet(kind)) :
       /\ ParsedRoot(v) = Ok(Root(kind, prefix, rest)) /\ Reads(rest, parts)
       /\ rest = IF kind = "relative" THEN v ELSE Joined(parts)

\* Every root but the relative one starts with a slash or a drive letter.
LEMMA RootAtLength ==
  ASSUME NEW kind, NEW prefix, RootAt(kind, prefix)
  PROVE  prefix \in Seq(Alphabet(kind)) /\ (kind # "relative" => prefix # <<>> /\ prefix[1] \in LowerLetters \cup {"/"})
<1> DEFINE S == Alphabet(kind)
<1>0. {"/", ".", "?", ":", "UNC"} \cup LowerLetters \subseteq S
  BY Signs
<1> HIDE DEF S
<1>1. CASE kind = "relative" /\ prefix = <<>>
  BY <1>1
<1>2. CASE kind = "posix" /\ prefix = <<"/">>
  <2>1. <<"/">> \in Seq(S) /\ <<"/">> # <<>> /\ <<"/">>[1] = "/"
    BY <1>0
  <2> QED
    BY <1>2, <2>1 DEF S
<1>3. ASSUME NEW l \in LowerLetters, prefix = <<l, ":", "/">>
      PROVE  prefix \in Seq(S) /\ prefix # <<>> /\ prefix[1] \in LowerLetters \cup {"/"}
  BY <1>0, <1>3
<1>4. ASSUME NEW l \in LowerLetters, prefix = ExtendedMark \o <<l, ":", "/">>
      PROVE  prefix \in Seq(S) /\ prefix # <<>> /\ prefix[1] \in LowerLetters \cup {"/"}
  BY <1>0, <1>4 DEF ExtendedMark
<1>5. ASSUME NEW a \in NamesOf(kind), NEW b \in NamesOf(kind), NEW mark \in {<<"/", "/">>, ExtendedMark \o <<"UNC", "/">>},
             prefix = mark \o a \o <<"/">> \o b
      PROVE  prefix \in Seq(S) /\ prefix # <<>> /\ prefix[1] \in LowerLetters \cup {"/"}
  <2>1. mark \in Seq(S) /\ Len(mark) \in Nat /\ Len(mark) >= 1 /\ mark[1] = "/"
    <3>1. CASE mark = <<"/", "/">>
      BY <1>0, <3>1
    <3>2. CASE mark = ExtendedMark \o <<"UNC", "/">>
      BY <1>0, <3>2 DEF ExtendedMark
    <3> QED
      BY <3>1, <3>2
  <2>2. a \in Seq(S) /\ b \in Seq(S)
    BY NamesAreTexts DEF NamesOf, S
  <2>3. mark \o a \in Seq(S) /\ Len(mark \o a) >= 1 /\ (mark \o a)[1] = "/"
    BY <2>1, <2>2
  <2>4. mark \o a \o <<"/">> \in Seq(S) /\ Len(mark \o a \o <<"/">>) >= 1 /\ (mark \o a \o <<"/">>)[1] = "/"
    BY <1>0, <2>3
  <2>5. prefix \in Seq(S) /\ Len(prefix) >= 1 /\ prefix[1] = "/"
    BY <1>5, <2>2, <2>4
  <2> QED
    BY <2>5
<1>6. CASE kind = "drive" /\ \E l \in LowerLetters : prefix = <<l, ":", "/">>
  BY <1>3, <1>6 DEF S
<1>7. CASE kind = "extended-drive" /\ \E l \in LowerLetters : prefix = ExtendedMark \o <<l, ":", "/">>
  BY <1>4, <1>7 DEF S
<1>8. CASE kind \in Uncs
  BY <1>5, <1>8 DEF RootAt, S, Uncs
<1> QED
  BY <1>1, <1>2, <1>6, <1>7, <1>8 DEF RootAt, S, Uncs

\* What the three tests for drives look at.
LEMMA DriveRootMeans ==
  ASSUME NEW S, NEW v \in Seq(S)
  PROVE  /\ NeedsRelativeMarker(v) <=> Len(v) >= 2 /\ v[1] \in Letters /\ v[2] = ":"
         /\ HasDriveRoot(v) <=> Len(v) >= 3 /\ v[1] \in Letters /\ v[2] = ":" /\ v[3] = "/"
         /\ IsDriveRelative(v) <=> Len(v) >= 2 /\ v[1] \in Letters /\ v[2] = ":" /\ (Len(v) = 2 \/ v[3] # "/")
BY DEF NeedsRelativeMarker, HasDriveRoot, IsDriveRelative, IsAsciiLetter

\* splitRoot recognizes a drive, plain or under the extended mark.
LEMMA ParsedDrive ==
  ASSUME NEW S, {"/", "?", ":", "UNC"} \cup Letters \subseteq S, NEW l \in Letters, NEW t \in Seq(S)
  PROVE  /\ ParsedRoot(<<l, ":", "/">> \o t) = Ok(Root("drive", <<Lower(l), ":", "/">>, t))
         /\ ParsedRoot(ExtendedMark \o (<<l, ":", "/">> \o t))
              = Ok(Root("extended-drive", ExtendedMark \o <<Lower(l), ":", "/">>, t))
<1> DEFINE v == <<l, ":", "/">> \o t
           w == ExtendedMark \o v
<1>0. ExtendedMark \in Seq(S) /\ Len(ExtendedMark) = 4 /\ ExtendedMark[1] = "/" /\ "/" \notin Letters
      /\ <<l, ":", "/">> \in Seq(S) /\ Len(<<l, ":", "/">>) = 3
  BY DEF ExtendedMark, Letters
<1>1. v \in Seq(S) /\ Len(v) >= 3 /\ v[1] = l /\ v[2] = ":" /\ v[3] = "/"
  OBVIOUS
<1>2. HasDriveRoot(v) /\ ~StartsWith(v, ExtendedMark)
  <2> HIDE DEF v
  <2>1. HasDriveRoot(v)
    BY <1>1, DriveRootMeans
  <2>2. 1 \in 1 .. Len(ExtendedMark) /\ v[1] # ExtendedMark[1]
    BY <1>0, <1>1
  <2> QED
    BY <1>0, <1>1, <2>1, <2>2, StartsWithMeans
<1>3. From(v, 4) = t
  <2> DEFINE p == <<l, ":", "/">>
  <2>1. p \in Seq(S) /\ Len(p) + 1 = 4
    BY <1>0
  <2> HIDE DEF p
  <2>2. From(p \o t, Len(p) + 1) = t
    BY <2>1, StartsWithConcat
  <2> QED
    BY <2>1, <2>2 DEF p
<1>4. StartsWith(w, ExtendedMark) /\ From(w, 5) = v
  <2> HIDE DEF v
  <2>1. StartsWith(w, ExtendedMark) /\ From(w, Len(ExtendedMark) + 1) = v
    BY <1>0, <1>1, StartsWithConcat
  <2>2. Len(ExtendedMark) + 1 = 5
    BY <1>0
  <2> QED
    BY <2>1, <2>2
<1>5. <<>> \o <<Lower(l), ":", "/">> = <<Lower(l), ":", "/">>
  <2>1. <<Lower(l), ":", "/">> \in Seq({Lower(l), ":", "/"})
    OBVIOUS
  <2> QED
    BY <2>1, ConcatEmptySeq
<1>6. DriveRoot("drive", <<>>, v) = Ok(Root("drive", <<Lower(l), ":", "/">>, t))
  BY <1>1, <1>3, <1>5 DEF DriveRoot
<1>7. DriveRoot("extended-drive", ExtendedMark, v) = Ok(Root("extended-drive", ExtendedMark \o <<Lower(l), ":", "/">>, t))
  BY <1>1, <1>3 DEF DriveRoot
<1> HIDE DEF v, w
<1>8. ParsedRoot(v) = DriveRoot("drive", <<>>, v)
  BY <1>2 DEF ParsedRoot
<1>9. ParsedRoot(w) = DriveRoot("extended-drive", ExtendedMark, v)
  BY <1>2, <1>4 DEF ParsedRoot
<1> QED
  BY <1>6, <1>7, <1>8, <1>9 DEF v, w

\* splitRoot recognizes a POSIX root.
LEMMA ParsedPosix ==
  ASSUME NEW S, {"/", "?"} \subseteq S, NEW t \in Seq(S), t # <<>> => t[1] # "/"
  PROVE  ParsedRoot(<<"/">> \o t) = Ok(Root("posix", <<"/">>, t))
<1> DEFINE v == <<"/">> \o t
<1>1. v \in Seq(S) /\ Len(v) = Len(t) + 1 /\ v[1] = "/" /\ (Len(v) >= 2 => v[2] # "/") /\ v # <<>>
  OBVIOUS
<1>2. Tail(v) = t
  <2>1. <<"/">> \in Seq(S) /\ Len(<<"/">>) = 1
    OBVIOUS
  <2>2. From(v, 2) = t
    <3> DEFINE p == <<"/">>
    <3>1. p \in Seq(S) /\ Len(p) + 1 = 2
      BY <2>1
    <3> HIDE DEF p
    <3>2. From(p \o t, Len(p) + 1) = t
      BY <3>1, StartsWithConcat
    <3> QED
      BY <3>1, <3>2 DEF p
  <2> HIDE DEF v
  <2> QED
    BY <1>1, <2>2, TailIsSubSeq DEF From
<1> HIDE DEF v
<1>3. \A m \in Seq(S) : Len(m) >= 2 /\ m[2] = "/" => ~StartsWith(v, m)
  <2> SUFFICES ASSUME NEW m \in Seq(S), Len(m) >= 2, m[2] = "/", StartsWith(v, m) PROVE FALSE
    OBVIOUS
  <2>1. Len(m) <= Len(v) /\ \A i \in 1 .. Len(m) : v[i] = m[i]
    BY <1>1, StartsWithMeans
  <2>2. 2 \in 1 .. Len(m) /\ Len(v) >= 2
    BY <1>1, <2>1
  <2> QED
    BY <1>1, <2>1, <2>2
<1>4. ExtendedMark \in Seq(S) /\ Len(ExtendedMark) >= 2 /\ ExtendedMark[2] = "/"
      /\ <<"/", "/">> \in Seq(S) /\ Len(<<"/", "/">>) >= 2 /\ <<"/", "/">>[2] = "/"
  BY DEF ExtendedMark
<1>5. ~StartsWith(v, ExtendedMark) /\ ~StartsWith(v, <<"/", "/">>)
  BY <1>3, <1>4
<1>6. ~HasDriveRoot(v)
  BY <1>1, DriveRootMeans DEF Letters
<1>7. StartsWith(v, <<"/">>)
  <2>1. <<"/">> \in Seq(S)
    OBVIOUS
  <2> QED
    BY <2>1, StartsWithConcat DEF v
<1>8. ParsedRoot(v) = Ok(Root("posix", <<"/">>, t))
  BY <1>2, <1>5, <1>6, <1>7 DEF ParsedRoot
<1> QED
  BY <1>8 DEF v

(***************************************************************************)
(* What splitRoot recognizes                                               *)
(***************************************************************************)
\* The text before the first slash is the first piece.
LEMMA FirstPiece ==
  ASSUME NEW S, "/" \in S, NEW s \in Seq(S), NEW p \in PartsOf(S), StartsWith(s, p \o <<"/">>)
  PROVE  Split(s)[1] = p
<1> DEFINE q == p \o <<"/">>
<1>1. p \in Seq(S) /\ <<"/">> \in Seq(S)
  BY PartsAreTexts
<1>2. q \in Seq(S) /\ StartsWith(s, q)
  BY <1>1, ConcatProperties
<1> HIDE DEF q
<1>3. s = q \o From(s, Len(q) + 1) /\ From(s, Len(q) + 1) \in Seq(S)
  BY <1>2, StartsWithGives
<1> DEFINE t == From(s, Len(q) + 1)
<1>4. Split(s) = <<p>> \o Split(t)
  BY <1>1, <1>3, SplitOfConcat, SplitOfPart, ZenonT(40) DEF q
<1>5. Split(t) \in Seq(PartsOf(S)) /\ <<p>> \in Seq(PartsOf(S)) /\ Len(<<p>>) = 1 /\ <<p>>[1] = p
  BY <1>3, SplitType DEF PiecesOf
<1> HIDE DEF t, PartsOf
<1>6. 1 \in 1 .. Len(<<p>>) + Len(Split(t)) /\ 1 <= Len(<<p>>)
  BY <1>5
<1>7. (<<p>> \o Split(t))[1] = <<p>>[1]
  BY <1>5, <1>6, ConcatProperties
<1> QED
  BY <1>4, <1>5, <1>7

\* The length and the places of two texts put together.
LEMMA ConcatAt ==
  ASSUME NEW S, NEW p \in Seq(S), NEW t \in Seq(S)
  PROVE  /\ p \o t \in Seq(S) /\ Len(p \o t) = Len(p) + Len(t) /\ Len(p) \in Nat /\ Len(t) \in Nat
         /\ \A i \in 1 .. Len(p) : (p \o t)[i] = p[i]
         /\ \A i \in 1 .. Len(t) : (p \o t)[Len(p) + i] = t[i]
<1> DEFINE v == p \o t
<1>1. v \in Seq(S) /\ Len(v) = Len(p) + Len(t) /\ Len(p) \in Nat /\ Len(t) \in Nat
      /\ \A i \in 1 .. Len(p) + Len(t) : v[i] = IF i <= Len(p) THEN p[i] ELSE t[i - Len(p)]
  BY ConcatProperties
<1> HIDE DEF v
<1>2. ASSUME NEW i \in 1 .. Len(p) PROVE v[i] = p[i]
  BY <1>1
<1>3. ASSUME NEW i \in 1 .. Len(t) PROVE v[Len(p) + i] = t[i]
  <2>1. Len(p) + i \in 1 .. Len(p) + Len(t) /\ ~(Len(p) + i <= Len(p)) /\ Len(p) + i - Len(p) = i
    BY <1>1
  <2> QED
    BY <1>1, <2>1
<1> QED
  BY <1>1, <1>2, <1>3 DEF v

\* The first two of a list, and the rest.
LEMMA PairAndMore ==
  ASSUME NEW T, NEW a \in T, NEW b \in T, NEW parts \in Seq(T)
  PROVE  LET ps == <<a, b>> \o parts
         IN /\ ps \in Seq(T) /\ Len(ps) = 2 + Len(parts) /\ ps[1] = a /\ ps[2] = b
            /\ From(ps, 3) = parts /\ <<a, b>> \in Seq(T) /\ <<a, b>> # <<>>
<1> DEFINE p == <<a, b>>
<1>1. p \in Seq(T) /\ Len(p) = 2 /\ p[1] = a /\ p[2] = b /\ Len(p) + 1 = 3 /\ p # <<>>
  OBVIOUS
<1> HIDE DEF p
<1>2. From(p \o parts, Len(p) + 1) = parts
  BY <1>1, StartsWithConcat
<1>3. p \o parts \in Seq(T) /\ Len(p \o parts) = 2 + Len(parts) /\ (p \o parts)[1] = a /\ (p \o parts)[2] = b
  <2>1. 1 \in 1 .. Len(p) /\ 2 \in 1 .. Len(p)
    BY <1>1
  <2>2. /\ p \o parts \in Seq(T) /\ Len(p \o parts) = Len(p) + Len(parts)
        /\ \A i \in 1 .. Len(p) : (p \o parts)[i] = p[i]
    BY <1>1, ConcatAt, ZenonT(40)
  <2> QED
    BY <1>1, <2>1, <2>2
<1> QED
  BY <1>1, <1>2, <1>3 DEF p

\* Server and share make a UNC root, whatever follows them.
LEMMA UncRootOf ==
  ASSUME NEW kind, NEW mark, NEW S, NEW a \in RealNames(S), NEW b \in RealNames(S), NEW parts \in Seq(RealNames(S))
  PROVE  UncRoot(kind, mark, <<a, b>> \o parts)
         = Ok(Root(kind, mark \o a \o <<"/">> \o b, Joined(parts)))
<1> DEFINE ps == <<a, b>> \o parts
           T == RealNames(S)
<1>1. T \cap DotNames = {}
  BY DEF RealNames
<1> HIDE DEF T
<1>2. ps \in Seq(T) /\ Len(ps) = 2 + Len(parts) /\ ps[1] = a /\ ps[2] = b /\ From(ps, 3) = parts /\ Len(parts) \in Nat
  BY PairAndMore DEF T
<1> HIDE DEF ps
<1>3. UncOk(ps)
  <2>1. a \notin DotNames /\ b \notin DotNames
    BY <1>1 DEF T
  <2>2. Len(ps) >= 2
    BY <1>2
  <2> QED
    BY <1>2, <2>1, <2>2 DEF UncOk, DotNames
<1>4. UncRoot(kind, mark, ps) = Ok(Root(kind, mark \o a \o <<"/">> \o b, Joined(parts)))
  BY <1>2, <1>3 DEF UncRoot
<1> QED
  BY <1>4 DEF ps

\* The two names of a share and the names under it, in one text.
LEMMA ShareText ==
  ASSUME NEW S, {"/", "?"} \subseteq S, NEW a \in RealNames(S), NEW b \in RealNames(S), NEW parts \in Seq(RealNames(S))
  PROVE  LET t == Joined(<<a, b>> \o parts)
         IN /\ t \in Seq(S) /\ Split(t) = <<a, b>> \o parts
            /\ a # <<"?">> => ~StartsWith(t, <<"?", "/">>)
<1> DEFINE T == RealNames(S)
           ps == <<a, b>> \o parts
           t == Joined(ps)
<1>1. ps \in Seq(T) /\ ps # <<>> /\ ps[1] = a
  <2> HIDE DEF T
  <2>1. ps \in Seq(T) /\ Len(ps) = 2 + Len(parts) /\ ps[1] = a /\ Len(parts) \in Nat
    BY PairAndMore DEF T
  <2> HIDE DEF ps
  <2>2. Len(ps) # 0
    BY <2>1
  <2> QED
    BY <2>1, <2>2, EmptySeq
<1> HIDE DEF ps
<1>2. t \in Seq(S) /\ Split(t) = ps
  BY <1>1, RealNamesArePieces, JoinedType, SplitOfJoined
<1> HIDE DEF t
<1>3. ASSUME StartsWith(t, <<"?", "/">>) PROVE a = <<"?">>
  <2>1. <<"?">> \in PartsOf(S)
    BY DEF PartsOf
  <2>2. <<"?">> \o <<"/">> = <<"?", "/">>
    BY Pair
  <2>3. Split(t)[1] = <<"?">>
    BY <1>2, <1>3, <2>1, <2>2, FirstPiece
  <2> QED
    BY <1>1, <1>2, <2>3
<1> QED
  BY <1>2, <1>3 DEF t, ps

\* splitRoot recognizes a share.
LEMMA ParsedUnc ==
  ASSUME NEW S, {"/", "?", ":", "UNC"} \cup Letters \subseteq S,
         NEW a \in RealNames(S), NEW b \in RealNames(S), NEW parts \in Seq(RealNames(S)), a # <<"?">>
  PROVE  ParsedRoot(<<"/", "/">> \o Joined(<<a, b>> \o parts))
         = Ok(Root("unc", <<"/", "/">> \o a \o <<"/">> \o b, Joined(parts)))
<1> DEFINE t == Joined(<<a, b>> \o parts)
           m == <<"/", "/">>
           v == m \o t
<1>1. t \in Seq(S) /\ Split(t) = <<a, b>> \o parts /\ ~StartsWith(t, <<"?", "/">>)
  BY ShareText
<1> HIDE DEF t
<1>2. m \in Seq(S) /\ Len(m) = 2 /\ m[1] = "/" /\ m[2] = "/" /\ Len(m) + 1 = 3 /\ "/" \notin Letters
  BY DEF Letters
<1> HIDE DEF m
<1>3. v \in Seq(S) /\ Len(v) = 2 + Len(t) /\ v[1] = "/" /\ Len(t) \in Nat
      /\ \A i \in 1 .. Len(t) : v[2 + i] = t[i]
  <2>1. 1 \in 1 .. Len(m)
    BY <1>2
  <2>2. /\ v \in Seq(S) /\ Len(v) = Len(m) + Len(t) /\ Len(t) \in Nat
        /\ \A i \in 1 .. Len(m) : v[i] = m[i]
        /\ \A i \in 1 .. Len(t) : v[Len(m) + i] = t[i]
    <3>1. t \in Seq(S) /\ m \in Seq(S)
      BY <1>1, <1>2
    <3> QED
      BY <3>1, ConcatAt
  <2> HIDE DEF v
  <2> QED
    BY <1>2, <2>1, <2>2
<1>4. StartsWith(v, m) /\ From(v, 3) = t
  BY <1>1, <1>2, StartsWithConcat
<1> HIDE DEF v
<1>5. ~HasDriveRoot(v)
  BY <1>2, <1>3, DriveRootMeans
<1>6. ~StartsWith(v, ExtendedMark)
  <2> SUFFICES ASSUME StartsWith(v, ExtendedMark) PROVE FALSE
    OBVIOUS
  <2>1. ExtendedMark \in Seq(S) /\ Len(ExtendedMark) = 4 /\ ExtendedMark[3] = "?" /\ ExtendedMark[4] = "/"
    BY DEF ExtendedMark
  <2>2. 4 <= Len(v) /\ v[3] = "?" /\ v[4] = "/"
    <3>1. Len(ExtendedMark) <= Len(v) /\ \A i \in 1 .. Len(ExtendedMark) : v[i] = ExtendedMark[i]
      <4>1. v \in Seq(S) /\ ExtendedMark \in Seq(S)
        BY <1>3, <2>1
      <4> QED
        BY <4>1, StartsWithMeans
    <3>2. 3 \in 1 .. Len(ExtendedMark) /\ 4 \in 1 .. Len(ExtendedMark)
      BY <2>1
    <3> QED
      BY <2>1, <3>1, <3>2
  <2>3. Len(t) >= 2 /\ t[1] = "?" /\ t[2] = "/"
    <3>1. 1 \in 1 .. Len(t) /\ 2 \in 1 .. Len(t) /\ 3 = 2 + 1 /\ 4 = 2 + 2
      BY <1>3, <2>2
    <3> QED
      BY <1>1, <1>3, <2>2, <3>1
  <2>4. <<"?", "/">> \in Seq(S) /\ Len(<<"?", "/">>) <= Len(t)
        /\ \A i \in 1 .. Len(<<"?", "/">>) : t[i] = <<"?", "/">>[i]
    BY <2>3
  <2>5. StartsWith(t, <<"?", "/">>)
    BY <1>1, <2>4, StartsWithMeans
  <2> QED
    BY <1>1, <2>5
<1>7. ParsedRoot(v) = UncRoot("unc", m, <<a, b>> \o parts)
  BY <1>1, <1>4, <1>5, <1>6 DEF ParsedRoot, m
<1> QED
  BY <1>7, UncRootOf DEF v, m, t

\* splitRoot recognizes a share under the extended mark.
LEMMA ParsedExtendedUnc ==
  ASSUME NEW S, {"/", "?", ":", "UNC"} \cup Letters \subseteq S,
         NEW a \in RealNames(S), NEW b \in RealNames(S), NEW parts \in Seq(RealNames(S))
  PROVE  ParsedRoot((ExtendedMark \o <<"UNC", "/">>) \o Joined(<<a, b>> \o parts))
         = Ok(Root("extended-unc", ExtendedMark \o <<"UNC", "/">> \o a \o <<"/">> \o b, Joined(parts)))
<1> DEFINE t == Joined(<<a, b>> \o parts)
           u == <<"UNC", "/">>
           w == u \o t
           v == ExtendedMark \o w
<1>1. t \in Seq(S) /\ Split(t) = <<a, b>> \o parts
  BY ShareText
<1> HIDE DEF t
<1>2. u \in Seq(S) /\ Len(u) = 2 /\ Len(u) + 1 = 3 /\ u[1] = "UNC" /\ "UNC" \notin Letters
      /\ ExtendedMark \in Seq(S) /\ Len(ExtendedMark) + 1 = 5
  BY DEF Letters, ExtendedMark
<1> HIDE DEF u
<1>3. w \in Seq(S) /\ w[1] = "UNC"
  <2>1. 1 \in 1 .. Len(u)
    BY <1>2
  <2> QED
    BY <1>1, <1>2, <2>1, ConcatAt
<1>4. StartsWith(w, u) /\ From(w, 3) = t
  <2>1. StartsWith(w, u) /\ From(w, Len(u) + 1) = t
    BY <1>1, <1>2, StartsWithConcat, Zenon
  <2> QED
    BY <1>2, <2>1, Zenon
<1> HIDE DEF w
<1>5. ~HasDriveRoot(w)
  BY <1>2, <1>3, DriveRootMeans
<1>6. StartsWith(v, ExtendedMark) /\ From(v, 5) = w
  <2>1. StartsWith(v, ExtendedMark) /\ From(v, Len(ExtendedMark) + 1) = w
    BY <1>2, <1>3, StartsWithConcat, Zenon
  <2> QED
    BY <1>2, <2>1, Zenon
<1>7. v = (ExtendedMark \o u) \o t
  BY <1>1, <1>2, ConcatAssociative, SMTT(30) DEF w
<1> HIDE DEF v
<1>8. ParsedRoot(v) = UncRoot("extended-unc", ExtendedMark \o u, <<a, b>> \o parts)
  BY <1>1, <1>4, <1>5, <1>6 DEF ParsedRoot, u
<1>9. UncRoot("extended-unc", ExtendedMark \o u, <<a, b>> \o parts)
      = Ok(Root("extended-unc", (ExtendedMark \o u) \o a \o <<"/">> \o b, Joined(parts)))
  BY UncRootOf
<1> QED
  BY <1>7, <1>8, <1>9 DEF u, t

\* splitRoot takes every other text for a relative one.
LEMMA ParsedRelative ==
  ASSUME NEW S, {"/", "?"} \subseteq S, NEW v \in Seq(S), v # <<>> => v[1] # "/", ~NeedsRelativeMarker(v)
  PROVE  ParsedRoot(v) = Ok(Root("relative", <<>>, v))
<1>1. ~HasDriveRoot(v) /\ ~IsDriveRelative(v)
  BY DEF HasDriveRoot, IsDriveRelative
<1>2. \A m \in Seq(S) : Len(m) >= 1 /\ m[1] = "/" => ~StartsWith(v, m)
  <2> SUFFICES ASSUME NEW m \in Seq(S), Len(m) >= 1, m[1] = "/", StartsWith(v, m) PROVE FALSE
    OBVIOUS
  <2>1. Len(m) <= Len(v) /\ \A i \in 1 .. Len(m) : v[i] = m[i]
    BY StartsWithMeans
  <2>2. 1 \in 1 .. Len(m) /\ Len(v) >= 1
    BY <2>1
  <2>3. v # <<>> /\ v[1] = "/"
    BY <2>1, <2>2
  <2> QED
    BY <2>3
<1>3. ExtendedMark \in Seq(S) /\ Len(ExtendedMark) >= 1 /\ ExtendedMark[1] = "/"
      /\ <<"/", "/">> \in Seq(S) /\ Len(<<"/", "/">>) >= 1 /\ <<"/", "/">>[1] = "/"
      /\ <<"/">> \in Seq(S) /\ Len(<<"/">>) >= 1 /\ <<"/">>[1] = "/"
  BY DEF ExtendedMark
<1>4. ~StartsWith(v, ExtendedMark) /\ ~StartsWith(v, <<"/", "/">>) /\ ~StartsWith(v, <<"/">>)
  BY <1>2, <1>3
<1> QED
  BY <1>1, <1>4 DEF ParsedRoot, Unless

(***************************************************************************)
(* An identity denotes its root and names                                  *)
(***************************************************************************)
\* Equality by name: the provers take two equal concatenations apart position by
\* position, and lose their way in it.
Same(x, y) == x = y

\* Concatenation may be regrouped.
LEMMA Regrouped ==
  ASSUME NEW S, NEW m \in Seq(S), NEW q \in Seq(S), NEW k \in Seq(S), NEW j \in Seq(S)
  PROVE  Same(m \o q \o k \o j, m \o (q \o k \o j))
<1> DEFINE a == q \o k
<1>1. a \in Seq(S)
  BY ConcatProperties
<1>2. m \o q \o k = m \o a
  BY ConcatAssociative, SMTT(30)
<1> HIDE DEF a
<1>3. m \o a \o j = m \o (a \o j)
  BY <1>1, ConcatAssociative, SMTT(30)
<1> QED
  BY <1>2, <1>3, Zenon DEF Same, a

\* The end of a text is the end of its last part.
LEMMA EndsWithMeans ==
  ASSUME NEW S, NEW p \in Seq(S), NEW t \in Seq(S), t # <<>>, NEW x
  PROVE  EndsWith(p \o t, x) <=> t[Len(t)] = x
<1> DEFINE v == p \o t
<1>1. v \in Seq(S) /\ Len(v) = Len(p) + Len(t) /\ \A i \in 1 .. Len(t) : v[Len(p) + i] = t[i]
  BY ConcatAt
<1>2. Len(p) \in Nat /\ Len(t) \in Nat \ {0}
  BY EmptySeq
<1> HIDE DEF v
<1>3. v[Len(v)] = t[Len(t)] /\ v # <<>>
  BY <1>1, <1>2
<1>4. EndsWith(v, x) <=> t[Len(t)] = x
  BY <1>3 DEF EndsWith, Last
<1> QED
  BY <1>4 DEF v

\* Joined names do not end in a slash.
LEMMA JoinedEnds ==
  ASSUME NEW S, "/" \in S, NEW kept \in Seq(RealNames(S)), kept # <<>>
  PROVE  Joined(kept)[Len(Joined(kept))] # "/"
<1> DEFINE s == Joined(kept)
<1>1. s \in Seq(S) /\ s # <<>> /\ Split(s) = kept
  BY JoinedStarts
<1> HIDE DEF s
<1>2. PICK t \in Seq(S), x \in S : s = Append(t, x)
  BY <1>1, SequenceEmptyOrAppend
<1>3. s[Len(s)] = x
  <2>1. Len(Append(t, x)) = Len(t) + 1 /\ Append(t, x)[Len(t) + 1] = x
    BY AppendProperties
  <2> QED
    BY <1>2, <2>1
<1>4. ASSUME x = "/" PROVE FALSE
  <2>1. kept = Append(Split(t), <<>>) /\ Split(t) \in PiecesOf(S)
    BY <1>1, <1>2, <1>4, SplitOfAppend DEF SplitStep
  <2>2. Split(t) \in Seq(PartsOf(S)) /\ <<>> \in PartsOf(S)
    BY <2>1 DEF PiecesOf, PartsOf
  <2>3. Len(kept) = Len(Split(t)) + 1 /\ kept[Len(Split(t)) + 1] = <<>> /\ Len(Split(t)) \in Nat
    <3> HIDE DEF PartsOf
    <3> QED
      BY <2>1, <2>2, AppendProperties
  <2>4. Len(kept) \in 1 .. Len(kept)
    BY <2>3
  <2>5. kept[Len(kept)] \in RealNames(S)
    BY <2>4
  <2> QED
    BY <2>3, <2>5 DEF RealNames, DotNames
<1> QED
  BY <1>3, <1>4 DEF s

\* A share and names, written as one list of names.
LEMMA ShareJoined ==
  ASSUME NEW S, "/" \in S, NEW mark \in Seq(S), NEW a \in RealNames(S), NEW b \in RealNames(S), NEW parts \in Seq(RealNames(S))
  PROVE  LET prefix == mark \o a \o <<"/">> \o b
         IN Same(IF parts = <<>> THEN prefix ELSE prefix \o <<"/">> \o Joined(parts),
                 mark \o Joined(<<a, b>> \o parts))
<1> DEFINE T == RealNames(S)
           k == <<"/">>
           q == a \o k \o b
<1>1. a \in Seq(S) /\ b \in Seq(S) /\ a \in PartsOf(S) /\ b \in PartsOf(S) /\ k \in Seq(S)
  BY NamesAreTexts
<1>2. Joined(<<a, b>>) = q
  <2>1. <<a>> \in Seq(PartsOf(S)) /\ <<a>> # <<>> /\ Append(<<a>>, b) = <<a, b>>
    <3> HIDE DEF PartsOf
    <3>1. <<a>> \in Seq(PartsOf(S)) /\ <<a>> # <<>>
      BY <1>1
    <3>2. Append(<<a>>, b) = <<a>> \o <<b>>
      BY <1>1, <3>1, AppendIsConcat
    <3>3. <<a>> \o <<b>> = <<a, b>>
      BY <1>1, Pair
    <3> QED
      BY <3>1, <3>2, <3>3
  <2>2. Joined(Append(<<a>>, b)) = Joined(<<a>>) \o k \o b
    BY <1>1, <2>1, JoinedOfAppend
  <2>3. Joined(<<a>>) = a
    BY <1>1, JoinedOfOne
  <2> QED
    BY <2>1, <2>2, <2>3
<1>3. q \in Seq(S) /\ mark \o a \o k \o b = mark \o q
  <2>1. q \in Seq(S)
    BY <1>1, SlashBetween
  <2> HIDE DEF k
  <2>2. Same(mark \o a \o k \o b, mark \o q)
    BY <1>1, Regrouped
  <2>3. mark \o a \o k \o b = mark \o q
    BY <2>2, Zenon DEF Same
  <2> QED
    BY <2>1, <2>3, Zenon
<1>4. ASSUME parts = <<>>
      PROVE  mark \o a \o k \o b = mark \o Joined(<<a, b>> \o parts)
  <2>1. <<a, b>> \o parts = <<a, b>>
    <3>1. <<a, b>> \in Seq(T)
      OBVIOUS
    <3> HIDE DEF T
    <3> QED
      BY <1>4, <3>1, ConcatEmptySeq
  <2> QED
    BY <1>2, <1>3, <1>4, <2>1, Zenon
<1>5. ASSUME parts # <<>>
      PROVE  (mark \o a \o k \o b) \o k \o Joined(parts) = mark \o Joined(<<a, b>> \o parts)
  <2>1. <<a, b>> \in PiecesOf(S) /\ parts \in PiecesOf(S)
    <3>1. <<a, b>> \in Seq(RealNames(S)) /\ <<a, b>> # <<>>
      OBVIOUS
    <3> QED
      BY <1>5, <3>1, RealNamesArePieces
  <2>2. Joined(<<a, b>> \o parts) = q \o k \o Joined(parts)
    BY <1>2, <2>1, JoinedOfConcat
  <2>3. Joined(parts) \in Seq(S)
    BY <1>5, JoinedStarts
  <2>4. mark \o q \o k \o Joined(parts) = mark \o (q \o k \o Joined(parts))
    <3> HIDE DEF q, k
    <3>1. Same(mark \o q \o k \o Joined(parts), mark \o (q \o k \o Joined(parts)))
      <4> DEFINE j == Joined(parts)
      <4>1. j \in Seq(S) /\ q \in Seq(S) /\ k \in Seq(S)
        BY <1>1, <1>3, <2>3
      <4> HIDE DEF j
      <4>2. Same(mark \o q \o k \o j, mark \o (q \o k \o j))
        BY <4>1, Regrouped
      <4> QED
        BY <4>2, Zenon DEF j
    <3> QED
      BY <3>1, Zenon DEF Same
  <2> QED
    BY <1>3, <2>2, <2>4, Zenon
<1> QED
  BY <1>4, <1>5, Zenon DEF Same

\* The roots that end in a slash are those that are no shares.
LEMMA RootEnds ==
  ASSUME NEW kind, NEW prefix, RootAt(kind, prefix), kind # "relative"
  PROVE  EndsWith(prefix, "/") <=> kind \notin Uncs
<1> DEFINE S == Alphabet(kind)
<1>0. {"/", ".", "?", ":", "UNC"} \cup LowerLetters \subseteq S
  BY Signs
<1> HIDE DEF S
<1>1. CASE kind = "posix" /\ prefix = <<"/">>
  BY <1>1 DEF EndsWith, Last, Uncs
<1>2. CASE kind = "drive" /\ \E l \in LowerLetters : prefix = <<l, ":", "/">>
  BY <1>2 DEF EndsWith, Last, Uncs
<1>3. CASE kind = "extended-drive" /\ \E l \in LowerLetters : prefix = ExtendedMark \o <<l, ":", "/">>
  <2>1. PICK l \in LowerLetters : prefix = ExtendedMark \o <<l, ":", "/">>
    BY <1>3
  <2> DEFINE t == <<l, ":", "/">>
  <2>2. ExtendedMark \in Seq(S) /\ t \in Seq(S) /\ t # <<>> /\ t[Len(t)] = "/"
    BY <1>0 DEF ExtendedMark
  <2> HIDE DEF t
  <2>3. EndsWith(ExtendedMark \o t, "/")
    BY <2>2, EndsWithMeans
  <2> QED
    BY <1>3, <2>1, <2>3 DEF Uncs, t
<1>4. ASSUME NEW m \in Seq(S), NEW a \in NamesOf(kind), NEW b \in NamesOf(kind), prefix = m \o a \o <<"/">> \o b
      PROVE  ~EndsWith(prefix, "/")
  <2>1. a \in Seq(S) /\ b \in Seq(S) /\ b # <<>> /\ b[Len(b)] # "/"
    <3>1. a \in Seq(S) /\ b \in Seq(S) /\ Len(b) \in Nat \ {0} /\ \A i \in 1 .. Len(b) : b[i] # "/"
      BY NamesAreTexts DEF NamesOf, S
    <3> QED
      BY <3>1
  <2> DEFINE p == m \o a \o <<"/">>
  <2>2. p \in Seq(S)
    <3>1. m \o a \in Seq(S) /\ <<"/">> \in Seq(S)
      BY <1>0, <2>1, ConcatProperties
    <3> QED
      BY <3>1, ConcatProperties
  <2> HIDE DEF p
  <2>3. EndsWith(p \o b, "/") <=> b[Len(b)] = "/"
    BY <2>1, <2>2, EndsWithMeans
  <2> QED
    BY <1>4, <2>1, <2>3 DEF p
<1>5. CASE kind \in Uncs
  <2>1. <<"/", "/">> \in Seq(S) /\ ExtendedMark \o <<"UNC", "/">> \in Seq(S)
    BY <1>0 DEF ExtendedMark
  <2> QED
    BY <1>4, <1>5, <2>1 DEF RootAt, Uncs
<1> QED
  BY <1>1, <1>2, <1>3, <1>5 DEF RootAt, Uncs

\* A relative identity denotes its names.
LEMMA WholeRelative ==
  ASSUME NEW parts \in Seq(NamesOf("relative"))
  PROVE  Denotes(Whole("relative", <<>>, parts), "relative", <<>>, parts)
<1> DEFINE S == Alphabet("relative")
           j == Joined(parts)
           v == MarkRelative(j)
<1>0. {"/", ".", "?", ":", "UNC"} \cup Letters \subseteq S /\ "." \notin Letters
  BY Signs
<1>1. parts \in Seq(RealNames(S))
  BY DEF NamesOf
<1> HIDE DEF S
<1>2. j \in Seq(S) /\ Reads(j, parts)
  BY <1>0, <1>1, ReadsJoined
<1>3. v \in Seq(S) /\ v # <<>> /\ v[1] # "/" /\ ~NeedsRelativeMarker(v) /\ Reads(v, parts)
  <2>1. CASE parts = <<>>
    <3>1. v = <<".">>
      BY <2>1, JoinedOfNothing DEF MarkRelative
    <3>2. ~NeedsRelativeMarker(<<".">>)
      BY DEF NeedsRelativeMarker
    <3>3. <<".">> \in Seq(S) /\ <<".">> # <<>> /\ <<".">>[1] # "/"
      BY <1>0
    <3> QED
      BY <2>1, <3>1, <3>2, <3>3, ReadsDot
  <2>2. CASE parts # <<>> /\ NeedsRelativeMarker(j)
    <3>1. j # <<>>
      BY <1>0, <1>1, <2>2, JoinedStarts
    <3>2. v = <<".", "/">> \o j
      BY <2>2, <3>1 DEF MarkRelative
    <3>3. Reads(v, parts) /\ v \in Seq(S)
      BY <1>0, <1>1, <1>2, <3>2, ReadsMarked
    <3>4. v[1] = "." /\ Len(v) >= 2
      <4> HIDE DEF j, v
      <4> QED
        BY <1>0, <1>2, <3>2
    <3>5. ~NeedsRelativeMarker(v)
      BY <1>0, <3>3, <3>4, DriveRootMeans
    <3> QED
      BY <3>3, <3>4, <3>5
  <2>3. CASE parts # <<>> /\ ~NeedsRelativeMarker(j)
    <3>1. j # <<>> /\ j[1] # "/"
      BY <1>0, <1>1, <2>3, JoinedStarts
    <3>2. v = j
      BY <2>3, <3>1 DEF MarkRelative
    <3> QED
      BY <1>2, <2>3, <3>1, <3>2
  <2> QED
    BY <2>1, <2>2, <2>3
<1> HIDE DEF v
<1>4. ParsedRoot(v) = Ok(Root("relative", <<>>, v))
  BY <1>0, <1>3, ParsedRelative
<1>5. RootAt("relative", <<>>)
  BY DEF RootAt
<1>6. Denotes(v, "relative", <<>>, parts)
  BY <1>3, <1>4, <1>5 DEF Denotes, S
<1> QED
  BY <1>6 DEF Whole, v

\* An identity denotes its root and names.
LEMMA WholeDenotes ==
  ASSUME NEW kind, NEW prefix, RootAt(kind, prefix), NEW parts \in Seq(NamesOf(kind))
  PROVE  Denotes(Whole(kind, prefix, parts), kind, prefix, parts)
<1> DEFINE S == Alphabet(kind)
           j == Joined(parts)
           v == Whole(kind, prefix, parts)
<1>0. {"/", ".", "?", ":", "UNC"} \cup Letters \subseteq S /\ LowerLetters \subseteq Letters
      /\ \A l \in LowerLetters : Lower(l) = l
  BY Signs
<1>1. parts \in Seq(RealNames(S))
  BY DEF NamesOf
<1>2. prefix \in Seq(S) /\ (kind # "relative" => prefix # <<>>)
  BY RootAtLength
<1> HIDE DEF S
<1>3. j \in Seq(S) /\ Reads(j, parts) /\ (parts = <<>> => j = <<>>)
  BY <1>0, <1>1, ReadsJoined, JoinedOfNothing
<1>4. CASE kind = "relative"
  BY <1>4, WholeRelative DEF RootAt
<1> HIDE DEF j
<1>5. ASSUME NEW l \in LowerLetters, kind = "drive", prefix = <<l, ":", "/">>
      PROVE  v \in Seq(S) /\ v # <<>> /\ ParsedRoot(v) = Ok(Root(kind, prefix, j))
  <2>1. v = prefix \o j
    <3>1. prefix \o <<>> = prefix
      BY <1>2, ConcatEmptySeq
    <3> QED
      BY <1>3, <1>5, <3>1 DEF Whole, Uncs, j
  <2>2. ParsedRoot(v) = Ok(Root("drive", <<Lower(l), ":", "/">>, j)) /\ l \in Letters
    BY <1>0, <1>3, <1>5, <2>1, ParsedDrive
  <2>3. v \in Seq(S) /\ v # <<>>
    <3> HIDE DEF v
    <3> QED
      BY <1>2, <1>3, <1>5, <2>1, ConcatProperties, ConcatEqualIffEmpty
  <2> QED
    BY <1>0, <1>5, <2>2, <2>3
<1>6. ASSUME NEW l \in LowerLetters, kind = "extended-drive", prefix = ExtendedMark \o <<l, ":", "/">>
      PROVE  v \in Seq(S) /\ v # <<>> /\ ParsedRoot(v) = Ok(Root(kind, prefix, j))
  <2>1. v = prefix \o j
    <3>1. prefix \o <<>> = prefix
      BY <1>2, ConcatEmptySeq
    <3> QED
      BY <1>3, <1>6, <3>1 DEF Whole, Uncs, j
  <2>2. prefix \o j = ExtendedMark \o (<<l, ":", "/">> \o j)
    <3> DEFINE p == <<l, ":", "/">>
    <3>1. ExtendedMark \in Seq(S) /\ p \in Seq(S) /\ prefix = ExtendedMark \o p
      BY <1>0, <1>6 DEF ExtendedMark
    <3> HIDE DEF p
    <3>2. (ExtendedMark \o p) \o j = ExtendedMark \o (p \o j)
      BY <1>3, <3>1, ConcatAssociative, SMTT(30)
    <3> QED
      BY <3>1, <3>2, Zenon DEF p
  <2>3. ParsedRoot(v) = Ok(Root("extended-drive", ExtendedMark \o <<Lower(l), ":", "/">>, j))
    BY <1>0, <1>3, <2>1, <2>2, ParsedDrive
  <2>4. v \in Seq(S) /\ v # <<>>
    <3> HIDE DEF v
    <3> QED
      BY <1>2, <1>3, <1>6, <2>1, ConcatProperties, ConcatEqualIffEmpty
  <2> QED
    BY <1>0, <1>6, <2>3, <2>4
<1>7. CASE kind = "posix"
  <2>1. prefix = <<"/">>
    BY <1>7 DEF RootAt
  <2>2. v = prefix \o j
    <3>1. prefix \o <<>> = prefix
      BY <1>2, ConcatEmptySeq
    <3> QED
      BY <1>3, <1>7, <3>1 DEF Whole, Uncs, j
  <2>3. j # <<>> => j[1] # "/"
    BY <1>0, <1>1, <1>3, JoinedStarts DEF j
  <2>4. ParsedRoot(v) = Ok(Root("posix", <<"/">>, j))
    BY <1>0, <1>3, <2>1, <2>2, <2>3, ParsedPosix
  <2>5. v \in Seq(S) /\ v # <<>>
    <3> HIDE DEF v
    <3> QED
      BY <1>2, <1>3, <1>7, <2>2, ConcatProperties, ConcatEqualIffEmpty
  <2> QED
    BY <1>3, <1>7, <2>1, <2>4, <2>5 DEF Denotes, S, j
<1>8. CASE kind = "unc"
  <2>1. PICK a \in RealNames(S), b \in RealNames(S) :
          a # <<"?">> /\ prefix = <<"/", "/">> \o a \o <<"/">> \o b
    BY <1>8 DEF RootAt, NamesOf, S
  <2>2. v = <<"/", "/">> \o Joined(<<a, b>> \o parts)
    <3>1. <<"/", "/">> \in Seq(S)
      BY <1>0
    <3>2. v = IF parts = <<>> THEN prefix ELSE prefix \o <<"/">> \o Joined(parts)
      BY <1>8 DEF Whole, Uncs
    <3> DEFINE m == <<"/", "/">>
    <3>3. m \in Seq(S) /\ "/" \in S
      BY <1>0, <3>1
    <3> HIDE DEF m
    <3>4. Same(IF parts = <<>> THEN m \o a \o <<"/">> \o b ELSE m \o a \o <<"/">> \o b \o <<"/">> \o Joined(parts),
               m \o Joined(<<a, b>> \o parts))
      BY <1>1, <3>3, ShareJoined
    <3> QED
      BY <2>1, <3>2, <3>4, Zenon DEF Same, m
  <2>3. ParsedRoot(v) = Ok(Root("unc", prefix, j))
    BY <1>0, <1>1, <2>1, <2>2, ParsedUnc, ZenonT(40) DEF j
  <2>4. v \in Seq(S) /\ v # <<>>
    <3>1. <<"/", "/">> \in Seq(S) /\ <<"/", "/">> # <<>>
      BY <1>0
    <3>2. Joined(<<a, b>> \o parts) \in Seq(S)
      BY <1>0, <1>1, ShareText
    <3> QED
      BY <2>2, <3>1, <3>2, ConcatProperties, ConcatEqualIffEmpty
  <2> QED
    BY <1>3, <1>8, <2>3, <2>4 DEF Denotes, S, j
<1>9. CASE kind = "extended-unc"
  <2> DEFINE m == ExtendedMark \o <<"UNC", "/">>
  <2>1. PICK a \in RealNames(S), b \in RealNames(S) : prefix = m \o a \o <<"/">> \o b
    BY <1>9 DEF RootAt, NamesOf, S
  <2>0. m \in Seq(S) /\ m # <<>>
    BY <1>0 DEF ExtendedMark
  <2>2. v = m \o Joined(<<a, b>> \o parts)
    <3>2. v = IF parts = <<>> THEN prefix ELSE prefix \o <<"/">> \o Joined(parts)
      BY <1>9 DEF Whole, Uncs
    <3> HIDE DEF m
    <3>3. "/" \in S
      BY <1>0
    <3>4. Same(IF parts = <<>> THEN m \o a \o <<"/">> \o b ELSE m \o a \o <<"/">> \o b \o <<"/">> \o Joined(parts),
               m \o Joined(<<a, b>> \o parts))
      BY <1>1, <2>0, <3>3, ShareJoined
    <3> HIDE DEF v
    <3> QED
      BY <2>1, <3>2, <3>4, Zenon DEF Same
  <2>3. ParsedRoot(v) = Ok(Root("extended-unc", prefix, j))
    <3>1. ParsedRoot(m \o Joined(<<a, b>> \o parts)) = Ok(Root("extended-unc", m \o a \o <<"/">> \o b, Joined(parts)))
      BY <1>0, <1>1, ParsedExtendedUnc
    <3> HIDE DEF m, v
    <3> QED
      BY <2>1, <2>2, <3>1, Zenon DEF j
  <2>4. v \in Seq(S) /\ v # <<>>
    <3>2. Joined(<<a, b>> \o parts) \in Seq(S)
      BY <1>0, <1>1, ShareText
    <3> HIDE DEF m
    <3> QED
      BY <2>0, <2>2, <3>2, ConcatProperties, ConcatEqualIffEmpty
  <2> QED
    BY <1>3, <1>9, <2>3, <2>4 DEF Denotes, S, j
<1>10. CASE kind = "drive" \/ kind = "extended-drive"
  <2>1. v \in Seq(S) /\ v # <<>> /\ ParsedRoot(v) = Ok(Root(kind, prefix, j))
    BY <1>5, <1>6, <1>10 DEF RootAt
  <2> QED
    BY <1>3, <1>10, <2>1 DEF Denotes, S, j
<1> QED
  BY <1>4, <1>7, <1>8, <1>9, <1>10 DEF RootAt

\* The two kinds of result are told apart, and records have the fields they were made of.
LEMMA Outcomes ==
  /\ \A x : IsOk(Ok(x)) /\ Ok(x).value = x
  /\ \A c : c # "ok" => ~IsOk(Err(c))
  /\ \A kind, prefix, rest : /\ Root(kind, prefix, rest).kind = kind
                            /\ Root(kind, prefix, rest).prefix = prefix
                            /\ Root(kind, prefix, rest).rest = rest
BY DEF Ok, Err, IsOk, Root

\* What includes tests.
LEMMA HasMeans ==
  ASSUME NEW S, NEW v \in Seq(S), NEW x
  PROVE  /\ Has(v, x) <=> \E i \in 1 .. Len(v) : v[i] = x
         /\ x \notin S => ~Has(v, x)
         /\ ~Has(v, x) => v \in Seq(S \ {x})
<1>1. Has(v, x) <=> \E i \in 1 .. Len(v) : v[i] = x
  BY DEF Has, Contains
<1>2. \A i \in 1 .. Len(v) : v[i] \in S
  OBVIOUS
<1>3. ASSUME ~Has(v, x) PROVE v \in Seq(S \ {x})
  <2>1. \A i \in 1 .. Len(v) : v[i] \in S \ {x}
    BY <1>1, <1>2, <1>3
  <2>2. Len(v) \in Nat /\ v = [i \in 1 .. Len(v) |-> v[i]]
    OBVIOUS
  <2> QED
    BY <2>1, <2>2
<1> QED
  BY <1>1, <1>2, <1>3

\* The root that splitRoot finds in a text that denotes one.
LEMMA DenotesRoot ==
  ASSUME NEW v, NEW kind, NEW prefix, NEW parts, Denotes(v, kind, prefix, parts)
  PROVE  \E rest \in Seq(Alphabet(kind)) :
           /\ SplitRoot(v) = Ok(Root(kind, prefix, rest)) /\ Reads(rest, parts)
           /\ rest = IF kind = "relative" THEN v ELSE Joined(parts)
<1> DEFINE S == Alphabet(kind)
<1>1. PICK rest \in Seq(S) :
       /\ ParsedRoot(v) = Ok(Root(kind, prefix, rest)) /\ Reads(rest, parts)
       /\ rest = IF kind = "relative" THEN v ELSE Joined(parts)
  BY DEF Denotes
<1>2. v \in Seq(S)
  BY DEF Denotes
<1>3. NUL \notin S /\ (IsWindowsRoot(kind) => "\\" \notin S)
  BY DEF Alphabet
<1>4. ~Has(v, NUL) /\ (IsWindowsRoot(kind) => ~Has(v, "\\"))
  <2> HIDE DEF S
  <2> QED
    BY <1>2, <1>3, HasMeans
<1>5. SplitRoot(v) = Ok(Root(kind, prefix, rest))
  <2> DEFINE r == Root(kind, prefix, rest)
  <2>1. ParsedRoot(v) = Ok(r) /\ IsOk(Ok(r)) /\ Ok(r).value = r /\ r.kind = kind
    BY <1>1, Outcomes, ZenonT(40)
  <2> HIDE DEF r
  <2>2. ~(IsWindowsRoot(r.kind) /\ Has(v, "\\"))
    BY <1>4, <2>1, Zenon
  <2>3. SplitRoot(v) = Ok(r)
    BY <1>4, <2>1, <2>2, Zenon DEF SplitRoot, Unless, Then
  <2> QED
    BY <2>3 DEF r
<1> QED
  BY <1>1, <1>5

\* A text is cleaned to the identity it denotes.
LEMMA DenotesClean ==
  ASSUME NEW v, NEW kind, NEW prefix, NEW parts, Denotes(v, kind, prefix, parts)
  PROVE  CleanCanonical(v) = Ok(Whole(kind, prefix, parts))
<1> DEFINE S == Alphabet(kind)
           j == Joined(parts)
<1>1. PICK rest \in Seq(S) : SplitRoot(v) = Ok(Root(kind, prefix, rest)) /\ Reads(rest, parts)
  BY DenotesRoot
<1>2. v # <<>> /\ RootAt(kind, prefix) /\ parts \in Seq(RealNames(S)) /\ "/" \in S
  BY Signs DEF Denotes, NamesOf
<1> HIDE DEF S
<1>3. CleanComponents(rest, kind # "relative", "ERR_INVALID_PATH") = Ok(parts)
  BY <1>1, <1>2, CleanReads
<1>4. j = <<>> <=> parts = <<>>
  BY <1>2, JoinedStarts, JoinedOfNothing
<1>5. kind # "relative" => (EndsWith(prefix, "/") <=> kind \notin Uncs)
  BY <1>2, RootEnds
<1> DEFINE t == CASE kind = "relative" -> MarkRelative(j)
                  [] kind # "relative" /\ j = <<>> -> prefix
                  [] OTHER -> prefix \o (IF EndsWith(prefix, "/") THEN <<>> ELSE <<"/">>) \o j
<1>6. CleanCanonical(v) = Ok(t)
  <2>1. Root(kind, prefix, rest).kind = kind /\ Root(kind, prefix, rest).prefix = prefix /\ Root(kind, prefix, rest).rest = rest
    BY DEF Root
  <2> QED
    BY <1>1, <1>2, <1>3, <2>1, Outcomes, ZenonT(40) DEF CleanCanonical, Unless, Then
<1> HIDE DEF j
<1>7. t = Whole(kind, prefix, parts)
  <2>1. CASE kind = "relative"
    BY <2>1, Zenon DEF Whole, j
  <2>2. CASE kind # "relative" /\ j = <<>>
    BY <1>4, <2>2, Zenon DEF Whole, j
  <2>3. CASE kind # "relative" /\ j # <<>> /\ kind \in Uncs
    BY <1>4, <1>5, <2>3, Zenon DEF Whole, j
  <2>4. CASE kind # "relative" /\ j # <<>> /\ kind \notin Uncs
    BY <1>4, <1>5, <2>4, Zenon DEF Whole, j
  <2> QED
    BY <2>1, <2>2, <2>3, <2>4
<1> QED
  BY <1>6, <1>7

\* The drive letter of an identity is lower-case already.
LEMMA LowerFirst ==
  ASSUME NEW kind, NEW prefix, RootAt(kind, prefix), NEW parts \in Seq(NamesOf(kind)), NEW drives
  PROVE  LET v == Whole(kind, prefix, parts)
             r0 == Root(kind, prefix, Joined(parts))
         IN kind # "relative" => Comparable(v, r0, drives) = v
<1> DEFINE v == Whole(kind, prefix, parts)
           r0 == Root(kind, prefix, Joined(parts))
           S == Alphabet(kind)
<1>1. Denotes(v, kind, prefix, parts)
  BY WholeDenotes
<1>2. v \in Seq(S) /\ r0.kind = kind
  BY <1>1 DEF Denotes, Root
<1>3. prefix \in Seq(S) /\ parts \in Seq(RealNames(S)) /\ "/" \in S
  BY RootAtLength, Signs DEF NamesOf
<1> HIDE DEF S
<1>4. Joined(parts) \in Seq(S)
  BY <1>3, ReadsJoined
<1>5. ASSUME kind \in {"drive", "extended-drive"}
      PROVE  v = prefix \o Joined(parts)
  <2>1. CASE parts = <<>>
    <3>1. v = prefix
      BY <1>5, <2>1 DEF Whole
    <3>2. prefix \o <<>> = prefix
      BY <1>3, ConcatEmptySeq
    <3> QED
      BY <2>1, <3>1, <3>2, JoinedOfNothing
  <2>2. CASE parts # <<>>
    <3>1. v = prefix \o <<>> \o Joined(parts)
      BY <1>5, <2>2, Zenon DEF Whole, Uncs
    <3>2. prefix \o <<>> = prefix
      BY <1>3, ConcatEmptySeq
    <3> QED
      BY <3>1, <3>2, Zenon
  <2> QED
    BY <2>1, <2>2
<1> HIDE DEF v
<1>6. ASSUME NEW l \in LowerLetters, kind = "drive", prefix = <<l, ":", "/">>
      PROVE  [v EXCEPT ![1] = Lower(@)] = v
  <2>1. v[1] = l /\ Len(v) >= 1
    <3>1. prefix[1] = l /\ Len(prefix) = 3
      BY <1>6
    <3>2. 1 \in 1 .. Len(prefix)
      BY <3>1
    <3>3. Len(v) = Len(prefix) + Len(Joined(parts)) /\ Len(Joined(parts)) \in Nat
          /\ \A i \in 1 .. Len(prefix) : v[i] = prefix[i]
      BY <1>3, <1>4, <1>5, <1>6, ConcatAt
    <3> QED
      BY <3>1, <3>2, <3>3
  <2>2. Lower(l) = l
    BY Signs
  <2>3. v[1] = Lower(v[1])
    BY <2>1, <2>2
  <2> QED
    BY <1>2, <2>3
<1>7. ASSUME NEW l \in LowerLetters, kind = "extended-drive", prefix = ExtendedMark \o <<l, ":", "/">>
      PROVE  [v EXCEPT ![5] = Lower(@)] = v
  <2>1. v[5] = l /\ Len(v) >= 5
    <3>1. prefix[5] = l /\ Len(prefix) = 7
      BY <1>7 DEF ExtendedMark
    <3>2. 5 \in 1 .. Len(prefix)
      BY <3>1
    <3>3. Len(v) = Len(prefix) + Len(Joined(parts)) /\ Len(Joined(parts)) \in Nat
          /\ \A i \in 1 .. Len(prefix) : v[i] = prefix[i]
      BY <1>3, <1>4, <1>5, <1>7, ConcatAt
    <3> QED
      BY <3>1, <3>2, <3>3
  <2>2. Lower(l) = l
    BY Signs
  <2>3. v[5] = Lower(v[5])
    BY <2>1, <2>2
  <2> QED
    BY <1>2, <2>3
<1>8. CASE drives /\ kind = "drive"
  <2>1. Comparable(v, r0, drives) = [v EXCEPT ![1] = Lower(@)]
    BY <1>2, <1>8, Zenon DEF Comparable
  <2> QED
    BY <1>6, <1>8, <2>1 DEF RootAt, v
<1>9. CASE drives /\ kind = "extended-drive"
  <2>1. Comparable(v, r0, drives) = [v EXCEPT ![5] = Lower(@)]
    BY <1>2, <1>9 DEF Comparable
  <2> QED
    BY <1>7, <1>9, <2>1 DEF RootAt, v
<1>10. CASE ~(drives /\ kind = "drive") /\ ~(drives /\ kind = "extended-drive")
  <2>1. Comparable(v, r0, drives) = v
    BY <1>2, <1>10, Zenon DEF Comparable
  <2> QED
    BY <2>1 DEF v
<1> QED
  BY <1>8, <1>9, <1>10 DEF v

\* The text after the root of an identity.
RestOf(kind, prefix, parts) ==
  IF kind = "relative" THEN Whole(kind, prefix, parts) ELSE Joined(parts)

\* The identity of a root and names: what it is cleaned, validated and taken apart to.
LEMMA WholeIsCanonical ==
  ASSUME NEW kind, NEW prefix, RootAt(kind, prefix), NEW parts \in Seq(NamesOf(kind))
  PROVE  /\ CleanCanonical(Whole(kind, prefix, parts)) = Ok(Whole(kind, prefix, parts))
         /\ SplitRoot(Whole(kind, prefix, parts)) = Ok(Root(kind, prefix, RestOf(kind, prefix, parts)))
         /\ \A d \in BOOLEAN : ValidateCanonical(Whole(kind, prefix, parts), d)
                               = Ok(Root(kind, prefix, RestOf(kind, prefix, parts)))
         /\ kind = "relative" => ~IsOk(CanonicalParts(Whole(kind, prefix, parts)))
         /\ kind # "relative" => CanonicalParts(Whole(kind, prefix, parts)) = Ok([prefix |-> prefix, parts |-> parts])
<1> DEFINE v == Whole(kind, prefix, parts)
           rest == RestOf(kind, prefix, parts)
           r == Root(kind, prefix, rest)
<1>1. Denotes(v, kind, prefix, parts)
  BY WholeDenotes
<1>2. SplitRoot(v) = Ok(r)
  <2> DEFINE w == v
  <2>0. Denotes(w, kind, prefix, parts)
    BY <1>1
  <2> HIDE DEF w
  <2>1. PICK x \in Seq(Alphabet(kind)) :
           /\ SplitRoot(w) = Ok(Root(kind, prefix, x)) /\ Reads(x, parts)
           /\ x = IF kind = "relative" THEN w ELSE Joined(parts)
    BY <2>0, DenotesRoot
  <2> QED
    BY <2>1, Zenon DEF RestOf, w
<1>3. CleanCanonical(v) = Ok(v)
  BY <1>1, DenotesClean
<1>4. r.kind = kind /\ r.prefix = prefix /\ r.rest = rest
  BY DEF Root
<1>5. ASSUME NEW d PROVE Comparable(v, r, d) = v
  <2>1. CASE kind = "relative"
    BY <1>4, <2>1, Zenon DEF Comparable
  <2>2. CASE kind # "relative"
    <3>1. r = Root(kind, prefix, Joined(parts))
      BY <2>2, Zenon DEF RestOf
    <3> QED
      BY <2>2, <3>1, LowerFirst, Zenon
  <2> QED
    BY <2>1, <2>2
<1>6. ASSUME NEW d PROVE ValidateCanonical(v, d) = Ok(r)
  BY <1>2, <1>3, <1>5, Outcomes, Zenon DEF ValidateCanonical, Unless, Then
<1>7. kind # "relative" => (IF rest = <<>> THEN <<>> ELSE Split(rest)) = parts
  <2>1. parts \in Seq(RealNames(Alphabet(kind))) /\ "/" \in Alphabet(kind)
    BY Signs DEF NamesOf
  <2>2. CASE parts = <<>>
    BY <2>2, JoinedOfNothing DEF RestOf
  <2>3. CASE parts # <<>>
    <3>1. Joined(parts) # <<>> /\ Split(Joined(parts)) = parts
      BY <2>1, <2>3, JoinedStarts
    <3> QED
      BY <3>1 DEF RestOf
  <2> QED
    BY <2>2, <2>3
<1> HIDE DEF v, rest
<1>8. /\ kind = "relative" => ~IsOk(CanonicalParts(v))
      /\ kind # "relative" => CanonicalParts(v) = Ok([prefix |-> prefix, parts |-> parts])
  <2>1. ValidateCanonical(v, FALSE) = Ok(r)
    BY <1>6
  <2> HIDE DEF r
  <2>2. ASSUME kind = "relative" PROVE CanonicalParts(v) = Err("ERR_INVALID_PATH")
    BY <1>4, <2>1, <2>2, Outcomes, Zenon DEF CanonicalParts, Unless, Then
  <2>3. ASSUME kind # "relative" PROVE CanonicalParts(v) = Ok([prefix |-> prefix, parts |-> parts])
    BY <1>4, <1>7, <2>1, <2>3, Outcomes, Zenon DEF CanonicalParts, Unless, Then
  <2>4. ~IsOk(Err("ERR_INVALID_PATH"))
    BY Outcomes
  <2> QED
    BY <2>2, <2>3, <2>4, Zenon
<1>9. \A d \in BOOLEAN : ValidateCanonical(v, d) = Ok(r)
  BY <1>6
<1> QED
  BY <1>2, <1>3, <1>8, <1>9, Zenon DEF v, rest

(***************************************************************************)
(* What splitRoot and cleanCanonical return                                *)
(***************************************************************************)
\* The extended mark is two pairs of signs.
LEMMA TwoPairs ==
  <<"/", "/">> \o <<"?", "/">> = <<"/", "/", "?", "/">>
<1> DEFINE p == <<"/", "/">>
           q == <<"?", "/">>
           S == {"/", "?"}
<1>1. p \in Seq(S) /\ q \in Seq(S) /\ Len(p) = 2 /\ Len(q) = 2
  OBVIOUS
<1>2. p[1] = "/" /\ p[2] = "/" /\ q[1] = "?" /\ q[2] = "/"
  OBVIOUS
<1> HIDE DEF p, q, S
<1>3. p \o q \in Seq(S) /\ Len(p \o q) = 4
      /\ \A i \in 1 .. 4 : (p \o q)[i] = IF i <= 2 THEN p[i] ELSE q[i - 2]
  BY <1>1, ConcatProperties
<1> DEFINE v == p \o q
           w == <<"/", "/", "?", "/">>
<1>4. w \in Seq(S) /\ Len(w) = 4 /\ w[1] = "/" /\ w[2] = "/" /\ w[3] = "?" /\ w[4] = "/"
  BY DEF S
<1> HIDE DEF v, w
<1>5. v \in Seq(S) /\ Len(v) = 4 /\ v[1] = "/" /\ v[2] = "/" /\ v[3] = "?" /\ v[4] = "/"
  BY <1>2, <1>3 DEF v
<1>6. \A i \in 1 .. 4 : v[i] = w[i]
  BY <1>4, <1>5
<1>7. v = w
  BY <1>4, <1>5, <1>6, SeqEqual
<1> QED
  BY <1>7 DEF v, w, p, q

\* Concatenation is associative.
LEMMA Moved ==
  ASSUME NEW S, NEW m \in Seq(S), NEW q \in Seq(S), NEW j \in Seq(S)
  PROVE  Same(m \o q \o j, m \o (q \o j))
<1>1. m \o q \o j = m \o (q \o j)
  BY ConcatAssociative
<1> QED
  BY <1>1, Zenon DEF Same

\* A UNC root that is found has two real names.
LEMMA UncRootGives ==
  ASSUME NEW S, "/" \in S, NEW kind, NEW mark, NEW s \in Seq(S), IsOk(UncRoot(kind, mark, Split(s)))
  PROVE  \E a \in RealNames(S), b \in RealNames(S), rest \in Seq(S) :
           /\ UncRoot(kind, mark, Split(s)) = Ok(Root(kind, mark \o a \o <<"/">> \o b, rest))
           /\ a = <<"?">> => StartsWith(s, <<"?", "/">>)
<1> DEFINE parts == Split(s)
           a == parts[1]
           b == parts[2]
           rest == Joined(From(parts, 3))
           T == PartsOf(S)
<1>1. UncOk(parts)
  BY Outcomes DEF UncRoot
<1>2. parts \in PiecesOf(S) /\ parts \in Seq(T)
  BY SplitType DEF PiecesOf
<1>3. Joined(parts) = s
  BY JoinedOfSplit
<1> HIDE DEF parts, T
<1>4. Len(parts) \in Nat /\ Len(parts) >= 2 /\ a \in T /\ b \in T
  BY <1>1, <1>2 DEF UncOk
<1>5. a \in RealNames(S) /\ b \in RealNames(S)
  BY <1>1, <1>4 DEF UncOk, RealNames, DotNames, T
<1>6. From(parts, 3) \in Seq(T) /\ From(parts, 2) \in Seq(T) /\ Len(From(parts, 2)) # 0
  <2>1. 3 \in Nat \ {0} /\ 2 \in Nat \ {0} /\ parts \in Seq(T)
    BY <1>2
  <2>2. From(parts, 3) \in Seq(T) /\ From(parts, 2) \in Seq(T)
    BY <2>1, FromType, Zenon
  <2>3. Len(From(parts, 2)) = IF 2 <= Len(parts) THEN Len(parts) - 2 + 1 ELSE 0
    BY <2>1, FromType, Zenon
  <2> QED
    BY <1>4, <2>2, <2>3
<1>7. rest \in Seq(S)
  BY <1>6, JoinedType DEF T
<1>8. ASSUME a = <<"?">> PROVE StartsWith(s, <<"?", "/">>)
  <2> DEFINE q == <<"?">>
             k == <<"/">>
             more == From(parts, 2)
  <2>1. more \in PiecesOf(S)
    BY <1>6, EmptySeq DEF PiecesOf, T
  <2>2. q \in T /\ q \in Seq(S) /\ k \in Seq(S) /\ "?" \in S
    <3>1. q \in T /\ T = Seq(S \ {"/"})
      BY <1>4, <1>8 DEF T, PartsOf
    <3>2. q[1] \in S /\ Len(q) = 1
      BY <3>1
    <3> QED
      BY <3>1, <3>2
  <2> HIDE DEF q, more
  <2>3. <<q>> \in Seq(T) /\ Len(<<q>>) = 1 /\ <<q>>[1] = q /\ <<q>> # <<>>
    BY <2>2
  <2>4. <<q>> \in PiecesOf(S)
    BY <2>3 DEF PiecesOf, T
  <2>5. StartsWith(parts, <<q>>)
    <3> DEFINE p == <<q>>
    <3>1. p \in Seq(T) /\ Len(p) = 1 /\ p[1] = q /\ parts[1] = q
      BY <1>8, <2>3 DEF q
    <3> HIDE DEF p
    <3>2. Len(p) <= Len(parts) /\ \A i \in 1 .. Len(p) : parts[i] = p[i]
      BY <1>4, <3>1
    <3>3. StartsWith(parts, p)
      BY <1>2, <3>1, <3>2, StartsWithMeans
    <3> QED
      BY <3>3 DEF p
  <2>6. parts = <<q>> \o more
    <3>1. parts = <<q>> \o From(parts, Len(<<q>>) + 1)
      BY <1>2, <2>3, <2>5, StartsWithGives
    <3>2. Len(<<q>>) + 1 = 2
      BY <2>3
    <3> QED
      BY <3>1, <3>2, Zenon DEF more
  <2>7. s = q \o k \o Joined(more)
    <3>1. Joined(<<q>> \o more) = Joined(<<q>>) \o k \o Joined(more)
      BY <2>1, <2>4, JoinedOfConcat
    <3>2. Joined(<<q>>) = q
      BY <2>2, JoinedOfOne DEF T
    <3> QED
      BY <1>3, <2>6, <3>1, <3>2, Zenon
  <2>8. q \o k = <<"?", "/">> /\ Joined(more) \in Seq(S) /\ <<"?", "/">> \in Seq(S)
    <3>1. q \o k = <<"?", "/">> /\ <<"?", "/">> \in Seq(S)
      BY <2>2, Pair DEF q
    <3>2. Joined(more) \in Seq(S)
      BY <1>6, JoinedType DEF more, T
    <3> QED
      BY <3>1, <3>2
  <2> DEFINE j == Joined(more)
             m == <<"?", "/">>
  <2>9. StartsWith(m \o j, m)
    <3> HIDE DEF j, m
    <3> QED
      BY <2>8, StartsWithConcat DEF j, m
  <2> QED
    BY <2>7, <2>8, <2>9, Zenon
<1>9. UncRoot(kind, mark, parts) = Ok(Root(kind, mark \o a \o <<"/">> \o b, rest))
  BY <1>1, Zenon DEF UncRoot
<1> QED
  BY <1>5, <1>7, <1>8, <1>9, Zenon DEF parts

\* Whatever splitRoot parses is one of the six roots.
LEMMA ParsedGives ==
  ASSUME NEW kind, NEW v \in Seq(Alphabet(kind)), IsOk(ParsedRoot(v)), ParsedRoot(v).value.kind = kind
  PROVE  \E prefix : \E rest \in Seq(Alphabet(kind)) :
           /\ ParsedRoot(v) = Ok(Root(kind, prefix, rest)) /\ RootAt(kind, prefix)
           /\ kind = "relative" => rest = v
<1> DEFINE S == Alphabet(kind)
<1>0. {"/", ".", "?", ":", "UNC"} \cup Letters \subseteq S /\ NamesOf(kind) = RealNames(S)
      /\ \A l \in Letters : Lower(l) \in LowerLetters
  BY Signs DEF NamesOf
<1>1. \A s \in Seq(S) : HasDriveRoot(s) => s[1] \in Letters
  BY DriveRootMeans
<1> HIDE DEF S
<1>2. CASE StartsWith(v, ExtendedMark)
  <2> DEFINE w == From(v, 5)
  <2>1. w \in Seq(S)
    BY FromType DEF S
  <2> HIDE DEF w
  <2>2. CASE HasDriveRoot(w)
    <3> DEFINE prefix == ExtendedMark \o <<Lower(w[1]), ":", "/">>
               rest == From(w, 4)
    <3>1. ParsedRoot(v) = Ok(Root("extended-drive", prefix, rest))
      BY <1>2, <2>2, Zenon DEF ParsedRoot, DriveRoot, w
    <3>2. kind = "extended-drive"
      BY <3>1, Outcomes
    <3>3. rest \in Seq(S)
      BY <2>1, FromType
    <3>4. RootAt(kind, prefix)
      BY <1>0, <1>1, <2>1, <2>2, <3>2 DEF RootAt
    <3> QED
      BY <3>1, <3>2, <3>3, <3>4, Zenon DEF S
  <2>3. CASE ~HasDriveRoot(w) /\ StartsWith(w, <<"UNC", "/">>)
    <3> DEFINE mark == ExtendedMark \o <<"UNC", "/">>
               s == From(w, 3)
    <3>1. ParsedRoot(v) = UncRoot("extended-unc", mark, Split(s))
      BY <1>2, <2>3, Zenon DEF ParsedRoot, w
    <3>2. s \in Seq(S)
      BY <2>1, FromType
    <3> HIDE DEF s, mark
    <3>3. PICK a \in RealNames(S), b \in RealNames(S), rest \in Seq(S) :
            UncRoot("extended-unc", mark, Split(s)) = Ok(Root("extended-unc", mark \o a \o <<"/">> \o b, rest))
      BY <1>0, <3>1, <3>2, UncRootGives
    <3>4. kind = "extended-unc"
      BY <3>1, <3>3, Outcomes
    <3>5. RootAt(kind, mark \o a \o <<"/">> \o b)
      BY <1>0, <3>4, Zenon DEF RootAt, mark
    <3> QED
      BY <3>1, <3>3, <3>4, <3>5, Zenon DEF S
  <2>4. CASE ~HasDriveRoot(w) /\ ~StartsWith(w, <<"UNC", "/">>)
    <3>1. ParsedRoot(v) = Err("ERR_INVALID_PATH")
      BY <1>2, <2>4, Zenon DEF ParsedRoot, w
    <3> QED
      BY <3>1, Outcomes
  <2> QED
    BY <2>2, <2>3, <2>4
<1>3. CASE ~StartsWith(v, ExtendedMark) /\ HasDriveRoot(v)
  <2> DEFINE prefix == <<Lower(v[1]), ":", "/">>
             rest == From(v, 4)
  <2>1. <<>> \o prefix = prefix
    <3>1. prefix \in Seq(LowerLetters \cup {":", "/"})
      BY <1>0, <1>1, <1>3 DEF S
    <3> HIDE DEF prefix
    <3> QED
      BY <3>1, ConcatEmptySeq
  <2>2. ParsedRoot(v) = Ok(Root("drive", prefix, rest))
    BY <1>3, <2>1, Zenon DEF ParsedRoot, DriveRoot
  <2>3. kind = "drive"
    BY <2>2, Outcomes
  <2>4. rest \in Seq(S)
    BY FromType DEF S
  <2>5. RootAt(kind, prefix)
    BY <1>0, <1>1, <1>3, <2>3 DEF RootAt, S
  <2> QED
    BY <2>2, <2>3, <2>4, <2>5, Zenon DEF S
<1>4. CASE ~StartsWith(v, ExtendedMark) /\ ~HasDriveRoot(v) /\ StartsWith(v, <<"/", "/">>)
  <2> DEFINE mark == <<"/", "/">>
             s == From(v, 3)
  <2>1. ParsedRoot(v) = UncRoot("unc", mark, Split(s))
    BY <1>4, Zenon DEF ParsedRoot
  <2>2. s \in Seq(S)
    BY FromType DEF S
  <2>9. mark \in Seq(S) /\ Len(mark) + 1 = 3
    BY <1>0
  <2> HIDE DEF s, mark
  <2>3. PICK a \in RealNames(S), b \in RealNames(S), rest \in Seq(S) :
          /\ UncRoot("unc", mark, Split(s)) = Ok(Root("unc", mark \o a \o <<"/">> \o b, rest))
          /\ a = <<"?">> => StartsWith(s, <<"?", "/">>)
    BY <1>0, <2>1, <2>2, UncRootGives
  <2>4. kind = "unc"
    BY <2>1, <2>3, Outcomes
  <2>5. a # <<"?">>
    <3> SUFFICES ASSUME StartsWith(s, <<"?", "/">>) PROVE FALSE
      BY <2>3
    <3>1. v = mark \o s
      BY <1>4, <2>9, StartsWithGives DEF s, mark, S
    <3>2. <<"?", "/">> \in Seq(S)
      BY <1>0
    <3> DEFINE q == <<"?", "/">>
               t == From(s, Len(q) + 1)
    <3>3. s = q \o t /\ t \in Seq(S)
      BY <2>2, <3>2, StartsWithGives
    <3>4. mark \o q = ExtendedMark
      BY TwoPairs, Zenon DEF mark, ExtendedMark
    <3> HIDE DEF q, t
    <3>5. (mark \o q) \o t = mark \o (q \o t)
      <4>1. q \in Seq(S)
        BY <3>2 DEF q
      <4>2. mark \in Seq(S) /\ t \in Seq(S)
        BY <2>9, <3>3
      <4>3. Same(mark \o q \o t, mark \o (q \o t))
        BY <4>1, <4>2, Moved
      <4> QED
        BY <4>3, Zenon DEF Same
    <3>6. v = ExtendedMark \o t
      BY <3>1, <3>3, <3>4, <3>5, Zenon
    <3>7. ExtendedMark \in Seq(S)
      BY <1>0 DEF ExtendedMark
    <3>8. StartsWith(ExtendedMark \o t, ExtendedMark)
      BY <3>3, <3>7, StartsWithConcat
    <3> QED
      BY <1>4, <3>6, <3>8, Zenon
  <2>6. RootAt(kind, mark \o a \o <<"/">> \o b)
    BY <1>0, <2>4, <2>5, Zenon DEF RootAt, mark
  <2> QED
    BY <2>1, <2>3, <2>4, <2>6, Zenon DEF S
<1>5. CASE ~StartsWith(v, ExtendedMark) /\ ~HasDriveRoot(v) /\ ~StartsWith(v, <<"/", "/">>) /\ StartsWith(v, <<"/">>)
  <2>1. ParsedRoot(v) = Ok(Root("posix", <<"/">>, Tail(v)))
    BY <1>5, Zenon DEF ParsedRoot
  <2>2. kind = "posix"
    BY <2>1, Outcomes
  <2>3. Tail(v) \in Seq(S)
    <3>1. <<"/">> \in Seq(S) /\ Len(<<"/">>) = 1
      BY <1>0
    <3>2. Len(v) >= 1
      BY <1>5, <3>1, StartsWithMeans DEF S
    <3> QED
      BY <3>2 DEF S
  <2>4. RootAt(kind, <<"/">>)
    BY <2>2 DEF RootAt
  <2> QED
    BY <2>1, <2>2, <2>3, <2>4, Zenon DEF S
<1>6. CASE ~StartsWith(v, ExtendedMark) /\ ~HasDriveRoot(v) /\ ~StartsWith(v, <<"/", "/">>) /\ ~StartsWith(v, <<"/">>)
  <2>1. ParsedRoot(v) = IF IsDriveRelative(v) THEN Err("ERR_DRIVE_RELATIVE_PATH") ELSE Ok(Root("relative", <<>>, v))
    BY <1>6, Zenon DEF ParsedRoot, Unless
  <2>2. ParsedRoot(v) = Ok(Root("relative", <<>>, v))
    BY <2>1, Outcomes
  <2>3. kind = "relative"
    BY <2>2, Outcomes
  <2>4. RootAt(kind, <<>>)
    BY <2>3 DEF RootAt
  <2> QED
    BY <2>2, <2>3, <2>4, Zenon
<1> QED
  BY <1>2, <1>3, <1>4, <1>5, <1>6

\* Whatever splitRoot accepts is one of the six roots, in its alphabet.
LEMMA SplitRootGives ==
  ASSUME NEW v \in Seq(Symbols), IsOk(SplitRoot(v))
  PROVE  \E kind, prefix : \E rest \in Seq(Alphabet(kind)) :
           /\ SplitRoot(v) = Ok(Root(kind, prefix, rest)) /\ RootAt(kind, prefix)
           /\ v \in Seq(Alphabet(kind)) /\ (kind = "relative" => rest = v)
<1> DEFINE r == ParsedRoot(v)
<1>0. PICK kind : kind = r.value.kind
  OBVIOUS
<1>1. ~Has(v, NUL) /\ IsOk(r) /\ ~(IsWindowsRoot(kind) /\ Has(v, "\\")) /\ SplitRoot(v) = Ok(r.value)
  <2>1. ~Has(v, NUL)
    BY Outcomes DEF SplitRoot, Unless
  <2>2. IsOk(r)
    <3>1. SplitRoot(v) = IF IsOk(r) THEN Unless(IsWindowsRoot(r.value.kind) /\ Has(v, "\\"), "ERR_INVALID_PATH", Ok(r.value)) ELSE r
      BY <2>1, Zenon DEF SplitRoot, Unless, Then
    <3> QED
      BY <3>1
  <2> HIDE DEF r
  <2>3. SplitRoot(v) = IF IsWindowsRoot(kind) /\ Has(v, "\\") THEN Err("ERR_INVALID_PATH") ELSE Ok(r.value)
    BY <1>0, <2>1, <2>2, Zenon DEF SplitRoot, Unless, Then, r
  <2> QED
    BY <2>1, <2>2, <2>3, Outcomes
<1> HIDE DEF r
<1>2. v \in Seq(Alphabet(kind))
  <2>1. v \in Seq(Symbols \ {NUL})
    BY <1>1, HasMeans
  <2>2. CASE IsWindowsRoot(kind)
    <3>1. ~Has(v, "\\")
      BY <1>1, <2>2
    <3>2. v \in Seq((Symbols \ {NUL}) \ {"\\"})
      BY <2>1, <3>1, HasMeans
    <3>3. (Symbols \ {NUL}) \ {"\\"} = Alphabet(kind)
      BY <2>2 DEF Alphabet
    <3> QED
      BY <3>2, <3>3, Zenon
  <2>3. CASE ~IsWindowsRoot(kind)
    <3>1. Symbols \ {NUL} = Alphabet(kind)
      BY <2>3, Zenon DEF Alphabet
    <3> QED
      BY <2>1, <3>1, Zenon
  <2> QED
    BY <2>2, <2>3
<1>4. PICK prefix : \E rest \in Seq(Alphabet(kind)) :
           /\ ParsedRoot(v) = Ok(Root(kind, prefix, rest)) /\ RootAt(kind, prefix)
           /\ kind = "relative" => rest = v
  BY <1>0, <1>1, <1>2, ParsedGives DEF r
<1>5. PICK rest \in Seq(Alphabet(kind)) :
           /\ ParsedRoot(v) = Ok(Root(kind, prefix, rest)) /\ RootAt(kind, prefix)
           /\ kind = "relative" => rest = v
  BY <1>4
<1>6. SplitRoot(v) = Ok(Root(kind, prefix, rest))
  BY <1>1, <1>5, Outcomes, Zenon DEF r
<1> QED
  BY <1>2, <1>5, <1>6

\* Whatever cleanCanonical returns is an identity: a root and real names of the text.
LEMMA CleanGives ==
  ASSUME NEW v \in Seq(Symbols), IsOk(CleanCanonical(v))
  PROVE  \E kind, prefix : \E rest \in Seq(Alphabet(kind)), kept \in Seq(NamesOf(kind)) :
           /\ SplitRoot(v) = Ok(Root(kind, prefix, rest)) /\ RootAt(kind, prefix)
           /\ kind = "relative" => rest = v
           /\ CleanCanonical(v) = Ok(Whole(kind, prefix, kept))
           /\ \A i \in 1 .. Len(kept) : kept[i] \in NamesIn(Split(rest))
<1>1. v # <<>> /\ IsOk(SplitRoot(v))
  <2>1. v # <<>>
    BY Outcomes DEF CleanCanonical, Unless
  <2>2. ASSUME ~IsOk(SplitRoot(v)) PROVE CleanCanonical(v) = SplitRoot(v)
    BY <2>1, <2>2, Zenon DEF CleanCanonical, Unless, Then
  <2> QED
    BY <2>1, <2>2
<1>2. PICK kind, prefix : \E rest \in Seq(Alphabet(kind)) :
           /\ SplitRoot(v) = Ok(Root(kind, prefix, rest)) /\ RootAt(kind, prefix)
           /\ v \in Seq(Alphabet(kind)) /\ (kind = "relative" => rest = v)
  BY <1>1, SplitRootGives
<1> DEFINE S == Alphabet(kind)
<1>3. PICK rest \in Seq(S) :
           /\ SplitRoot(v) = Ok(Root(kind, prefix, rest)) /\ RootAt(kind, prefix)
           /\ v \in Seq(S) /\ (kind = "relative" => rest = v)
  BY <1>2
<1>4. "/" \in S
  BY Signs
<1> HIDE DEF S
<1> DEFINE c == CleanComponents(rest, kind # "relative", "ERR_INVALID_PATH")
           r == Root(kind, prefix, rest)
           text(parts) == LET joined == Joined(parts)
                          IN CASE r.kind = "relative" -> MarkRelative(joined)
                               [] r.kind # "relative" /\ joined = <<>> -> r.prefix
                               [] OTHER -> r.prefix \o (IF EndsWith(r.prefix, "/") THEN <<>> ELSE <<"/">>) \o joined
<1>5. CleanCanonical(v) = IF IsOk(c) THEN Ok(text(c.value)) ELSE c
  <2>1. SplitRoot(v) = Ok(r) /\ IsOk(Ok(r)) /\ Ok(r).value = r /\ r.kind = kind /\ r.rest = rest
    <3>1. SplitRoot(v) = Ok(r)
      BY <1>3
    <3>2. r.kind = kind /\ r.rest = rest
      BY Outcomes
    <3> HIDE DEF r
    <3> QED
      BY <3>1, <3>2, Outcomes, Zenon
  <2> HIDE DEF r
  <2> QED
    BY <1>1, <2>1, Zenon DEF CleanCanonical, Unless, Then
<1>6. IsOk(c)
  BY <1>5
<1>7. PICK kept \in Seq(NamesIn(Split(rest))) : c = Ok(kept)
  <2>1. c \in CleanResults(Split(rest), "ERR_INVALID_PATH")
    BY CleanedAreNames
  <2> QED
    BY <1>6, <2>1, Outcomes DEF CleanResults
<1>8. kept \in Seq(NamesOf(kind)) /\ \A i \in 1 .. Len(kept) : kept[i] \in NamesIn(Split(rest))
  <2>1. c \in CleanResults(Split(rest), "ERR_INVALID_PATH") /\ NamesIn(Split(rest)) \subseteq RealNames(S)
    <3>1. rest \in Seq(S) /\ "ERR_INVALID_PATH" # "ok"
      OBVIOUS
    <3> QED
      BY <3>1, CleanedAreNames, Zenon
  <2>2. kept \in Seq(RealNames(S))
    BY <2>1, SeqMonotonic
  <2> QED
    BY <2>2 DEF NamesOf, S
<1> DEFINE j == Joined(kept)
           t == CASE kind = "relative" -> MarkRelative(j)
                  [] kind # "relative" /\ j = <<>> -> prefix
                  [] OTHER -> prefix \o (IF EndsWith(prefix, "/") THEN <<>> ELSE <<"/">>) \o j
<1>9. CleanCanonical(v) = Ok(t)
  <2>1. c.value = kept /\ r.kind = kind /\ r.prefix = prefix
    BY <1>7, Outcomes
  <2> HIDE DEF r, c
  <2> QED
    BY <1>5, <1>6, <2>1, Zenon
<1>10. t = Whole(kind, prefix, kept)
  <2>1. kind # "relative" => (EndsWith(prefix, "/") <=> kind \notin Uncs)
    BY <1>3, RootEnds
  <2>2. j = <<>> <=> kept = <<>>
    BY <1>4, <1>8, JoinedStarts, JoinedOfNothing DEF NamesOf, S
  <2> HIDE DEF j
  <2>3. CASE kind = "relative"
    BY <2>3, Zenon DEF Whole, j
  <2>4. CASE kind # "relative" /\ j = <<>>
    BY <2>2, <2>4, Zenon DEF Whole, j
  <2>5. CASE kind # "relative" /\ j # <<>> /\ kind \in Uncs
    BY <2>1, <2>2, <2>5, Zenon DEF Whole, j
  <2>6. CASE kind # "relative" /\ j # <<>> /\ kind \notin Uncs
    BY <2>1, <2>2, <2>6, Zenon DEF Whole, j
  <2> QED
    BY <2>3, <2>4, <2>5, <2>6
<1> HIDE DEF t
<1> QED
  BY <1>3, <1>8, <1>9, <1>10 DEF S

(***************************************************************************)
(* join                                                                    *)
(***************************************************************************)
\* A relative identity starts with no slash and no drive, and ends in no slash.
LEMMA RelativeShape ==
  ASSUME NEW parts \in Seq(NamesOf("relative"))
  PROVE  LET v == Whole("relative", <<>>, parts)
         IN /\ v \in Seq(Alphabet("relative")) /\ v # <<>> /\ v[1] # "/" /\ Reads(v, parts)
            /\ ~NeedsRelativeMarker(v) /\ ~EndsWith(v, "/")
<1> DEFINE S == Alphabet("relative")
           j == Joined(parts)
           v == MarkRelative(j)
<1>0. {"/", ".", "?", ":", "UNC"} \cup Letters \subseteq S /\ "." \notin Letters
  BY Signs
<1>1. parts \in Seq(RealNames(S))
  BY DEF NamesOf
<1>2. v = Whole("relative", <<>>, parts)
  BY DEF Whole
<1>3. Denotes(v, "relative", <<>>, parts)
  BY <1>2, WholeRelative
<1>4. v \in Seq(S) /\ v # <<>> /\ Reads(v, parts)
  BY <1>3 DEF Denotes
<1> HIDE DEF S
<1>5. v[1] # "/" /\ ~NeedsRelativeMarker(v) /\ ~EndsWith(v, "/")
  <2>1. CASE parts = <<>>
    <3>1. v = <<".">>
      BY <2>1, JoinedOfNothing DEF MarkRelative
    <3>2. ~NeedsRelativeMarker(<<".">>) /\ <<".">>[1] # "/" /\ ~EndsWith(<<".">>, "/")
      BY DEF NeedsRelativeMarker, EndsWith, Last
    <3> QED
      BY <3>1, <3>2
  <2>2. CASE parts # <<>>
    <3>1. j \in Seq(S) /\ j # <<>> /\ j[1] # "/" /\ Len(j) \in Nat \ {0}
      BY <1>0, <1>1, <2>2, JoinedStarts
    <3>2. j[Len(j)] # "/"
      BY <1>0, <1>1, <2>2, JoinedEnds
    <3> HIDE DEF j
    <3>3. CASE NeedsRelativeMarker(j)
      <4> DEFINE p == <<".", "/">>
      <4>1. p \in Seq(S) /\ Len(p) = 2 /\ p[1] = "." /\ p[2] = "/"
        BY <1>0
      <4> HIDE DEF p
      <4>2. v = p \o j
        BY <3>1, <3>3 DEF MarkRelative, p
      <4>3. ~EndsWith(p \o j, "/")
        BY <3>1, <3>2, <4>1, EndsWithMeans
      <4>4. Len(p \o j) >= 2 /\ (p \o j)[1] = "."
        <5>1. p \in Seq(S) /\ j \in Seq(S)
          BY <3>1, <4>1
        <5>2. Len(p \o j) = Len(p) + Len(j) /\ \A i \in 1 .. Len(p) : (p \o j)[i] = p[i]
          BY <5>1, ConcatAt
        <5>3. 1 \in 1 .. Len(p)
          BY <4>1
        <5>4. (p \o j)[1] = "."
          BY <4>1, <5>2, <5>3, Zenon
        <5>5. Len(p \o j) >= 2
          BY <3>1, <4>1, <5>2
        <5> QED
          BY <5>4, <5>5
      <4> HIDE DEF v
      <4>5. ~NeedsRelativeMarker(v)
        BY <1>0, <1>4, <4>2, <4>4, DriveRootMeans
      <4> QED
        BY <4>2, <4>3, <4>4, <4>5
    <3>4. CASE ~NeedsRelativeMarker(j)
      <4>1. v = j
        BY <3>1, <3>4 DEF MarkRelative
      <4>2. ~EndsWith(j, "/")
        BY <3>1, <3>2 DEF EndsWith, Last
      <4> QED
        BY <3>1, <3>4, <4>1, <4>2
    <3> QED
      BY <3>3, <3>4
  <2> QED
    BY <2>1, <2>2
<1> HIDE DEF v
<1> QED
  BY <1>2, <1>4, <1>5, Zenon DEF S

\* The text that join puts together for names under an identity.
LEMMA DeeperDenotes ==
  ASSUME NEW kind, NEW prefix, RootAt(kind, prefix), NEW ps \in Seq(NamesOf(kind)),
         NEW more \in Seq(NamesOf(kind)), more # <<>>
  PROVE  LET w == Whole(kind, prefix, ps)
             text == w \o (IF EndsWith(w, "/") THEN <<>> ELSE <<"/">>) \o Joined(more)
         IN Denotes(text, kind, prefix, ps \o more)
<1> DEFINE S == Alphabet(kind)
           T == RealNames(S)
           w == Whole(kind, prefix, ps)
           k == <<"/">>
           j == Joined(more)
           text == w \o (IF EndsWith(w, "/") THEN <<>> ELSE <<"/">>) \o j
           all == ps \o more
           s == IF kind \in Uncs THEN <<"/">> ELSE <<>>
<1>0. {"/", ".", "?", ":", "UNC"} \cup Letters \subseteq S /\ k \in Seq(S)
  BY Signs
<1>1. ps \in Seq(T) /\ more \in Seq(T)
  BY DEF NamesOf
<1>2. all \in Seq(T) /\ all # <<>> /\ (ps = <<>> => all = more)
  <2> HIDE DEF T
  <2> QED
    BY <1>1, ConcatProperties, ConcatEmptySeq, ConcatEqualIffEmpty
<1>3. prefix \in Seq(S)
  BY RootAtLength
<1>4. all \in Seq(NamesOf(kind))
  BY <1>2 DEF NamesOf
<1> HIDE DEF S
<1>5. j \in Seq(S)
  BY <1>0, <1>1, ReadsJoined
<1>6. s \in Seq(S)
  BY <1>0
<1> HIDE DEF j, w, all
<1>7. CASE kind # "relative" /\ ps = <<>>
  <2>1. w = prefix
    BY <1>7, Zenon DEF Whole, w
  <2>2. EndsWith(prefix, "/") <=> kind \notin Uncs
    BY <1>7, RootEnds
  <2>3. text = prefix \o s \o j
    BY <2>1, <2>2, Zenon
  <2>4. Whole(kind, prefix, more) = prefix \o s \o j
    BY <1>7, Zenon DEF Whole, j
  <2>5. Denotes(Whole(kind, prefix, all), kind, prefix, all)
    BY <1>4, WholeDenotes
  <2> QED
    BY <1>2, <1>7, <2>3, <2>4, <2>5, Zenon DEF w, j, all
<1>8. CASE kind # "relative" /\ ps # <<>>
  <2> DEFINE p == prefix \o s
             q == Joined(ps)
  <2>1. w = p \o q
    BY <1>8, Zenon DEF Whole, w
  <2>2. p \in Seq(S)
    BY <1>3, <1>6, ConcatProperties
  <2>3. q \in Seq(S) /\ q # <<>> /\ q[Len(q)] # "/"
    BY <1>0, <1>1, <1>8, JoinedStarts, JoinedEnds
  <2> HIDE DEF p, s
  <2>4. Joined(all) = q \o k \o j
    <3>1. ps \in PiecesOf(S) /\ more \in PiecesOf(S)
      BY <1>1, <1>8, RealNamesArePieces
    <3> QED
      BY <1>0, <3>1, JoinedOfConcat DEF j, all
  <2> HIDE DEF q, k
  <2>5. ~EndsWith(p \o q, "/")
    BY <2>2, <2>3, EndsWithMeans
  <2>6. text = p \o q \o k \o j
    BY <2>1, <2>5, Zenon DEF k
  <2>7. Same(p \o q \o k \o j, p \o (q \o k \o j))
    BY <1>0, <1>5, <2>2, <2>3, Regrouped DEF k
  <2>8. Whole(kind, prefix, all) = p \o Joined(all)
    BY <1>2, <1>8, Zenon DEF Whole, p, s
  <2>9. text = Whole(kind, prefix, all)
    BY <2>4, <2>6, <2>7, <2>8, Zenon DEF Same
  <2>10. Denotes(Whole(kind, prefix, all), kind, prefix, all)
    BY <1>4, WholeDenotes
  <2> QED
    BY <2>9, <2>10, Zenon DEF w, j, all
<1>9. CASE kind = "relative"
  <2>1. prefix = <<>>
    BY <1>9 DEF RootAt
  <2>2. /\ w \in Seq(S) /\ w # <<>> /\ w[1] # "/" /\ Reads(w, ps)
        /\ ~NeedsRelativeMarker(w) /\ ~EndsWith(w, "/")
    BY <1>9, <2>1, RelativeShape DEF w, S
  <2>3. text = w \o k \o j
    BY <2>2, Zenon
  <2>4. Reads(w \o <<"/">> \o Joined(more), ps \o more) /\ w \o <<"/">> \o Joined(more) \in Seq(S)
    BY <1>0, <1>1, <2>2, ReadsLonger
  <2> DEFINE v == w \o k \o j
  <2>5. Reads(v, all) /\ v \in Seq(S)
    BY <2>4 DEF j, all
  <2>6. Len(v) = Len(w) + 1 + Len(j) /\ Len(w) \in Nat \ {0} /\ Len(j) \in Nat
        /\ v[Len(w) + 1] = "/" /\ \A i \in 1 .. Len(w) : v[i] = w[i]
    <3> DEFINE u == w \o k
    <3>1. Len(k) = 1 /\ k[1] = "/" /\ 1 \in 1 .. Len(k)
      OBVIOUS
    <3> HIDE DEF k
    <3>0. w \in Seq(S) /\ k \in Seq(S)
      BY <1>0, <2>2
    <3>6. /\ w \o k \in Seq(S) /\ Len(w \o k) = Len(w) + Len(k) /\ Len(w) \in Nat
          /\ (\A i \in 1 .. Len(w) : (w \o k)[i] = w[i])
          /\ (\A i \in 1 .. Len(k) : (w \o k)[Len(w) + i] = k[i])
      BY <3>0, ConcatAt
    <3>7. /\ u \in Seq(S) /\ Len(u) = Len(w) + Len(k) /\ Len(w) \in Nat
          /\ (\A i \in 1 .. Len(w) : u[i] = w[i])
          /\ (\A i \in 1 .. Len(k) : u[Len(w) + i] = k[i])
      BY <3>6, Zenon DEF u
    <3> HIDE DEF u
    <3>2. /\ u \in Seq(S) /\ Len(u) = Len(w) + 1 /\ Len(w) \in Nat
          /\ (\A i \in 1 .. Len(w) : u[i] = w[i]) /\ u[Len(w) + 1] = "/"
      BY <3>1, <3>7
    <3>3. /\ Len(u \o j) = Len(u) + Len(j) /\ Len(j) \in Nat
          /\ (\A i \in 1 .. Len(u) : (u \o j)[i] = u[i])
      BY <1>5, <3>2, ConcatAt
    <3>4. Len(w) # 0
      BY <2>2, EmptySeq
    <3>5. v = u \o j
      BY DEF u
    <3> HIDE DEF v
    <3> QED
      BY <3>2, <3>3, <3>4, <3>5
  <2> HIDE DEF v
  <2>7. v # <<>> /\ v[1] # "/"
    <3>1. 1 \in 1 .. Len(w)
      BY <2>6
    <3>2. v[1] = w[1] /\ Len(v) # 0
      BY <2>6, <3>1
    <3> QED
      BY <2>2, <2>5, <3>2
  <2>8. ~NeedsRelativeMarker(v)
    <3>1. ~(Len(w) >= 2 /\ w[1] \in Letters /\ w[2] = ":")
      BY <2>2, DriveRootMeans
    <3>2. CASE Len(w) >= 2
      <4>1. 1 \in 1 .. Len(w) /\ 2 \in 1 .. Len(w)
        BY <2>6, <3>2
      <4>2. v[1] = w[1] /\ v[2] = w[2]
        BY <2>6, <4>1
      <4> QED
        BY <2>5, <3>1, <3>2, <4>2, DriveRootMeans
    <3>3. CASE Len(w) < 2
      <4>1. v[2] = "/"
        BY <2>6, <3>3
      <4> QED
        BY <2>5, <4>1, DriveRootMeans
    <3> QED
      BY <2>6, <3>2, <3>3
  <2>9. ParsedRoot(v) = Ok(Root("relative", <<>>, v))
    BY <1>0, <2>5, <2>7, <2>8, ParsedRelative
  <2>10. Denotes(v, kind, prefix, all)
    BY <1>4, <1>9, <2>1, <2>5, <2>7, <2>9 DEF Denotes, S
  <2> QED
    BY <2>3, <2>10, Zenon DEF w, v, j, all
<1> QED
  BY <1>7, <1>8, <1>9

\* join appends the names of its operand.
LEMMA JoinNames ==
  ASSUME NEW kind, NEW prefix, RootAt(kind, prefix), NEW ps \in Seq(NamesOf(kind)), NEW more \in Seq(NamesOf(kind)),
         NEW rel, CleanCanonicalRelative(rel) = Ok(MarkRelative(Joined(more))),
         IsWindowsRoot(kind) => ~Has(rel, "\\")
  PROVE  JoinPath(Whole(kind, prefix, ps), rel) = Ok(Whole(kind, prefix, ps \o more))
<1> DEFINE S == Alphabet(kind)
           w == Whole(kind, prefix, ps)
           j == Joined(more)
           clean == MarkRelative(j)
           components == IF StartsWith(clean, <<".", "/">>) THEN From(clean, 3) ELSE clean
           text(c) == w \o (IF EndsWith(w, "/") THEN <<>> ELSE <<"/">>) \o c
           r == Root(kind, prefix, RestOf(kind, prefix, ps))
<1>0. {"/", ".", "?", ":", "UNC"} \cup Letters \subseteq S
  BY Signs
<1>1. more \in Seq(RealNames(S))
  BY DEF NamesOf
<1>2. ValidateCanonical(w, FALSE) = Ok(r)
  BY WholeIsCanonical
<1>3. r.kind = kind
  BY Outcomes
<1> HIDE DEF S, w, r
<1>4. JoinPath(w, rel) = IF clean = <<".">> THEN Ok(w) ELSE CleanCanonical(text(components))
  <2> DEFINE c == CleanCanonicalRelative(rel)
  <2>1. IsOk(c) /\ c.value = clean
    BY Outcomes
  <2> HIDE DEF c, clean
  <2>2. ~(IsWindowsRoot(r.kind) /\ Has(rel, "\\")) /\ IsOk(ValidateCanonical(w, FALSE)) /\ ValidateCanonical(w, FALSE).value = r
    BY <1>2, <1>3, Outcomes, Zenon
  <2> QED
    BY <2>1, <2>2, Zenon DEF JoinPath, Unless, Then, c
<1>5. CASE more = <<>>
  <2>1. clean = <<".">>
    BY <1>5, JoinedOfNothing DEF MarkRelative
  <2>2. ps \o more = ps
    BY <1>5, ConcatEmptySeq
  <2> QED
    BY <1>4, <2>1, <2>2, Zenon DEF w
<1>6. CASE more # <<>>
  <2>1. j \in Seq(S) /\ Len(j) \in Nat \ {0} /\ j # <<".">> /\ ~StartsWith(j, <<".", "/">>) /\ j # <<>>
    BY <1>0, <1>1, <1>6, JoinedStarts
  <2> HIDE DEF j
  <2>2. clean # <<".">> /\ components = j
    <3>1. CASE NeedsRelativeMarker(j)
      <4> DEFINE p == <<".", "/">>
      <4>1. p \in Seq(S) /\ Len(p) = 2 /\ Len(p) + 1 = 3
        BY <1>0
      <4>2. clean = p \o j
        BY <2>1, <3>1 DEF MarkRelative
      <4> HIDE DEF p
      <4>3. StartsWith(p \o j, p) /\ From(p \o j, Len(p) + 1) = j /\ Len(p \o j) = Len(p) + Len(j)
        BY <2>1, <4>1, StartsWithConcat, ConcatAt, ZenonT(40)
      <4>4. StartsWith(p \o j, <<".", "/">>) /\ From(p \o j, 3) = j
        BY <4>1, <4>3 DEF p
      <4>5. p \o j # <<".">>
        <5>1. Len(p \o j) > 1
          BY <2>1, <4>1, <4>3
        <5>2. Len(<<".">>) = 1
          OBVIOUS
        <5>3. Len(p \o j) # Len(<<".">>)
          BY <5>1, <5>2
        <5> QED
          BY <5>3, Zenon
      <4> QED
        BY <4>2, <4>4, <4>5, Zenon
    <3>2. CASE ~NeedsRelativeMarker(j)
      <4>1. clean = j
        BY <2>1, <3>2 DEF MarkRelative
      <4> QED
        BY <2>1, <4>1, Zenon
    <3> QED
      BY <3>1, <3>2
  <2>3. JoinPath(w, rel) = CleanCanonical(text(j))
    BY <1>4, <2>2, Zenon
  <2>4. Denotes(text(j), kind, prefix, ps \o more)
    BY <1>6, DeeperDenotes DEF w, j
  <2>5. CleanCanonical(text(j)) = Ok(Whole(kind, prefix, ps \o more))
    BY <2>4, DenotesClean
  <2> QED
    BY <2>3, <2>5, Zenon DEF w
<1> QED
  BY <1>5, <1>6

\* The names of every root are names for a relative or POSIX text.
LEMMA NamesForRelative ==
  ASSUME NEW kind
  PROVE  NamesOf(kind) \subseteq NamesOf("relative") /\ NamesOf(kind) \subseteq NamesOf("posix")
<1>1. Alphabet(kind) \subseteq Symbols \ {NUL} /\ Alphabet("relative") = Symbols \ {NUL} /\ Alphabet("posix") = Symbols \ {NUL}
  BY DEF Alphabet, IsWindowsRoot
<1>2. \A S, T : S \subseteq T => RealNames(S) \subseteq RealNames(T)
  <2> SUFFICES ASSUME NEW S, NEW T, S \subseteq T PROVE RealNames(S) \subseteq RealNames(T)
    OBVIOUS
  <2>1. S \ {"/"} \subseteq T \ {"/"}
    OBVIOUS
  <2>2. Seq(S \ {"/"}) \subseteq Seq(T \ {"/"})
    BY <2>1, SeqMonotonic
  <2> QED
    BY <2>2 DEF RealNames, PartsOf
<1> QED
  BY <1>1, <1>2 DEF NamesOf

\* Whatever join returns is the identity with names of the same root appended.
LEMMA JoinGives ==
  ASSUME NEW kind, NEW prefix, RootAt(kind, prefix), NEW ps \in Seq(NamesOf(kind)),
         NEW rel \in Seq(Symbols), IsOk(JoinPath(Whole(kind, prefix, ps), rel))
  PROVE  \E more \in Seq(NamesOf(kind)) :
           JoinPath(Whole(kind, prefix, ps), rel) = Ok(Whole(kind, prefix, ps \o more))
<1> DEFINE w == Whole(kind, prefix, ps)
           r == Root(kind, prefix, RestOf(kind, prefix, ps))
           c == CleanCanonicalRelative(rel)
           S == Alphabet(kind)
<1>1. ValidateCanonical(w, FALSE) = Ok(r)
  BY WholeIsCanonical
<1>2. r.kind = kind
  BY Outcomes
<1> HIDE DEF r, w
<1>3. IsOk(JoinPath(w, rel))
  BY DEF w
<1>4. (IsWindowsRoot(kind) => ~Has(rel, "\\")) /\ IsOk(c)
  <2>1. ASSUME IsWindowsRoot(kind), Has(rel, "\\") PROVE FALSE
    <3>1. JoinPath(w, rel) = Err("ERR_INVALID_PATH")
      BY <1>1, <1>2, <2>1, Outcomes, Zenon DEF JoinPath, Unless, Then
    <3> QED
      BY <1>3, <3>1, Outcomes
  <2>2. ASSUME ~IsOk(c) PROVE FALSE
    <3>1. JoinPath(w, rel) = c
      BY <1>1, <1>2, <2>1, <2>2, Outcomes, Zenon DEF JoinPath, Unless, Then
    <3> QED
      BY <1>3, <2>2, <3>1
  <2> QED
    BY <2>1, <2>2
<1>5. rel # <<>> /\ IsOk(SplitRoot(rel))
  <2>1. rel # <<>>
    BY <1>4, Outcomes DEF CleanCanonicalRelative, Unless
  <2>2. ASSUME ~IsOk(SplitRoot(rel)) PROVE c = SplitRoot(rel)
    BY <2>1, <2>2, Zenon DEF CleanCanonicalRelative, Unless, Then
  <2> QED
    BY <1>4, <2>1, <2>2
<1>6. PICK k, p : \E rest \in Seq(Alphabet(k)) :
           /\ SplitRoot(rel) = Ok(Root(k, p, rest)) /\ RootAt(k, p)
           /\ rel \in Seq(Alphabet(k)) /\ (k = "relative" => rest = rel)
  BY <1>5, SplitRootGives
<1>7. PICK rest \in Seq(Alphabet(k)) :
           SplitRoot(rel) = Ok(Root(k, p, rest)) /\ (k = "relative" => rest = rel)
  BY <1>6
<1> DEFINE q == Root(k, p, rest)
           d == CleanComponents(rest, FALSE, "ERR_OUTSIDE_ROOT")
<1>8. q.kind = k /\ q.rest = rest
  BY Outcomes
<1>9. c = IF k # "relative" THEN Err("ERR_ABSOLUTE_PATH")
          ELSE IF IsOk(d) THEN Ok(MarkRelative(Joined(d.value))) ELSE d
  <2>1. SplitRoot(rel) = Ok(q)
    BY <1>7
  <2> HIDE DEF q
  <2> QED
    BY <1>5, <1>8, <2>1, Outcomes, Zenon DEF CleanCanonicalRelative, Unless, Then
<1>10. k = "relative" /\ IsOk(d) /\ c = Ok(MarkRelative(Joined(d.value)))
  <2> HIDE DEF c, d
  <2> QED
    BY <1>4, <1>9, Outcomes
<1>11. rest \in Seq(S)
  <2>1. rest = rel /\ rest \in Seq(Symbols \ {NUL})
    BY <1>7, <1>10 DEF Alphabet, IsWindowsRoot
  <2>2. CASE IsWindowsRoot(kind)
    <3>1. rest \in Seq((Symbols \ {NUL}) \ {"\\"})
      BY <1>4, <2>1, <2>2, HasMeans
    <3>2. (Symbols \ {NUL}) \ {"\\"} = S
      BY <2>2 DEF Alphabet
    <3> QED
      BY <3>1, <3>2, Zenon
  <2>3. CASE ~IsWindowsRoot(kind)
    <3>1. Symbols \ {NUL} = S
      BY <2>3, Zenon DEF Alphabet
    <3> QED
      BY <2>1, <3>1, Zenon
  <2> QED
    BY <2>2, <2>3
<1> HIDE DEF S
<1>12. PICK more \in Seq(NamesIn(Split(rest))) : d = Ok(more)
  <2>1. d \in CleanResults(Split(rest), "ERR_OUTSIDE_ROOT")
    BY <1>11, CleanedAreNames
  <2> QED
    BY <1>10, <2>1, Outcomes DEF CleanResults
<1>13. more \in Seq(NamesOf(kind))
  <2>1. d \in CleanResults(Split(rest), "ERR_OUTSIDE_ROOT") /\ NamesIn(Split(rest)) \subseteq RealNames(S)
    <3>1. "ERR_OUTSIDE_ROOT" # "ok"
      OBVIOUS
    <3> QED
      BY <1>11, <3>1, CleanedAreNames, Zenon
  <2>2. more \in Seq(RealNames(S))
    BY <2>1, SeqMonotonic
  <2> QED
    BY <2>2 DEF NamesOf, S
<1>14. c = Ok(MarkRelative(Joined(more)))
  BY <1>10, <1>12, Outcomes, Zenon
<1>15. JoinPath(w, rel) = Ok(Whole(kind, prefix, ps \o more))
  BY <1>4, <1>13, <1>14, JoinNames DEF w
<1> QED
  BY <1>13, <1>15 DEF w

\* join with names that were marked as relative appends these names.
LEMMA JoinRelative ==
  ASSUME NEW kind, NEW prefix, RootAt(kind, prefix), NEW ps \in Seq(NamesOf(kind)), NEW more \in Seq(NamesOf(kind))
  PROVE  JoinPath(Whole(kind, prefix, ps), MarkRelative(Joined(more))) = Ok(Whole(kind, prefix, ps \o more))
<1> DEFINE v == Whole("relative", <<>>, more)
           S == Alphabet(kind)
<1>1. more \in Seq(NamesOf("relative"))
  BY NamesForRelative, SeqMonotonic
<1>2. v = MarkRelative(Joined(more)) /\ Denotes(v, "relative", <<>>, more)
  BY <1>1, WholeRelative DEF Whole
<1>3. SplitRoot(v) = Ok(Root("relative", <<>>, v)) /\ v # <<>> /\ Reads(v, more) /\ v \in Seq(Alphabet("relative"))
  <2> HIDE DEF v
  <2>1. PICK rest \in Seq(Alphabet("relative")) :
           /\ SplitRoot(v) = Ok(Root("relative", <<>>, rest)) /\ Reads(rest, more)
           /\ rest = IF "relative" = "relative" THEN v ELSE Joined(more)
    BY <1>2, DenotesRoot
  <2> QED
    BY <1>2, <2>1 DEF Denotes
<1>4. CleanComponents(v, FALSE, "ERR_OUTSIDE_ROOT") = Ok(more)
  <2> HIDE DEF v
  <2>1. more \in Seq(RealNames(Alphabet("relative")))
    BY <1>1 DEF NamesOf
  <2> QED
    BY <1>3, <2>1, CleanReads, ZenonT(40)
<1> HIDE DEF v
<1>5. CleanCanonicalRelative(v) = Ok(MarkRelative(Joined(more)))
  <2> DEFINE r == Root("relative", <<>>, v)
  <2>1. SplitRoot(v) = Ok(r) /\ r.kind = "relative" /\ r.rest = v
    BY <1>3, Outcomes
  <2> HIDE DEF r
  <2>2. IsOk(SplitRoot(v)) /\ SplitRoot(v).value = r
    BY <2>1, Outcomes, Zenon
  <2>3. CleanComponents(r.rest, FALSE, "ERR_OUTSIDE_ROOT") = Ok(more)
    BY <1>4, <2>1, Zenon
  <2> QED
    BY <1>3, <2>1, <2>2, <2>3, Outcomes, ZenonT(40) DEF CleanCanonicalRelative, Unless, Then
<1>6. IsWindowsRoot(kind) => ~Has(v, "\\")
  <2>1. v \in Seq(S)
    <3>1. more \in Seq(RealNames(S)) /\ {".", "/"} \subseteq S
      BY Signs DEF NamesOf
    <3> HIDE DEF S
    <3>2. Joined(more) \in Seq(S) /\ Reads(Joined(more), more)
      BY <3>1, ReadsJoined
    <3>3. <<".", "/">> \o Joined(more) \in Seq(S) /\ <<".">> \in Seq(S)
      BY <3>1, <3>2, ReadsMarked
    <3> QED
      BY <1>2, <3>2, <3>3 DEF MarkRelative
  <2>2. IsWindowsRoot(kind) => "\\" \notin S
    BY DEF Alphabet
  <2> HIDE DEF S
  <2> QED
    BY <2>1, <2>2, HasMeans
<1>7. JoinPath(Whole(kind, prefix, ps), v) = Ok(Whole(kind, prefix, ps \o more))
  BY <1>5, <1>6, JoinNames
<1> QED
  BY <1>2, <1>7, Zenon

(***************************************************************************)
(* Component policies                                                      *)
(***************************************************************************)
\* What the policy asks of the names: no stream, no device.
Device(part) ==
  LET stem == IndexFrom(Mapped(part, LAMBDA x : IF x = ":" THEN "." ELSE x), 1, ".")
  IN Mapped(SubSeq(part, 1, stem - 1), Upper) \in DeviceNames

Allowed(rest, o) ==
  /\ o.rejectADS => ~Has(rest, ":")
  /\ o.rejectDeviceNames => \A part \in NamesIn(Split(rest)) : ~Device(part)

AllowedNames(kept, o) ==
  /\ o.rejectADS => \A i \in 1 .. Len(kept) : ~Has(kept[i], ":")
  /\ o.rejectDeviceNames => \A i \in 1 .. Len(kept) : ~Device(kept[i])

\* The component policies pass a text as it is, or fail with one of their codes.
LEMMA PolicyMeans ==
  ASSUME NEW S, NEW v, NEW kind, NEW prefix, NEW rest \in Seq(S), SplitRoot(v) = Ok(Root(kind, prefix, rest)),
         NEW o
  PROVE  /\ Allowed(rest, o) => ValidateWindowsPolicy(v, o) = Ok(v)
         /\ ~Allowed(rest, o) => ValidateWindowsPolicy(v, o).code \in PolicyErrors
<1> DEFINE r == Root(kind, prefix, rest)
           named == \E part \in NamesIn(Split(rest)) : Device(part)
           ads == IF o.rejectADS THEN HasWindowsADS(v) ELSE Ok(FALSE)
           device == IF o.rejectDeviceNames THEN HasReservedDeviceName(v) ELSE Ok(FALSE)
<1>1. IsOk(SplitRoot(v)) /\ SplitRoot(v).value = r /\ r.rest = rest
  BY Outcomes
<1>2. ToSet(Split(rest)) \ {<<>>, <<".">>, <<".", ".">>} = NamesIn(Split(rest))
  <2>1. Split(rest) \in PiecesOf(S)
    BY SplitType
  <2>2. DOMAIN Split(rest) = 1 .. Len(Split(rest))
    BY <2>1 DEF PiecesOf
  <2> QED
    BY <2>2, Zenon DEF ToSet, NamesIn, DotNames
<1> HIDE DEF r
<1>3. HasWindowsADS(v) = Ok(Has(rest, ":"))
  BY <1>1, Zenon DEF HasWindowsADS, Then
<1>4. HasReservedDeviceName(v) = Ok(named)
  <2> DEFINE parts == ToSet(Split(rest)) \ {<<>>, <<".">>, <<".", ".">>}
  <2>1. HasReservedDeviceName(v) = Ok(\E part \in parts : Device(part))
    BY <1>1, Zenon DEF HasReservedDeviceName, Then, Device
  <2> HIDE DEF parts
  <2>2. parts = NamesIn(Split(rest))
    BY <1>2 DEF parts
  <2> QED
    BY <2>1, <2>2, Zenon
<1>5. ValidateWindowsPolicy(v, o)
      = Then(ads, LAMBDA a :
          Unless(a, "ERR_ALTERNATE_DATA_STREAM",
            Then(device, LAMBDA d : Unless(d, "ERR_RESERVED_DEVICE_NAME", Ok(v)))))
  BY Zenon DEF ValidateWindowsPolicy
<1> HIDE DEF named
<1>6. IsOk(ads) /\ (ads.value <=> o.rejectADS /\ Has(rest, ":"))
  <2>1. CASE o.rejectADS
    BY <1>3, <2>1, Outcomes, ZenonT(40)
  <2>2. CASE ~o.rejectADS
    BY <2>2, Outcomes, Zenon
  <2> QED
    BY <2>1, <2>2
<1>7. IsOk(device) /\ (device.value <=> o.rejectDeviceNames /\ named)
  <2>1. CASE o.rejectDeviceNames
    BY <1>4, <2>1, Outcomes, ZenonT(40)
  <2>2. CASE ~o.rejectDeviceNames
    BY <2>2, Outcomes, Zenon
  <2> QED
    BY <2>1, <2>2
<1> HIDE DEF ads, device
<1>8. ASSUME o.rejectADS /\ Has(rest, ":") PROVE ValidateWindowsPolicy(v, o) = Err("ERR_ALTERNATE_DATA_STREAM")
  BY <1>5, <1>6, <1>8, Zenon DEF Then, Unless
<1>9. ASSUME ~(o.rejectADS /\ Has(rest, ":")), o.rejectDeviceNames /\ named
      PROVE  ValidateWindowsPolicy(v, o) = Err("ERR_RESERVED_DEVICE_NAME")
  BY <1>5, <1>6, <1>7, <1>9, Zenon DEF Then, Unless
<1>10. ASSUME ~(o.rejectADS /\ Has(rest, ":")), ~(o.rejectDeviceNames /\ named)
       PROVE  ValidateWindowsPolicy(v, o) = Ok(v)
  BY <1>5, <1>6, <1>7, <1>10, Zenon DEF Then, Unless
<1>11. Allowed(rest, o) <=> ~(o.rejectADS /\ Has(rest, ":")) /\ ~(o.rejectDeviceNames /\ named)
  BY Zenon DEF Allowed, named
<1>12. Err("ERR_ALTERNATE_DATA_STREAM").code \in PolicyErrors /\ Err("ERR_RESERVED_DEVICE_NAME").code \in PolicyErrors
  BY DEF Err, PolicyErrors
<1> QED
  BY <1>8, <1>9, <1>10, <1>11, <1>12, Zenon

\* A text that passes the policies is not changed.
LEMMA PolicyKeeps ==
  ASSUME NEW v, NEW o, IsOk(ValidateWindowsPolicy(v, o))
  PROVE  ValidateWindowsPolicy(v, o) = Ok(v)
<1> DEFINE ads == IF o.rejectADS THEN HasWindowsADS(v) ELSE Ok(FALSE)
           device == IF o.rejectDeviceNames THEN HasReservedDeviceName(v) ELSE Ok(FALSE)
<1>1. ValidateWindowsPolicy(v, o)
      = Then(ads, LAMBDA a :
          Unless(a, "ERR_ALTERNATE_DATA_STREAM",
            Then(device, LAMBDA d : Unless(d, "ERR_RESERVED_DEVICE_NAME", Ok(v)))))
  BY Zenon DEF ValidateWindowsPolicy
<1> HIDE DEF ads, device
<1>2. \/ ~IsOk(ads) /\ ValidateWindowsPolicy(v, o) = ads
      \/ ValidateWindowsPolicy(v, o) = Err("ERR_ALTERNATE_DATA_STREAM")
      \/ ~IsOk(device) /\ ValidateWindowsPolicy(v, o) = device
      \/ ValidateWindowsPolicy(v, o) = Err("ERR_RESERVED_DEVICE_NAME")
      \/ ValidateWindowsPolicy(v, o) = Ok(v)
  BY <1>1, Zenon DEF Then, Unless
<1> QED
  BY <1>2, Outcomes

\* What is not in a text is in no name of it.
LEMMA FewerSymbols ==
  ASSUME NEW S, NEW rest \in Seq(S), NEW x
  PROVE  ~Has(rest, x) => \A part \in NamesIn(Split(rest)) : ~Has(part, x)
<1> SUFFICES ASSUME ~Has(rest, x), NEW part \in NamesIn(Split(rest)) PROVE ~Has(part, x)
  OBVIOUS
<1>1. rest \in Seq(S \ {x})
  BY HasMeans
<1> DEFINE T == S \ {x}
<1> HIDE DEF T
<1>2. Split(rest) \in PiecesOf(T)
  BY <1>1, SplitType DEF T
<1>3. part \in PartsOf(T)
  BY <1>2 DEF PiecesOf, NamesIn
<1>4. part \in Seq(T) /\ x \notin T
  BY <1>3, PartsAreTexts DEF T
<1> QED
  BY <1>4, HasMeans

\* The names of an allowed text are allowed, and so is every text with these names.
LEMMA NamesOfAllowed ==
  ASSUME NEW S, NEW rest \in Seq(S), NEW o, Allowed(rest, o), NEW T, NEW kept \in Seq(T),
         \A i \in 1 .. Len(kept) : kept[i] \in NamesIn(Split(rest))
  PROVE  AllowedNames(kept, o)
BY FewerSymbols DEF Allowed, AllowedNames

\* Allowed names make an allowed text, marked or not.
LEMMA TextAllowed ==
  ASSUME NEW kind, NEW prefix, RootAt(kind, prefix), NEW kept \in Seq(NamesOf(kind)), NEW o, AllowedNames(kept, o)
  PROVE  /\ Allowed(RestOf(kind, prefix, kept), o)
         /\ kind = "relative" => Allowed(<<".", "/">> \o Whole(kind, prefix, kept), o)
<1> DEFINE S == Alphabet(kind)
           w == Whole("relative", <<>>, kept)
           j == Joined(kept)
<1>0. {"/", "."} \subseteq S
  BY Signs
<1>1. kept \in Seq(RealNames(S))
  BY DEF NamesOf
<1> HIDE DEF S
<1>2. Reads(j, kept) /\ j \in Seq(S)
  BY <1>0, <1>1, ReadsJoined
<1>3. ASSUME NEW rest, Reads(rest, kept), o.rejectADS => ~Has(rest, ":")
      PROVE  Allowed(rest, o)
  <2>1. NamesIn(Split(rest)) = {kept[i] : i \in 1 .. Len(kept)}
    BY <1>1, <1>3, ReadsNames
  <2> QED
    BY <1>3, <2>1 DEF Allowed, AllowedNames
<1>4. ASSUME o.rejectADS PROVE j \in Seq(S \ {":"})
  <2>1. kept \in Seq(RealNames(S \ {":"}))
    <3>1. ASSUME NEW i \in 1 .. Len(kept) PROVE kept[i] \in RealNames(S \ {":"})
      <4>1. kept[i] \in RealNames(S) /\ ~Has(kept[i], ":")
        BY <1>1, <1>4, <3>1 DEF AllowedNames
      <4>2. kept[i] \in Seq(S \ {"/"}) /\ kept[i] \notin DotNames
        BY <4>1 DEF RealNames, PartsOf
      <4>3. kept[i] \in Seq((S \ {"/"}) \ {":"})
        BY <4>1, <4>2, HasMeans
      <4>4. (S \ {"/"}) \ {":"} = (S \ {":"}) \ {"/"}
        OBVIOUS
      <4>5. kept[i] \in Seq((S \ {":"}) \ {"/"})
        BY <4>3, <4>4, Zenon
      <4> QED
        BY <4>2, <4>5 DEF RealNames, PartsOf
    <3>2. Len(kept) \in Nat /\ kept = [i \in 1 .. Len(kept) |-> kept[i]]
      BY <1>1
    <3> DEFINE R == RealNames(S \ {":"})
    <3>3. \A i \in 1 .. Len(kept) : kept[i] \in R
      BY <3>1
    <3> HIDE DEF R
    <3>4. [i \in 1 .. Len(kept) |-> kept[i]] \in Seq(R)
      BY <3>2, <3>3
    <3>5. kept \in Seq(R)
      BY <3>2, <3>4
    <3> QED
      BY <3>5 DEF R
  <2>2. "/" \in S \ {":"}
    BY <1>0
  <2> DEFINE T == S \ {":"}
  <2> HIDE DEF T
  <2>3. Joined(kept) \in Seq(T)
    BY <2>1, <2>2, ReadsJoined DEF T
  <2> QED
    BY <2>3 DEF T
<1> HIDE DEF j
<1>5. Allowed(j, o)
  <2>1. o.rejectADS => ~Has(j, ":")
    BY <1>4, HasMeans
  <2> QED
    BY <1>2, <1>3, <2>1
<1>6. ASSUME kind = "relative" PROVE Allowed(w, o) /\ Allowed(<<".", "/">> \o w, o)
  <2>1. w \in Seq(S) /\ Reads(w, kept)
    BY <1>6, RelativeShape DEF S
  <2>2. Reads(<<".", "/">> \o w, kept)
    BY <1>0, <1>1, <2>1, ReadsMarked
  <2> DEFINE T == S \ {":"}
             p == <<".", "/">>
  <2>3. {"/", "."} \subseteq T /\ p \in Seq(T) /\ <<".">> \in Seq(T) /\ ":" \notin T
    BY <1>0
  <2>4. ASSUME o.rejectADS PROVE w \in Seq(T) /\ p \o w \in Seq(T)
    <3>1. j \in Seq(T)
      BY <1>4, <2>4
    <3> HIDE DEF T, p
    <3>2. w = <<".">> \/ w = p \o j \/ w = j
      BY DEF Whole, MarkRelative, p, j
    <3>3. p \o j \in Seq(T)
      BY <2>3, <3>1, ConcatProperties
    <3> HIDE DEF w
    <3>4. w \in Seq(T)
      BY <2>3, <3>1, <3>2, <3>3
    <3> QED
      BY <2>3, <3>4, ConcatProperties
  <2> HIDE DEF T, w
  <2>5. o.rejectADS => ~Has(w, ":") /\ ~Has(p \o w, ":")
    BY <2>3, <2>4, HasMeans
  <2> QED
    BY <1>3, <2>1, <2>2, <2>5
<1>7. kind = "relative" => prefix = <<>>
  BY DEF RootAt
<1> QED
  BY <1>5, <1>6, <1>7 DEF RestOf, j, w

(***************************************************************************)
(* Native POSIX text                                                       *)
(***************************************************************************)
\* AfterSlashes cuts the leading slashes and no more.
LEMMA AfterSlashesMeans ==
  ASSUME NEW S, NEW s \in Seq(S)
  PROVE  \E k \in 1 .. Len(s) + 1 :
           /\ AfterSlashes(s) = From(s, k) /\ (k = Len(s) + 1 \/ s[k] # "/")
           /\ \A i \in 1 .. k - 1 : s[i] = "/"
<1> DEFINE P(k) == (k = Len(s) + 1 \/ s[k] # "/") /\ \A i \in 1 .. k - 1 : s[i] = "/"
           B == {k \in 1 .. Len(s) + 1 : k = Len(s) + 1 \/ s[k] # "/"}
           c == CHOOSE k \in 1 .. Len(s) + 1 : P(k)
<1>1. Len(s) \in Nat
  OBVIOUS
<1>2. B \subseteq Nat /\ Len(s) + 1 \in B
  BY <1>1
<1> HIDE DEF B
<1>3. PICK k \in B : \A m \in B : k <= m
  BY <1>2, LeastNatural
<1>4. k \in 1 .. Len(s) + 1 /\ P(k)
  <2>1. k \in 1 .. Len(s) + 1 /\ (k = Len(s) + 1 \/ s[k] # "/")
    BY <1>3 DEF B
  <2>2. ASSUME NEW i \in 1 .. k - 1, s[i] # "/" PROVE FALSE
    <3>1. i \in B /\ i < k /\ i \in Nat /\ k \in Nat
      BY <1>1, <2>1, <2>2 DEF B
    <3> QED
      BY <1>3, <3>1
  <2> QED
    BY <2>1, <2>2
<1> HIDE DEF P
<1>5. c \in 1 .. Len(s) + 1 /\ P(c)
  BY <1>4, Zenon
<1>6. AfterSlashes(s) = From(s, c)
  BY Zenon DEF AfterSlashes, P
<1> QED
  BY <1>5, <1>6 DEF P

\* What AfterSlashes returns does not start with a slash.
LEMMA AfterSlashesShape ==
  ASSUME NEW S, NEW s \in Seq(S)
  PROVE  LET t == AfterSlashes(s) IN t \in Seq(S) /\ (t # <<>> => t[1] # "/")
<1>1. PICK k \in 1 .. Len(s) + 1 :
           /\ AfterSlashes(s) = From(s, k) /\ (k = Len(s) + 1 \/ s[k] # "/")
           /\ \A i \in 1 .. k - 1 : s[i] = "/"
  BY AfterSlashesMeans
<1> DEFINE t == From(s, k)
<1>2. Len(s) \in Nat /\ k \in Nat \ {0}
  OBVIOUS
<1>3. t \in Seq(S) /\ Len(t) = (IF k <= Len(s) THEN Len(s) - k + 1 ELSE 0)
      /\ \A j \in 1 .. Len(s) - k + 1 : t[j] = s[k + j - 1]
  BY <1>2, FromType
<1> HIDE DEF t
<1>4. ASSUME t # <<>> PROVE t[1] # "/"
  <2>1. Len(t) # 0
    BY <1>3, <1>4, EmptySeq
  <2>2. k <= Len(s) /\ 1 \in 1 .. Len(s) - k + 1 /\ k + 1 - 1 = k /\ k # Len(s) + 1
    BY <1>2, <1>3, <2>1
  <2>3. t[1] = s[k]
    BY <1>3, <2>2
  <2> QED
    BY <1>1, <2>2, <2>3
<1> QED
  BY <1>1, <1>3, <1>4 DEF t

\* A text with one leading slash is its own native POSIX representation.
LEMMA OneSlash ==
  ASSUME NEW S, "/" \in S, NEW j \in Seq(S), j # <<>> => j[1] # "/"
  PROVE  NativePOSIXRepresentation(<<"/">> \o j) = Ok(<<"/">> \o j)
<1> DEFINE p == <<"/">>
           s == p \o j
<1>1. p \in Seq(S) /\ Len(p) = 1 /\ p[1] = "/" /\ 1 \in 1 .. Len(p)
  OBVIOUS
<1> HIDE DEF p
<1>2. /\ p \o j \in Seq(S) /\ Len(p \o j) = Len(p) + Len(j) /\ Len(j) \in Nat
      /\ \A i \in 1 .. Len(p) : (p \o j)[i] = p[i]
      /\ \A i \in 1 .. Len(j) : (p \o j)[Len(p) + i] = j[i]
  <2>1. p \in Seq(S)
    BY <1>1
  <2> HIDE DEF s
  <2>2. p \o j \in Seq(S) /\ Len(p \o j) = Len(p) + Len(j) /\ Len(j) \in Nat
    BY <2>1, ConcatAt
  <2>3. \A i \in 1 .. Len(p) : (p \o j)[i] = p[i]
    BY <2>1, ConcatAt
  <2>4. \A i \in 1 .. Len(j) : (p \o j)[Len(p) + i] = j[i]
    BY <2>1, ConcatAt
  <2> QED
    BY <2>2, <2>3, <2>4
<1>3. From(p \o j, Len(p) + 1) = j /\ StartsWith(p \o j, p)
  BY <1>1, StartsWithConcat
<1>4. /\ s \in Seq(S) /\ Len(s) = 1 + Len(j) /\ Len(j) \in Nat /\ s[1] = "/"
      /\ \A i \in 1 .. Len(j) : s[1 + i] = j[i]
  BY <1>1, <1>2
<1>5. From(s, 2) = j /\ StartsWith(s, p)
  BY <1>1, <1>3
<1> HIDE DEF s
<1>6. Len(j) >= 1 => s[2] # "/"
  <2> SUFFICES ASSUME Len(j) >= 1 PROVE s[2] # "/"
    OBVIOUS
  <2>1. 1 \in 1 .. Len(j) /\ j # <<>>
    BY <1>4
  <2>2. s[1 + 1] = j[1]
    BY <1>4, <2>1
  <2> QED
    BY <2>1, <2>2
<1>7. AfterSlashes(s) = j
  <2>1. PICK k \in 1 .. Len(s) + 1 :
           /\ AfterSlashes(s) = From(s, k) /\ (k = Len(s) + 1 \/ s[k] # "/")
           /\ \A i \in 1 .. k - 1 : s[i] = "/"
    BY <1>4, AfterSlashesMeans
  <2>2. k # 1
    BY <1>4, <2>1
  <2>3. ASSUME k > 2 PROVE FALSE
    <3>1. 2 \in 1 .. k - 1
      BY <2>3
    <3>2. s[2] = "/"
      BY <2>1, <3>1
    <3>3. Len(j) >= 1
      BY <1>4, <2>3
    <3> QED
      BY <1>6, <3>2, <3>3
  <2>4. k = 2
    BY <1>4, <2>2, <2>3
  <2> QED
    BY <1>5, <2>1, <2>4
<1>8. ~StartsWith(s, <<"/", "/">>)
  <2> DEFINE q == <<"/", "/">>
  <2>1. q \in Seq(S) /\ Len(q) = 2 /\ q[2] = "/"
    OBVIOUS
  <2> HIDE DEF q
  <2>2. ASSUME StartsWith(s, q) PROVE FALSE
    <3>1. Len(q) <= Len(s) /\ \A i \in 1 .. Len(q) : s[i] = q[i]
      <4>1. s \in Seq(S) /\ q \in Seq(S)
        BY <1>4, <2>1
      <4> QED
        BY <4>1, <2>2, StartsWithMeans, Zenon
    <3>2. s[2] = "/" /\ Len(j) >= 1
      BY <1>4, <2>1, <3>1
    <3> QED
      BY <1>6, <3>2
  <2> QED
    BY <2>2 DEF q
<1>9. NativePOSIXRepresentation(s) = Ok(p \o j)
  BY <1>5, <1>7, <1>8, Zenon DEF NativePOSIXRepresentation, Unless, p
<1> QED
  BY <1>9, Zenon DEF s, p

\* A POSIX identity is its own native representation.
LEMMA NativeOfPosix ==
  ASSUME NEW kept \in Seq(NamesOf("posix"))
  PROVE  LET w == Whole("posix", <<"/">>, kept)
         IN /\ NativePOSIXRepresentation(w) = Ok(w) /\ w = <<"/">> \o Joined(kept)
            /\ Joined(kept) \in Seq(Alphabet("posix")) /\ (Joined(kept) # <<>> => Joined(kept)[1] # "/")
<1> DEFINE S == Alphabet("posix")
           w == Whole("posix", <<"/">>, kept)
           j == Joined(kept)
<1>0. {"/", "."} \subseteq S
  BY Signs
<1>1. kept \in Seq(RealNames(S))
  BY DEF NamesOf
<1> HIDE DEF S
<1>2. j \in Seq(S) /\ (kept = <<>> => j = <<>>) /\ (kept # <<>> => j[1] # "/")
  BY <1>0, <1>1, ReadsJoined, JoinedStarts, JoinedOfNothing
<1> HIDE DEF j
<1>3. w = <<"/">> \o j
  <2>1. <<"/">> \in Seq(S)
    BY <1>0
  <2> DEFINE p == <<"/">>
  <2> HIDE DEF p
  <2>2. p \o <<>> = p
    BY <2>1, ConcatEmptySeq DEF p
  <2>3. Whole("posix", p, kept) = p \o j
    <3>1. CASE kept = <<>>
      BY <1>2, <2>2, <3>1, Zenon DEF Whole
    <3>2. CASE kept # <<>>
      <4>1. Whole("posix", p, kept) = p \o <<>> \o j
        <5>1. "posix" \notin Uncs /\ "posix" # "relative"
          BY DEF Uncs
        <5> QED
          BY <3>2, <5>1, Zenon DEF Whole, j
      <4> QED
        BY <2>2, <4>1, Zenon
    <3> QED
      BY <3>1, <3>2
  <2> QED
    BY <2>3 DEF p
<1>4. NativePOSIXRepresentation(<<"/">> \o j) = Ok(<<"/">> \o j)
  <2>1. j # <<>> => j[1] # "/"
    BY <1>2
  <2> QED
    BY <1>0, <1>2, <2>1, OneSlash
<1> HIDE DEF w
<1>5. j # <<>> => j[1] # "/"
  BY <1>2
<1> QED
  BY <1>2, <1>3, <1>4, <1>5, Zenon DEF w, j, S

\* splitRoot returns what it parses, or an error.
LEMMA SplitIsParsed ==
  ASSUME NEW v, NEW r, IsOk(SplitRoot(v)), ParsedRoot(v) = Ok(r)
  PROVE  SplitRoot(v) = Ok(r)
<1>1. IsOk(Ok(r)) /\ Ok(r).value = r
  BY Outcomes
<1>2. SplitRoot(v) = Err("ERR_NUL_BYTE") \/ SplitRoot(v) = Err("ERR_INVALID_PATH") \/ SplitRoot(v) = Ok(r)
  BY <1>1, Zenon DEF SplitRoot, Unless, Then
<1> QED
  BY <1>2, Outcomes

\* A text that does not start with a slash.
LEMMA StartSlash ==
  ASSUME NEW S, "/" \in S, NEW v \in Seq(S), v # <<>> => v[1] # "/"
  PROVE  ~StartsWith(v, <<"/">>) /\ ~StartsWith(v, <<"/", "/">>)
<1> DEFINE p == <<"/">>
           q == <<"/", "/">>
<1>1. p \in Seq(S) /\ q \in Seq(S) /\ p # <<>> /\ q # <<>> /\ p[1] = "/" /\ q[1] = "/"
  OBVIOUS
<1> HIDE DEF p, q
<1>2. \A m \in Seq(S) : m # <<>> /\ m[1] = "/" => ~StartsWith(v, m)
  <2> SUFFICES ASSUME NEW m \in Seq(S), m # <<>>, m[1] = "/", StartsWith(v, m) PROVE FALSE
    OBVIOUS
  <2>1. Len(m) <= Len(v) /\ \A i \in 1 .. Len(m) : v[i] = m[i]
    BY StartsWithMeans
  <2>2. 1 \in 1 .. Len(m) /\ Len(v) # 0
    BY <2>1
  <2>3. v # <<>> /\ v[1] = "/"
    BY <2>1, <2>2
  <2> QED
    BY <2>3
<1> QED
  BY <1>1, <1>2 DEF p, q

\* A marked text is relative.
LEMMA DotSlash ==
  ASSUME NEW S, {"/", "?", "."} \subseteq S, NEW v \in Seq(S)
  PROVE  LET u == <<".", "/">> \o v
         IN u \in Seq(S) /\ u # <<>> /\ ParsedRoot(u) = Ok(Root("relative", <<>>, u))
<1> DEFINE p == <<".", "/">>
           u == p \o v
<1>1. p \in Seq(S) /\ Len(p) = 2 /\ p[1] = "." /\ p[2] = "/"
  OBVIOUS
<1> HIDE DEF p
<1>2. p \in Seq(S) /\ v \in Seq(S)
  BY <1>1
<1>3. p \o v \in Seq(S) /\ Len(p \o v) = Len(p) + Len(v) /\ Len(v) \in Nat
  BY <1>2, ConcatAt
<1>4. \A i \in 1 .. Len(p) : (p \o v)[i] = p[i]
  BY <1>2, ConcatAt
<1>5. u \in Seq(S) /\ Len(u) >= 2 /\ u[1] = "." /\ u[2] = "/"
  BY <1>1, <1>3, <1>4
<1> HIDE DEF u
<1>6. u # <<>> /\ u[1] # "/" /\ ~NeedsRelativeMarker(u)
  BY <1>5, DriveRootMeans
<1>7. ParsedRoot(u) = Ok(Root("relative", <<>>, u))
  <2>1. {"/", "?"} \subseteq S
    OBVIOUS
  <2> QED
    BY <1>5, <1>6, <2>1, ParsedRelative
<1> QED
  BY <1>5, <1>6, <1>7, Zenon DEF u, p

\* A relative identity is marked in native mode, and denotes the same names.
LEMMA NativeOfRelative ==
  ASSUME NEW kept \in Seq(NamesOf("relative"))
  PROVE  LET w == Whole("relative", <<>>, kept)
             u == <<".", "/">> \o w
         IN /\ NativePOSIXRepresentation(w) = Ok(u) /\ Denotes(u, "relative", <<>>, kept)
            /\ SplitRoot(u) = Ok(Root("relative", <<>>, u)) /\ u \in Seq(Alphabet("relative"))
<1> DEFINE S == Alphabet("relative")
           w == Whole("relative", <<>>, kept)
           u == <<".", "/">> \o w
<1>0. {"/", ".", "?"} \subseteq S
  BY Signs
<1>1. kept \in Seq(RealNames(S))
  BY DEF NamesOf
<1>2. w \in Seq(S) /\ w # <<>> /\ w[1] # "/" /\ Reads(w, kept)
  BY RelativeShape
<1> HIDE DEF S, w
<1>3. ~StartsWith(w, <<"/">>) /\ ~StartsWith(w, <<"/", "/">>)
  BY <1>0, <1>2, StartSlash
<1>4. NativePOSIXRepresentation(w) = Ok(u)
  BY <1>3, Zenon DEF NativePOSIXRepresentation, Unless
<1>5. u \in Seq(S) /\ u # <<>> /\ ParsedRoot(u) = Ok(Root("relative", <<>>, u))
  BY <1>0, <1>2, DotSlash
<1>6. Reads(u, kept)
  BY <1>0, <1>1, <1>2, ReadsMarked
<1> HIDE DEF u
<1>7. Denotes(u, "relative", <<>>, kept)
  BY <1>5, <1>6 DEF Denotes, RootAt, S
<1>8. SplitRoot(u) = Ok(Root("relative", <<>>, u))
  <2>1. PICK x \in Seq(Alphabet("relative")) :
           /\ SplitRoot(u) = Ok(Root("relative", <<>>, x)) /\ Reads(x, kept)
           /\ x = IF "relative" = "relative" THEN u ELSE Joined(kept)
    BY <1>7, DenotesRoot
  <2> QED
    BY <2>1
<1> QED
  BY <1>4, <1>5, <1>7, <1>8, Zenon DEF u, w, S

\* Native POSIX texts are POSIX or relative.
LEMMA NativeGives ==
  ASSUME NEW v \in Seq(Symbols), v # <<>>, IsOk(NativePOSIXRepresentation(v))
  PROVE  LET u == NativePOSIXRepresentation(v).value
         IN /\ NativePOSIXRepresentation(v) = Ok(u) /\ u \in Seq(Symbols) /\ u # <<>>
            /\ \E kind \in {"posix", "relative"} : \E prefix, rest : ParsedRoot(u) = Ok(Root(kind, prefix, rest))
            /\ StartsWith(v, <<"/">>) => \E rest : ParsedRoot(u) = Ok(Root("posix", <<"/">>, rest))
<1>0. {"/", "?", "."} \subseteq Symbols
  BY Signs
<1>1. NativePOSIXRepresentation(v)
      = Ok(IF StartsWith(v, <<"/">>) THEN <<"/">> \o AfterSlashes(v) ELSE <<".", "/">> \o v)
  <2>1. NativePOSIXRepresentation(v) = Err("ERR_INVALID_PATH") \/
        NativePOSIXRepresentation(v)
          = Ok(IF StartsWith(v, <<"/">>) THEN <<"/">> \o AfterSlashes(v) ELSE <<".", "/">> \o v)
    BY Zenon DEF NativePOSIXRepresentation, Unless
  <2> QED
    BY <2>1, Outcomes
<1>2. CASE StartsWith(v, <<"/">>)
  <2> DEFINE t == AfterSlashes(v)
             u == <<"/">> \o t
  <2>1. t \in Seq(Symbols) /\ (t # <<>> => t[1] # "/")
    BY AfterSlashesShape
  <2> HIDE DEF t
  <2>2. ParsedRoot(u) = Ok(Root("posix", <<"/">>, t))
    <3>1. {"/", "?"} \subseteq Symbols
      BY <1>0
    <3> QED
      BY <2>1, <3>1, ParsedPosix
  <2>3. u \in Seq(Symbols) /\ u # <<>>
    <3>1. <<"/">> \in Seq(Symbols) /\ <<"/">> # <<>>
      BY <1>0
    <3> QED
      BY <2>1, <3>1, ConcatProperties, ConcatEqualIffEmpty
  <2>4. NativePOSIXRepresentation(v) = Ok(u)
    BY <1>1, <1>2, Zenon DEF t
  <2> HIDE DEF u
  <2>5. NativePOSIXRepresentation(v).value = u
    BY <2>4, Outcomes
  <2> QED
    BY <2>2, <2>3, <2>4, <2>5, Zenon
<1>3. CASE ~StartsWith(v, <<"/">>)
  <2> DEFINE u == <<".", "/">> \o v
  <2>1. u \in Seq(Symbols) /\ u # <<>> /\ ParsedRoot(u) = Ok(Root("relative", <<>>, u))
    BY <1>0, DotSlash
  <2>2. NativePOSIXRepresentation(v) = Ok(u)
    BY <1>1, <1>3, Zenon
  <2> HIDE DEF u
  <2>3. NativePOSIXRepresentation(v).value = u
    BY <2>2, Outcomes
  <2> QED
    BY <1>3, <2>1, <2>2, <2>3, Zenon
<1> QED
  BY <1>2, <1>3

\* Whatever normalizeMountRoot returns is a POSIX identity.
LEMMA MountGives ==
  ASSUME NEW mount \in Seq(Symbols), IsOk(NormalizeMountRoot(mount))
  PROVE  \E kept \in Seq(NamesOf("posix")) : NormalizeMountRoot(mount) = Ok(Whole("posix", <<"/">>, kept))
<1> DEFINE S == Alphabet("posix")
<1>1. CASE mount = <<>>
  <2> DEFINE p == <<"mnt">>
             kept == <<p>>
  <2>1. "mnt" \in S /\ "/" \in S
    <3>1. "mnt" \in Symbols /\ "mnt" # NUL /\ "mnt" # "\\"
      BY DEF Symbols, Written, NUL
    <3> QED
      BY <3>1, Signs DEF Alphabet
  <2> HIDE DEF S
  <2>2. p \in RealNames(S)
    BY <2>1 DEF RealNames, PartsOf, DotNames
  <2>3. kept \in Seq(NamesOf("posix")) /\ kept # <<>>
    <3> HIDE DEF p
    <3> QED
      BY <2>2 DEF NamesOf, S
  <2>4. Joined(kept) = p
    <3>1. p \in PartsOf(S)
      BY <2>2 DEF RealNames
    <3> HIDE DEF p
    <3> QED
      BY <2>1, <3>1, JoinedOfOne
  <2>5. Whole("posix", <<"/">>, kept) = <<"/">> \o Joined(kept)
    <3> HIDE DEF kept
    <3> QED
      BY <2>3, NativeOfPosix
  <2>6. <<"/">> \o p = <<"/", "mnt">>
    <3>1. "/" \in {"/", "mnt"} /\ "mnt" \in {"/", "mnt"}
      OBVIOUS
    <3> QED
      BY <3>1, Pair
  <2>7. NormalizeMountRoot(mount) = Ok(<<"/", "mnt">>)
    BY <1>1, Zenon DEF NormalizeMountRoot
  <2> HIDE DEF p, kept
  <2> QED
    BY <2>3, <2>4, <2>5, <2>6, <2>7, Zenon
<1>2. CASE mount # <<>>
  <2> DEFINE n == NativePOSIXRepresentation(mount)
             u == n.value
  <2>1. NormalizeMountRoot(mount) = IF Has(mount, NUL) THEN Err("ERR_NUL_BYTE")
          ELSE IF ~StartsWith(mount, <<"/">>) THEN Err("ERR_INVALID_PATH")
          ELSE IF IsOk(n) THEN CleanCanonical(n.value) ELSE n
    BY <1>2, Zenon DEF NormalizeMountRoot, Unless, Then
  <2>2. StartsWith(mount, <<"/">>) /\ IsOk(n) /\ NormalizeMountRoot(mount) = CleanCanonical(u)
    <3> HIDE DEF n
    <3> QED
      BY <2>1, Outcomes
  <2>3. u \in Seq(Symbols) /\ \E rest : ParsedRoot(u) = Ok(Root("posix", <<"/">>, rest))
    BY <1>2, <2>2, NativeGives
  <2> HIDE DEF u
  <2>4. IsOk(CleanCanonical(u))
    BY <2>2
  <2>5. PICK kind, prefix : \E rest \in Seq(Alphabet(kind)), kept \in Seq(NamesOf(kind)) :
           /\ SplitRoot(u) = Ok(Root(kind, prefix, rest)) /\ RootAt(kind, prefix)
           /\ kind = "relative" => rest = u
           /\ CleanCanonical(u) = Ok(Whole(kind, prefix, kept))
           /\ \A i \in 1 .. Len(kept) : kept[i] \in NamesIn(Split(rest))
    BY <2>3, <2>4, CleanGives
  <2>6. PICK x : ParsedRoot(u) = Ok(Root("posix", <<"/">>, x))
    BY <2>3
  <2>7. kind = "posix" /\ prefix = <<"/">>
    <3>1. PICK rest : SplitRoot(u) = Ok(Root(kind, prefix, rest))
      BY <2>5
    <3>2. IsOk(SplitRoot(u))
      BY <3>1, Outcomes
    <3>3. SplitRoot(u) = Ok(Root("posix", <<"/">>, x))
      BY <2>6, <3>2, SplitIsParsed
    <3>4. Ok(Root(kind, prefix, rest)) = Ok(Root("posix", <<"/">>, x))
      BY <3>1, <3>3, Zenon
    <3> QED
      BY <3>4 DEF Ok, Root
  <2> QED
    BY <2>2, <2>5, <2>7
<1> QED
  BY <1>1, <1>2

(***************************************************************************)
(* Parts of a text                                                         *)
(***************************************************************************)
\* What SubSeq returns.
LEMMA PartType ==
  ASSUME NEW S, NEW s \in Seq(S), NEW m \in Nat \ {0}, NEW n \in Nat, n <= Len(s)
  PROVE  /\ SubSeq(s, m, n) \in Seq(S)
         /\ Len(SubSeq(s, m, n)) = IF m <= n THEN n - m + 1 ELSE 0
         /\ \A i \in 1 .. n - m + 1 : SubSeq(s, m, n)[i] = s[m + i - 1]
<1>1. \A j \in m .. n : s[j] \in S
  OBVIOUS
<1>2. m \in Int /\ n \in Int
  OBVIOUS
<1> QED
  BY <1>1, <1>2, SubSeqProperties

\* What IndexFrom returns: the first place, or the end.
LEMMA IndexMeans ==
  ASSUME NEW S, NEW s \in Seq(S), NEW i \in 1 .. Len(s) + 1, NEW x
  PROVE  LET k == IndexFrom(s, i, x)
         IN /\ k \in i .. Len(s) + 1 /\ (k = Len(s) + 1 \/ s[k] = x)
            /\ \A j \in i .. k - 1 : s[j] # x
<1> DEFINE P(k) == (k = Len(s) + 1 \/ s[k] = x) /\ \A j \in i .. k - 1 : s[j] # x
           B == {k \in i .. Len(s) + 1 : k = Len(s) + 1 \/ s[k] = x}
           c == CHOOSE k \in i .. (Len(s) + 1) : P(k)
<1>1. Len(s) \in Nat /\ i \in Nat
  OBVIOUS
<1>2. B \subseteq Nat /\ Len(s) + 1 \in B
  BY <1>1
<1> HIDE DEF B
<1>3. PICK k \in B : \A m \in B : k <= m
  BY <1>2, LeastNatural
<1>4. k \in i .. Len(s) + 1 /\ P(k)
  <2>1. k \in i .. Len(s) + 1 /\ (k = Len(s) + 1 \/ s[k] = x)
    BY <1>3 DEF B
  <2>2. ASSUME NEW j \in i .. k - 1, s[j] = x PROVE FALSE
    <3>1. j \in B /\ j < k /\ j \in Nat /\ k \in Nat
      BY <1>1, <2>1, <2>2 DEF B
    <3> QED
      BY <1>3, <3>1
  <2> QED
    BY <2>1, <2>2
<1> HIDE DEF P
<1>5. c \in i .. Len(s) + 1 /\ P(c)
  BY <1>4, Zenon
<1>6. IndexFrom(s, i, x) = c
  BY Zenon DEF IndexFrom, P
<1> QED
  BY <1>5, <1>6, Zenon DEF P

\* Each symbol changed by itself.
LEMMA MappedTypes ==
  ASSUME NEW s \in Seq(Symbols)
  PROVE  /\ Slashed(s) \in Seq(Symbols) /\ Len(Slashed(s)) = Len(s)
         /\ Mapped(s, Unescaped) \in Seq(Symbols) /\ Len(Mapped(s, Unescaped)) = Len(s)
<1>1. \A x \in Symbols : Unescaped(x) \in Symbols
  BY DEF Unescaped, Symbols, Written, Letters, NUL
<1>2. "/" \in Symbols
  BY DEF Symbols, Written
<1>3. Len(s) \in Nat /\ DOMAIN s = 1 .. Len(s) /\ \A i \in 1 .. Len(s) : s[i] \in Symbols
  OBVIOUS
<1> DEFINE f == [i \in 1 .. Len(s) |-> Unescaped(s[i])]
           g == [i \in 1 .. Len(s) |-> IF s[i] = "\\" THEN "/" ELSE s[i]]
<1> HIDE DEF f, g
<1>4. f \in Seq(Symbols) /\ Len(f) = Len(s)
  <2>1. \A i \in 1 .. Len(s) : Unescaped(s[i]) \in Symbols
    BY <1>1, <1>3
  <2> DEFINE T == Symbols
  <2> HIDE DEF T
  <2>2. \A i \in 1 .. Len(s) : Unescaped(s[i]) \in T
    BY <2>1 DEF T
  <2>3. f \in Seq(T) /\ Len(f) = Len(s)
    BY <1>3, <2>2 DEF f
  <2> QED
    BY <2>3 DEF T
<1>5. g \in Seq(Symbols) /\ Len(g) = Len(s)
  <2>1. \A i \in 1 .. Len(s) : (IF s[i] = "\\" THEN "/" ELSE s[i]) \in Symbols
    BY <1>2, <1>3
  <2> DEFINE T == Symbols
  <2> HIDE DEF T
  <2>2. \A i \in 1 .. Len(s) : (IF s[i] = "\\" THEN "/" ELSE s[i]) \in T
    BY <2>1 DEF T
  <2>3. g \in Seq(T) /\ Len(g) = Len(s)
    BY <1>3, <2>2 DEF g
  <2> QED
    BY <2>3 DEF T
<1>6. Mapped(s, Unescaped) = f
  BY <1>3, Zenon DEF Mapped, f
<1>7. Slashed(s) = g
  BY <1>3, Zenon DEF Slashed, Mapped, g
<1> QED
  BY <1>4, <1>5, <1>6, <1>7, Zenon

\* Trimmed text is text.
LEMMA TrimmedType ==
  ASSUME NEW S, NEW s \in Seq(S), NEW set, NEW start \in BOOLEAN
  PROVE  Trimmed(s, set, start) \in Seq(S)
<1> DEFINE kept == {i \in DOMAIN s : s[i] \notin set}
           low == CHOOSE i \in kept : \A j \in kept : i <= j
           high == CHOOSE i \in kept : \A j \in kept : j <= i
<1>1. Len(s) \in Nat /\ kept \subseteq 1 .. Len(s)
  OBVIOUS
<1>2. Trimmed(s, set, start) = IF kept = {} THEN <<>> ELSE SubSeq(s, IF start THEN low ELSE 1, high)
  BY Zenon DEF Trimmed
<1> HIDE DEF kept
<1>3. CASE kept = {}
  BY <1>2, <1>3
<1>4. CASE kept # {}
  <2>1. PICK i \in kept : \A j \in kept : i <= j
    <3>1. kept \subseteq Nat
      BY <1>1
    <3> QED
      BY <1>4, <3>1, LeastNatural
  <2>2. PICK h \in kept : \A j \in kept : j <= h
    <3> DEFINE B == {Len(s) - j : j \in kept}
    <3>1. B \subseteq Nat /\ B # {}
      BY <1>1, <1>4
    <3> HIDE DEF B
    <3>2. PICK b \in B : \A m \in B : b <= m
      BY <3>1, LeastNatural
    <3>3. PICK h \in kept : b = Len(s) - h
      BY <3>2 DEF B
    <3>4. ASSUME NEW j \in kept PROVE j <= h
      <4>1. Len(s) - j \in B
        BY DEF B
      <4>2. Len(s) - h <= Len(s) - j
        BY <3>2, <3>3, <4>1
      <4> QED
        BY <1>1, <4>2
    <3> QED
      BY <3>4
  <2>3. low \in kept
    BY <2>1, Zenon
  <2>4. high \in kept
    BY <2>2, Zenon
  <2> HIDE DEF low, high
  <2>5. low \in Nat \ {0} /\ high \in Nat /\ high <= Len(s)
    BY <1>1, <2>3, <2>4
  <2>6. SubSeq(s, low, high) \in Seq(S) /\ SubSeq(s, 1, high) \in Seq(S)
    <3>1. 1 \in Nat \ {0}
      OBVIOUS
    <3> QED
      BY <2>5, <3>1, PartType
  <2>7. CASE start
    BY <1>2, <1>4, <2>6, <2>7, Zenon
  <2>8. CASE ~start
    BY <1>2, <1>4, <2>6, <2>8, Zenon
  <2> QED
    BY <2>7, <2>8
<1> QED
  BY <1>3, <1>4

(***************************************************************************)
(* Every reading of a host text is text                                    *)
(***************************************************************************)
\* A result whose value, when there is one, is a text.
Textual(r) == IsOk(r) => r.value \in Seq(Symbols)

\* Results that are texts.
LEMMA TextualCases ==
  /\ \A x \in Seq(Symbols) : Textual(Ok(x))
  /\ \A r : ~IsOk(r) => Textual(r)
  /\ \A f, c, r : Textual(r) => Textual(Unless(f, c, r))
<1>1. \A x \in Seq(Symbols) : Textual(Ok(x))
  BY Outcomes DEF Textual
<1>2. \A r : ~IsOk(r) => Textual(r)
  BY Zenon DEF Textual
<1>3. \A c : Textual(Err(c))
  <2> DEFINE T == Seq(Symbols)
  <2>1. <<>> \in T
    OBVIOUS
  <2> HIDE DEF T
  <2>2. \A c : Err(c).value = <<>>
    BY DEF Err
  <2>3. \A r : r.value \in T => Textual(r)
    BY Zenon DEF Textual, T
  <2> QED
    BY <2>1, <2>2, <2>3
<1>4. \A f, c, r : Textual(r) => Textual(Unless(f, c, r))
  BY <1>3, Zenon DEF Unless
<1> QED
  BY <1>1, <1>2, <1>4, Zenon

\* The signs and words that the code writes are symbols.
LEMMA TextSigns ==
  {"/", "\\", ".", "?", ":", "-", "UNC", "component", "v2", "ref", "sha256"} \cup Letters \subseteq Symbols
BY DEF Symbols, Written

\* A hierarchical URI is decoded to text.
LEMMA UriText ==
  ASSUME NEW uri \in Seq(Symbols), NEW scheme, NEW o
  PROVE  Textual(ParseHierarchicalURIPath(uri, scheme, o))
<1> DEFINE rest == From(uri, 5)
           slash == IndexFrom(rest, 1, "/")
           first == From(rest, slash)
           second == SubSeq(rest, 1, slash - 1)
           whole(way, authority) == IF scheme = "file" /\ Mapped(authority, Lower) \notin {<<>>, <<"localhost">>}
                                     THEN <<"/", "/">> \o authority \o way ELSE way
           body(way, authority) == Unless(Has(way, NUL) \/ Has(authority, NUL), "ERR_NUL_BYTE", Ok(whole(way, authority)))
<1>1. rest \in Seq(Symbols)
  <2>1. 5 \in Nat \ {0}
    OBVIOUS
  <2> QED
    BY <2>1, FromType
<1> HIDE DEF rest
<1>2. slash \in 1 .. Len(rest) + 1 /\ Len(rest) \in Nat
  <2>1. 1 \in 1 .. Len(rest) + 1 /\ Len(rest) \in Nat
    BY <1>1
  <2> QED
    BY <1>1, <2>1, IndexMeans
<1> HIDE DEF slash
<1>3. first \in Seq(Symbols)
  <2>1. slash \in Nat \ {0}
    BY <1>2
  <2> QED
    BY <1>1, <2>1, FromType
<1>4. second \in Seq(Symbols)
  <2>1. 1 \in Nat \ {0} /\ slash - 1 \in Nat /\ slash - 1 <= Len(rest)
    BY <1>2
  <2> QED
    BY <1>1, <2>1, PartType
<1> HIDE DEF first, second
<1>5. \A s \in Seq(Symbols) : Textual(DecodeURIComponent(s))
  BY MappedTypes, TextualCases, Zenon DEF DecodeURIComponent
<1>6. ASSUME NEW way \in Seq(Symbols), NEW authority \in Seq(Symbols)
      PROVE  Textual(body(way, authority))
  <2>1. <<"/", "/">> \in Seq(Symbols)
    BY TextSigns
  <2>2. <<"/", "/">> \o authority \in Seq(Symbols)
    BY <2>1, ConcatProperties
  <2>3. <<"/", "/">> \o authority \o way \in Seq(Symbols)
    BY <2>2, ConcatProperties
  <2>4. whole(way, authority) \in Seq(Symbols)
    BY <2>3, Zenon
  <2> HIDE DEF whole
  <2> QED
    BY <2>4, TextualCases, Zenon
<1> HIDE DEF body
<1> DEFINE inner(way) == Then(DecodeURIComponent(second), LAMBDA authority : body(way, authority))
           outer == Then(DecodeURIComponent(first), LAMBDA way : inner(way))
<1>7. ASSUME NEW way \in Seq(Symbols) PROVE Textual(inner(way))
  <2>1. Textual(DecodeURIComponent(second))
    BY <1>4, <1>5
  <2> QED
    BY <1>6, <2>1, TextualCases, Zenon DEF Then, Textual
<1>8. Textual(outer)
  <2>1. Textual(DecodeURIComponent(first))
    BY <1>3, <1>5
  <2> HIDE DEF inner
  <2> QED
    BY <1>7, <2>1, TextualCases, Zenon DEF Then, Textual
<1>9. ParseHierarchicalURIPath(uri, scheme, o)
      = Unless(o.rejectEncodedSlash /\ (Has(uri, "%2F") \/ Has(uri, "%5C")), "ERR_ENCODED_SEPARATOR",
         Unless(slash > Len(rest), "ERR_INVALID_URI", outer))
  BY Zenon DEF ParseHierarchicalURIPath, body, whole, first, second, slash, rest
<1> HIDE DEF outer
<1> QED
  BY <1>8, <1>9, TextualCases, Zenon

\* A file URI is decoded to text.
LEMMA FileUriText ==
  ASSUME NEW v \in Seq(Symbols), NEW o
  PROVE  Textual(ParseFileUri(v, o))
<1> DEFINE scheme(name) == StartsWith(v, <<name, ":", "/", "/">>)
<1>1. \A c : c # "ok" => Textual(Err(c))
  BY Outcomes, TextualCases
<1>2. "ERR_UNSUPPORTED_URI_SCHEME" # "ok"
  OBVIOUS
<1>3. CASE scheme("file") /\ o.allowFileUri
  <2>1. Textual(ParseHierarchicalURIPath(v, "file", o))
    BY UriText
  <2> QED
    BY <1>1, <1>2, <2>1, UriText, Zenon DEF ParseFileUri
<1>4. CASE ~(scheme("file") /\ o.allowFileUri)
  <2> QED
    BY <1>1, <1>2, <1>4, UriText, Zenon DEF ParseFileUri
<1> QED
  BY <1>3, <1>4, Zenon

UnderMount(m) == IF m = <<"/">> THEN m ELSE Append(m, "/")
MountRest(v, m) == From(v, Len(UnderMount(m)) + 1)
DriveUnder(v, m) ==
  LET rest == MountRest(v, m)
  IN StartsWith(v, UnderMount(m)) /\ rest # <<>> /\ IsAsciiLetter(rest[1]) /\ (Len(rest) = 1 \/ rest[2] = "/")

\* A mounted drive is mapped, every other text is left as it is.
LEMMA MapWSLMeans ==
  ASSUME NEW v, NEW mount, NEW m, NormalizeMountRoot(mount) = Ok(m)
  PROVE  /\ ~DriveUnder(v, m) => MapWSLDrive(v, mount) = Ok(v)
         /\ DriveUnder(v, m) => MapWSLDrive(v, mount)
              = Unless(Has(MountRest(v, m), "\\"), "ERR_INVALID_PATH",
                  Ok(<<Lower(MountRest(v, m)[1]), ":", "/">> \o From(MountRest(v, m), 3)))
<1> DEFINE f(x) ==
      LET prefix == IF x = <<"/">> THEN x ELSE Append(x, "/")
          rest == From(v, Len(prefix) + 1)
          mapped == /\ StartsWith(v, prefix)
                    /\ rest # <<>> /\ IsAsciiLetter(rest[1])
                    /\ Len(rest) = 1 \/ rest[2] = "/"
      IN IF ~mapped THEN Ok(v)
         ELSE Unless(Has(rest, "\\"), "ERR_INVALID_PATH",
                Ok(<<Lower(rest[1]), ":", "/">> \o From(rest, 3)))
<1>1. IsOk(Ok(m)) /\ Ok(m).value = m
  BY Outcomes
<1>2. MapWSLDrive(v, mount) = Then(NormalizeMountRoot(mount), f)
  BY Zenon DEF MapWSLDrive
<1>3. MapWSLDrive(v, mount) = f(m)
  <2> HIDE DEF f
  <2>1. MapWSLDrive(v, mount) = Then(Ok(m), f)
    BY <1>2, Zenon
  <2> QED
    BY <1>1, <2>1, Zenon DEF Then
<1>4. f(m) = IF ~DriveUnder(v, m) THEN Ok(v)
             ELSE Unless(Has(MountRest(v, m), "\\"), "ERR_INVALID_PATH",
                    Ok(<<Lower(MountRest(v, m)[1]), ":", "/">> \o From(MountRest(v, m), 3)))
  BY Zenon DEF DriveUnder, MountRest, UnderMount
<1> HIDE DEF f
<1> QED
  BY <1>3, <1>4, Zenon

\* The mount with its slash is text.
LEMMA UnderMountType ==
  ASSUME NEW S, "/" \in S, NEW m \in Seq(S)
  PROVE  UnderMount(m) \in Seq(S) /\ Len(UnderMount(m)) \in Nat
<1>1. CASE m = <<"/">>
  BY <1>1 DEF UnderMount
<1>2. CASE m # <<"/">>
  <2>1. Append(m, "/") \in Seq(S)
    BY AppendProperties
  <2> QED
    BY <1>2, <2>1 DEF UnderMount
<1> QED
  BY <1>1, <1>2

\* mapWSLDrive returns text.
LEMMA MapWSLText ==
  ASSUME NEW v \in Seq(Symbols), NEW mount, NEW m \in Seq(Symbols), NormalizeMountRoot(mount) = Ok(m)
  PROVE  Textual(MapWSLDrive(v, mount))
<1> DEFINE rest == MountRest(v, m)
           mapped == <<Lower(rest[1]), ":", "/">> \o From(rest, 3)
<1>1. rest \in Seq(Symbols)
  <2>1. UnderMount(m) \in Seq(Symbols) /\ Len(UnderMount(m)) \in Nat
    BY TextSigns, UnderMountType
  <2>2. Len(UnderMount(m)) + 1 \in Nat \ {0}
    BY <2>1
  <2> QED
    BY <2>2, FromType DEF MountRest
<1> HIDE DEF rest
<1>2. ASSUME rest[1] \in Letters PROVE mapped \in Seq(Symbols)
  <2>1. Lower(rest[1]) \in Symbols
    BY <1>2, Signs, TextSigns
  <2> DEFINE l == Lower(rest[1])
  <2> HIDE DEF l
  <2>2. <<l, ":", "/">> \in Seq(Symbols)
    BY <2>1, TextSigns DEF l
  <2>3. From(rest, 3) \in Seq(Symbols)
    <3>1. 3 \in Nat \ {0}
      OBVIOUS
    <3> QED
      BY <1>1, <3>1, FromType
  <2> QED
    BY <2>2, <2>3, ConcatProperties DEF l
<1> HIDE DEF mapped
<1>3. CASE ~DriveUnder(v, m)
  BY <1>3, MapWSLMeans, TextualCases, Zenon
<1>4. CASE DriveUnder(v, m)
  <2>1. rest[1] \in Letters
    BY <1>4, Zenon DEF DriveUnder, IsAsciiLetter, rest
  <2>2. MapWSLDrive(v, mount) = Unless(Has(rest, "\\"), "ERR_INVALID_PATH", Ok(mapped))
    BY <1>4, MapWSLMeans, Zenon DEF mapped, rest
  <2> QED
    BY <1>2, <2>1, <2>2, TextualCases, Zenon
<1> QED
  BY <1>3, <1>4

\* An identity is a text that is not empty.
LEMMA WholeText ==
  ASSUME NEW kind, NEW prefix, RootAt(kind, prefix), NEW parts \in Seq(NamesOf(kind))
  PROVE  Whole(kind, prefix, parts) \in Seq(Alphabet(kind)) /\ Whole(kind, prefix, parts) \in Seq(Symbols)
         /\ Whole(kind, prefix, parts) # <<>>
<1>1. Whole(kind, prefix, parts) \in Seq(Alphabet(kind)) /\ Whole(kind, prefix, parts) # <<>>
  BY WholeDenotes DEF Denotes
<1>2. Alphabet(kind) \subseteq Symbols
  BY Signs
<1> QED
  BY <1>1, <1>2, SeqMonotonic

\* cleanCanonical returns text.
LEMMA CleanText ==
  ASSUME NEW v \in Seq(Symbols)
  PROVE  Textual(CleanCanonical(v))
<1>1. SUFFICES ASSUME IsOk(CleanCanonical(v)) PROVE CleanCanonical(v).value \in Seq(Symbols)
  BY Zenon DEF Textual
<1>2. PICK kind, prefix : \E rest \in Seq(Alphabet(kind)), kept \in Seq(NamesOf(kind)) :
         /\ SplitRoot(v) = Ok(Root(kind, prefix, rest)) /\ RootAt(kind, prefix)
         /\ kind = "relative" => rest = v
         /\ CleanCanonical(v) = Ok(Whole(kind, prefix, kept))
         /\ \A i \in 1 .. Len(kept) : kept[i] \in NamesIn(Split(rest))
  BY <1>1, CleanGives
<1>3. PICK kept \in Seq(NamesOf(kind)) : CleanCanonical(v) = Ok(Whole(kind, prefix, kept))
  BY <1>2
<1>4. Whole(kind, prefix, kept) \in Seq(Symbols)
  BY <1>2, WholeText
<1> QED
  BY <1>3, <1>4, Outcomes, Zenon

\* normalizeMountRoot returns text.
LEMMA MountText ==
  ASSUME NEW mount \in Seq(Symbols), IsOk(NormalizeMountRoot(mount))
  PROVE  \E m \in Seq(Symbols) : NormalizeMountRoot(mount) = Ok(m)
<1>1. PICK kept \in Seq(NamesOf("posix")) : NormalizeMountRoot(mount) = Ok(Whole("posix", <<"/">>, kept))
  BY MountGives
<1>2. RootAt("posix", <<"/">>)
  BY DEF RootAt
<1>3. Whole("posix", <<"/">>, kept) \in Seq(Symbols)
  BY <1>2, WholeText
<1> QED
  BY <1>1, <1>3

\* The reading under WSL returns text.
LEMMA MountedText ==
  ASSUME NEW v \in Seq(Symbols), v # <<>>, NEW o, o.mountRoot \in Seq(Symbols)
  PROVE  Textual(MountedValue(v, o))
<1> DEFINE end(clean) == IF o.targetProfile = "posix" THEN Ok(clean) ELSE MapWSLDrive(clean, o.mountRoot)
           later(allowed) == Then(CleanCanonical(allowed), end)
           middle(native) == Then(ValidateWindowsPolicy(native, o), later)
<1>1. Textual(NativePOSIXRepresentation(v))
  BY NativeGives, Zenon DEF Textual
<1>2. ASSUME NEW clean \in Seq(Symbols) PROVE Textual(end(clean))
  <2>1. Textual(Ok(clean))
    BY TextualCases
  <2>2. Textual(MapWSLDrive(clean, o.mountRoot))
    <3>1. CASE IsOk(NormalizeMountRoot(o.mountRoot))
      <4>1. PICK m \in Seq(Symbols) : NormalizeMountRoot(o.mountRoot) = Ok(m)
        BY <3>1, MountText
      <4> QED
        BY <4>1, MapWSLText
    <3>2. CASE ~IsOk(NormalizeMountRoot(o.mountRoot))
      <4>1. MapWSLDrive(clean, o.mountRoot) = NormalizeMountRoot(o.mountRoot)
        BY <3>2, Zenon DEF MapWSLDrive, Then
      <4> QED
        BY <3>2, <4>1, Zenon DEF Textual
    <3> QED
      BY <3>1, <3>2
  <2> QED
    BY <2>1, <2>2, Zenon
<1> HIDE DEF end
<1>3. ASSUME NEW allowed \in Seq(Symbols) PROVE Textual(later(allowed))
  <2>1. Textual(CleanCanonical(allowed))
    BY CleanText
  <2> QED
    BY <1>2, <2>1, Zenon DEF Then, Textual
<1> HIDE DEF later
<1>4. ASSUME NEW native \in Seq(Symbols) PROVE Textual(middle(native))
  <2>1. IsOk(ValidateWindowsPolicy(native, o)) => ValidateWindowsPolicy(native, o).value = native
    BY PolicyKeeps, Outcomes
  <2> QED
    BY <1>3, <1>4, <2>1, Zenon DEF Then, Textual
<1> HIDE DEF middle
<1>5. MountedValue(v, o) = Then(NativePOSIXRepresentation(v), middle)
  BY Zenon DEF MountedValue, middle, later, end
<1> QED
  BY <1>1, <1>4, <1>5, Zenon DEF Then, Textual

\* unwrapWindowsExtendedPrefix returns text.
LEMMA UnwrapText ==
  ASSUME NEW v \in Seq(Symbols)
  PROVE  Textual(UnwrapWindowsExtendedPrefix(v))
<1> DEFINE plain(r0) == From(r0.prefix, 5) \o r0.rest
           share(r0) == <<"/", "/">> \o From(r0.prefix, 7)
                   \o IF r0.rest = <<>> THEN <<>> ELSE <<"/">> \o r0.rest
           body(r0) == IF r0.kind = "extended-drive" THEN Ok(plain(r0)) ELSE Ok(share(r0))
<1>1. ASSUME NEW r0, r0.prefix \in Seq(Symbols), r0.rest \in Seq(Symbols)
      PROVE  Textual(body(r0))
  <2>1. 5 \in Nat \ {0} /\ 7 \in Nat \ {0}
    OBVIOUS
  <2>2. From(r0.prefix, 5) \in Seq(Symbols) /\ From(r0.prefix, 7) \in Seq(Symbols)
    BY <1>1, <2>1, FromType
  <2>3. plain(r0) \in Seq(Symbols)
    BY <1>1, <2>2, ConcatProperties
  <2>4. <<"/", "/">> \in Seq(Symbols) /\ <<"/">> \in Seq(Symbols) /\ <<>> \in Seq(Symbols)
    BY TextSigns
  <2>5. (IF r0.rest = <<>> THEN <<>> ELSE <<"/">> \o r0.rest) \in Seq(Symbols)
    <3>1. <<"/">> \o r0.rest \in Seq(Symbols)
      BY <1>1, <2>4, ConcatProperties
    <3> QED
      BY <2>4, <3>1, Zenon
  <2>6. <<"/", "/">> \o From(r0.prefix, 7) \in Seq(Symbols)
    BY <2>2, <2>4, ConcatProperties
  <2>7. share(r0) \in Seq(Symbols)
    BY <2>5, <2>6, ConcatProperties
  <2> HIDE DEF plain, share
  <2> QED
    BY <2>3, <2>7, TextualCases, Zenon
<1> HIDE DEF body
<1>2. UnwrapWindowsExtendedPrefix(v) = IF ~StartsWith(v, ExtendedMark) THEN Ok(v) ELSE Then(SplitRoot(v), body)
  BY Zenon DEF UnwrapWindowsExtendedPrefix, body, plain, share
<1>3. ASSUME IsOk(SplitRoot(v)) PROVE Textual(body(SplitRoot(v).value))
  <2>1. PICK kind, prefix : \E rest \in Seq(Alphabet(kind)) :
           /\ SplitRoot(v) = Ok(Root(kind, prefix, rest)) /\ RootAt(kind, prefix)
           /\ v \in Seq(Alphabet(kind)) /\ (kind = "relative" => rest = v)
    BY <1>3, SplitRootGives
  <2>2. PICK rest \in Seq(Alphabet(kind)) : SplitRoot(v) = Ok(Root(kind, prefix, rest))
    BY <2>1
  <2>3. prefix \in Seq(Symbols) /\ rest \in Seq(Symbols)
    <3>1. Alphabet(kind) \subseteq Symbols
      BY Signs
    <3>2. prefix \in Seq(Alphabet(kind))
      BY <2>1, RootAtLength
    <3> QED
      BY <3>1, <3>2, SeqMonotonic
  <2>4. SplitRoot(v).value = Root(kind, prefix, rest)
    BY <2>2, Outcomes
  <2>5. Root(kind, prefix, rest).prefix = prefix /\ Root(kind, prefix, rest).rest = rest
    BY Outcomes
  <2> QED
    BY <1>1, <2>3, <2>4, <2>5, Zenon
<1> QED
  BY <1>2, <1>3, TextualCases, Zenon DEF Then

\* The Windows reading returns text.
LEMMA WindowsText ==
  ASSUME NEW v \in Seq(Symbols), NEW o
  PROVE  Textual(WindowsValue(v, o))
<1> DEFINE first == IF o.preserveExtendedLength THEN Ok(Slashed(v)) ELSE UnwrapWindowsExtendedPrefix(Slashed(v))
           body(value) == Ok(IF IsUriWindowsDrivePath(value) THEN Tail(value) ELSE value)
<1>1. Slashed(v) \in Seq(Symbols)
  BY MappedTypes
<1>2. Textual(first)
  <2>1. Textual(Ok(Slashed(v))) /\ Textual(UnwrapWindowsExtendedPrefix(Slashed(v)))
    BY <1>1, TextualCases, UnwrapText
  <2> QED
    BY <2>1, Zenon
<1>3. ASSUME NEW value \in Seq(Symbols) PROVE Textual(body(value))
  <2>1. IsUriWindowsDrivePath(value) => Tail(value) \in Seq(Symbols)
    <3> SUFFICES ASSUME IsUriWindowsDrivePath(value) PROVE Tail(value) \in Seq(Symbols)
      OBVIOUS
    <3>1. HasDriveRoot(Tail(value))
      BY DEF IsUriWindowsDrivePath
    <3>2. value # <<>>
      <4>1. StartsWith(value, <<"/">>)
        BY DEF IsUriWindowsDrivePath
      <4>2. <<"/">> \in Seq(Symbols)
        BY TextSigns
      <4>3. Len(<<"/">>) <= Len(value)
        BY <4>1, <4>2, StartsWithMeans
      <4> QED
        BY <4>3
    <3> QED
      BY <3>2
  <2> QED
    BY <2>1, TextualCases, Zenon
<1> HIDE DEF first, body
<1>4. WindowsValue(v, o) = Then(first, body)
  BY Zenon DEF WindowsValue, first, body
<1> QED
  BY <1>2, <1>3, <1>4, Zenon DEF Then, Textual

\* Every reading of host text returns text.
LEMMA HostText ==
  ASSUME NEW v \in Seq(Symbols), v # <<>>, NEW o, o.mountRoot \in Seq(Symbols)
  PROVE  Textual(HostValue(v, o))
<1> DEFINE first == IF HasUriScheme(v) THEN ParseFileUri(v, o) ELSE Ok(v)
           body(value) == IF PosixMountCandidate(value, HasUriScheme(v), o) THEN MountedValue(value, o)
                          ELSE WindowsValue(value, o)
<1>1. Textual(first)
  BY FileUriText, TextualCases, Zenon
<1>2. ASSUME NEW value \in Seq(Symbols) PROVE Textual(body(value))
  <2>1. CASE PosixMountCandidate(value, HasUriScheme(v), o)
    <3>1. value # <<>>
      <4>1. StartsWith(value, <<"/">>)
        BY <2>1, Zenon DEF PosixMountCandidate
      <4>2. <<"/">> \in Seq(Symbols)
        BY TextSigns
      <4>3. Len(<<"/">>) <= Len(value)
        BY <4>1, <4>2, StartsWithMeans
      <4> QED
        BY <4>3
    <3>2. Textual(MountedValue(value, o))
      BY <3>1, MountedText
    <3> QED
      BY <2>1, <3>2, Zenon
  <2>2. CASE ~PosixMountCandidate(value, HasUriScheme(v), o)
    BY <2>2, WindowsText, Zenon
  <2> QED
    BY <2>1, <2>2, Zenon
<1> HIDE DEF first, body
<1>3. CASE o.sourceHost = "posix"
  <2>1. Textual(NativePOSIXRepresentation(v))
    BY NativeGives, Zenon DEF Textual
  <2>2. HostValue(v, o) = Unless(o.wslEnabled, "ERR_INVALID_PATH", NativePOSIXRepresentation(v))
    BY <1>3, Zenon DEF HostValue
  <2> QED
    BY <2>1, <2>2, TextualCases, Zenon
<1>4. CASE o.sourceHost = "canonical"
  <2>1. "canonical" # "posix"
    OBVIOUS
  <2>2. HostValue(v, o) = Ok(v)
    BY <1>4, <2>1, Zenon DEF HostValue
  <2> QED
    BY <2>2, TextualCases, Zenon
<1>5. CASE o.sourceHost # "canonical" /\ o.sourceHost # "posix"
  <2>1. HostValue(v, o) = Then(first, body)
    BY <1>5, Zenon DEF HostValue, first, body
  <2> QED
    BY <1>1, <1>2, <2>1, Zenon DEF Then, Textual
<1> QED
  BY <1>3, <1>4, <1>5

(***************************************************************************)
(* What normalize returns                                                  *)
(***************************************************************************)
\* The kinds of root that a target profile accepts.
Accepts(target, kind) ==
  /\ target = "posix" => ~IsWindowsRoot(kind)
  /\ target = "win32-drive" => kind \notin {"posix", "unc", "extended-unc"}

\* A target profile passes the roots it accepts and refuses the others.
LEMMA ProfileMeans ==
  ASSUME NEW v, NEW target, NEW kind, NEW prefix, NEW rest, SplitRoot(v) = Ok(Root(kind, prefix, rest))
  PROVE  /\ Accepts(target, kind) => ValidateTargetProfile(v, target) = Ok(v)
         /\ ~Accepts(target, kind) => ~IsOk(ValidateTargetProfile(v, target))
<1> DEFINE r == Root(kind, prefix, rest)
<1>1. IsOk(SplitRoot(v)) /\ SplitRoot(v).value = r /\ r.kind = kind
  BY Outcomes
<1> HIDE DEF r
<1>2. ValidateTargetProfile(v, target)
      = Unless(\/ target = "posix" /\ IsWindowsRoot(kind)
               \/ target = "win32-drive" /\ kind \in {"posix", "unc", "extended-unc"},
               "ERR_INVALID_PATH", Ok(v))
  BY <1>1, Zenon DEF ValidateTargetProfile, Then
<1>3. ~IsOk(Err("ERR_INVALID_PATH"))
  BY Outcomes
<1> QED
  BY <1>2, <1>3, Zenon DEF Unless, Accepts

\* What normalize does when nothing is trimmed and the host part is known.
LEMMA NormalizeIs ==
  ASSUME NEW w, NEW o, NEW x, w # <<>>, ~Has(w, NUL), ~o.trimOuterWhitespace,
         IsOk(NormalizeMountRoot(o.mountRoot)), HostValue(w, o) = Ok(x)
  PROVE  /\ ~IsOk(ValidateWindowsPolicy(x, o)) => Normalize(w, o) = ValidateWindowsPolicy(x, o)
         /\ \A c : /\ ValidateWindowsPolicy(x, o) = Ok(x) /\ CleanCanonical(x) = Ok(c)
                   /\ ValidateTargetProfile(c, o.targetProfile) = Ok(c)
                   => Normalize(w, o) = Ok(c)
<1> DEFINE after(clean) == ValidateTargetProfile(clean, o.targetProfile)
           later(allowed) == Then(CleanCanonical(allowed), after)
           body(value) == Then(ValidateWindowsPolicy(value, o), later)
<1>1. Normalize(w, o) = IF IsOk(HostValue(w, o)) THEN body(HostValue(w, o).value) ELSE HostValue(w, o)
  BY Zenon DEF Normalize, Unless, Then, body, later, after
<1> HIDE DEF body
<1>2. IsOk(HostValue(w, o)) /\ HostValue(w, o).value = x
  BY Outcomes
<1>3. Normalize(w, o) = body(x)
  BY <1>1, <1>2, Zenon
<1>4. ASSUME NEW c, ValidateWindowsPolicy(x, o) = Ok(x), CleanCanonical(x) = Ok(c),
             ValidateTargetProfile(c, o.targetProfile) = Ok(c)
      PROVE  body(x) = Ok(c)
  <2>1. IsOk(CleanCanonical(x)) /\ CleanCanonical(x).value = c
    BY <1>4, Outcomes
  <2>2. IsOk(ValidateWindowsPolicy(x, o)) /\ ValidateWindowsPolicy(x, o).value = x
    BY <1>4, Outcomes
  <2> QED
    BY <1>4, <2>1, <2>2, Zenon DEF body, Then
<1>5. ASSUME ~IsOk(ValidateWindowsPolicy(x, o)) PROVE body(x) = ValidateWindowsPolicy(x, o)
  BY <1>5, Zenon DEF body, Then
<1> QED
  BY <1>3, <1>4, <1>5, Zenon

\* What a successful normalize says of its result and of the options.
Made(kind, prefix, kept, o) ==
  /\ RootAt(kind, prefix) /\ kept \in Seq(NamesOf(kind)) /\ AllowedNames(kept, o)
  /\ IsOk(NormalizeMountRoot(o.mountRoot)) /\ Accepts(o.targetProfile, kind)
  /\ o.sourceHost = "posix" => ~o.wslEnabled /\ kind \in {"posix", "relative"}

\* Whatever normalize returns for any text and options is an identity made under them.
LEMMA NormalizeGives ==
  ASSUME NEW text \in Seq(Symbols), NEW o, o.mountRoot \in Seq(Symbols), o.trimOuterWhitespace \in BOOLEAN,
         IsOk(Normalize(text, o))
  PROVE  \E kind, prefix, kept : Made(kind, prefix, kept, o) /\ Normalize(text, o) = Ok(Whole(kind, prefix, kept))
<1> DEFINE w == IF o.trimOuterWhitespace THEN Trimmed(text, {" "}, TRUE) ELSE text
           after(clean) == ValidateTargetProfile(clean, o.targetProfile)
           later(allowed) == Then(CleanCanonical(allowed), after)
           body(value) == Then(ValidateWindowsPolicy(value, o), later)
           host == HostValue(w, o)
           mount == NormalizeMountRoot(o.mountRoot)
<1>1. w \in Seq(Symbols)
  <2>1. TRUE \in BOOLEAN
    OBVIOUS
  <2>2. Trimmed(text, {" "}, TRUE) \in Seq(Symbols)
    BY <2>1, TrimmedType
  <2> QED
    BY <2>2, Zenon
<1>2. Normalize(text, o)
      = Unless(w = <<>>, "ERR_EMPTY_PATH", Unless(Has(w, NUL), "ERR_NUL_BYTE",
          IF IsOk(mount) THEN IF IsOk(host) THEN body(host.value) ELSE host ELSE mount))
  BY Zenon DEF Normalize, Then, body, later, after, w, host, mount
<1> HIDE DEF w, body, host, mount
<1>3. ~IsOk(Err("ERR_EMPTY_PATH")) /\ ~IsOk(Err("ERR_NUL_BYTE"))
  BY Outcomes
<1>4. w # <<>> /\ IsOk(mount) /\ IsOk(host) /\ Normalize(text, o) = body(host.value) /\ IsOk(body(host.value))
  BY <1>2, <1>3, Zenon DEF Unless
<1>5. Textual(host)
  BY <1>1, <1>4, HostText DEF host
<1> DEFINE x == host.value
           y == CleanCanonical(x)
<1>6. x \in Seq(Symbols)
  BY <1>4, <1>5, Zenon DEF Textual
<1> HIDE DEF x
<1>7. IsOk(ValidateWindowsPolicy(x, o))
  BY <1>4, Zenon DEF body, Then, x
<1>8. ValidateWindowsPolicy(x, o) = Ok(x) /\ ValidateWindowsPolicy(x, o).value = x
  BY <1>7, PolicyKeeps, Outcomes
<1>9. body(x) = later(x)
  <2> HIDE DEF later
  <2> QED
    BY <1>7, <1>8, Zenon DEF body, Then
<1>10. IsOk(y) /\ body(x) = after(y.value)
  BY <1>4, <1>9, Zenon DEF later, Then, x
<1>11. PICK kind, prefix : \E rest \in Seq(Alphabet(kind)), kept \in Seq(NamesOf(kind)) :
           /\ SplitRoot(x) = Ok(Root(kind, prefix, rest)) /\ RootAt(kind, prefix)
           /\ kind = "relative" => rest = x
           /\ CleanCanonical(x) = Ok(Whole(kind, prefix, kept))
           /\ \A i \in 1 .. Len(kept) : kept[i] \in NamesIn(Split(rest))
  BY <1>6, <1>10, CleanGives
<1>12. PICK rest \in Seq(Alphabet(kind)), kept \in Seq(NamesOf(kind)) :
           /\ SplitRoot(x) = Ok(Root(kind, prefix, rest)) /\ RootAt(kind, prefix)
           /\ CleanCanonical(x) = Ok(Whole(kind, prefix, kept))
           /\ \A i \in 1 .. Len(kept) : kept[i] \in NamesIn(Split(rest))
  BY <1>11
<1> DEFINE c == Whole(kind, prefix, kept)
<1>13. y.value = c
  BY <1>12, Outcomes
<1>14. SplitRoot(c) = Ok(Root(kind, prefix, RestOf(kind, prefix, kept))) /\ c \in Seq(Symbols)
  BY <1>12, WholeIsCanonical, WholeText
<1> HIDE DEF c, y
<1>15. IsOk(ValidateTargetProfile(c, o.targetProfile))
  BY <1>4, <1>10, <1>13, Zenon DEF after, x
<1>16. ValidateTargetProfile(c, o.targetProfile) = Ok(c) /\ Accepts(o.targetProfile, kind)
  BY <1>14, <1>15, ProfileMeans
<1>17. Normalize(text, o) = Ok(c)
  BY <1>4, <1>10, <1>13, <1>16, Zenon DEF after, x
<1>18. AllowedNames(kept, o)
  <2>1. ~(ValidateWindowsPolicy(x, o).code \in PolicyErrors)
    BY <1>7 DEF IsOk, PolicyErrors
  <2>2. Allowed(rest, o)
    BY <1>12, <2>1, PolicyMeans
  <2> QED
    BY <1>12, <2>2, NamesOfAllowed
<1>19. ASSUME o.sourceHost = "posix" PROVE ~o.wslEnabled /\ kind \in {"posix", "relative"}
  <2>1. host = Unless(o.wslEnabled, "ERR_INVALID_PATH", NativePOSIXRepresentation(w))
    BY <1>19, Zenon DEF HostValue, host
  <2>2. ~IsOk(Err("ERR_INVALID_PATH"))
    BY Outcomes
  <2>3. ~o.wslEnabled /\ host = NativePOSIXRepresentation(w)
    BY <1>4, <2>1, <2>2, Zenon DEF Unless
  <2>4. IsOk(NativePOSIXRepresentation(w)) /\ NativePOSIXRepresentation(w).value = x
    BY <1>4, <2>3 DEF x
  <2>5. PICK k \in {"posix", "relative"} : \E p, r : ParsedRoot(x) = Ok(Root(k, p, r))
    <3>1. w # <<>>
      BY <1>4
    <3> QED
      BY <1>1, <3>1, <2>4, NativeGives
  <2>10. PICK p, r : ParsedRoot(x) = Ok(Root(k, p, r))
    BY <2>5
  <2>6. IsOk(SplitRoot(x))
    BY <1>12, Outcomes
  <2>7. SplitRoot(x) = Ok(Root(k, p, r))
    BY <2>10, <2>6, SplitIsParsed
  <2>8. Ok(Root(k, p, r)) = Ok(Root(kind, prefix, rest))
    BY <1>12, <2>7, Zenon
  <2>9. k = kind
    BY <2>8 DEF Ok, Root
  <2> QED
    BY <2>3, <2>9
<1>20. Made(kind, prefix, kept, o)
  BY <1>4, <1>12, <1>16, <1>18, <1>19 DEF Made, mount
<1> QED
  BY <1>17, <1>20 DEF c

(***************************************************************************)
(* Components made from arbitrary text                                     *)
(***************************************************************************)
DashStep(t, v, i, set) ==
  IF v[i] \notin set THEN Append(t, v[i])
  ELSE IF i > 1 /\ v[i - 1] \in set THEN t ELSE Append(t, "-")

\* The function that Dashed is defined by.
Dashes(h, s, set) == h[0] = <<>> /\ \A i \in 1 .. Len(s) : h[i] = DashStep(h[i - 1], s, i, set)

\* Dashed is what its recursion over the text describes: a text of dashes and of
\* symbols outside the set.
LEMMA DashedIsRecursive ==
  ASSUME NEW S, NEW T, NEW set, NEW s \in Seq(S), "-" \in T, S \ set \subseteq T
  PROVE  \E f \in [0 .. Len(s) -> Seq(T)] :
           /\ Dashes(f, s, set) /\ Dashed(s, set) = f[Len(s)]
           /\ \A h : Dashes(h, s, set) => h[Len(s)] = f[Len(s)]
<1> DEFINE base == <<>>
           V == Seq(T)
           step == [i \in 1 .. Len(s) |-> [t \in V |-> DashStep(t, s, i, set)]]
           Eq(h) == h = [i \in 0 .. Len(s) |->
                           IF i = 0 THEN <<>>
                           ELSE IF s[i] \notin set THEN Append(h[i - 1], s[i])
                           ELSE IF i > 1 /\ s[i - 1] \in set THEN h[i - 1] ELSE Append(h[i - 1], "-")]
<1>1. Len(s) \in Nat /\ \A i \in 1 .. Len(s) : s[i] \in S
  OBVIOUS
<1>2. base \in V
  OBVIOUS
<1>3. step \in [1 .. Len(s) -> [V -> V]]
  <2>1. ASSUME NEW i \in 1 .. Len(s), NEW t \in V PROVE DashStep(t, s, i, set) \in V
    <3>1. s[i] \notin set => s[i] \in T
      BY <1>1
    <3>2. (s[i] \notin set => Append(t, s[i]) \in Seq(T)) /\ Append(t, "-") \in Seq(T)
      BY <3>1, AppendProperties
    <3> HIDE DEF V
    <3> QED
      BY <3>2, Zenon DEF DashStep, V
  <2> HIDE DEF V
  <2> QED
    BY <2>1
<1>4. \A i \in 1 .. Len(s) : \A t \in V : step[i][t] = DashStep(t, s, i, set)
  OBVIOUS
<1>5. PICK f \in [0 .. Len(s) -> V] : Recursive(f, Len(s), base, step)
  <2> HIDE DEF base, step, V
  <2> QED
    BY <1>1, <1>2, <1>3, RecursionExists
<1>6. f[0] = base /\ \A i \in 1 .. Len(s) : f[i] = DashStep(f[i - 1], s, i, set)
  <2>1. f[0] = base
    BY <1>5 DEF Recursive
  <2>2. ASSUME NEW i \in 1 .. Len(s) PROVE f[i] = DashStep(f[i - 1], s, i, set)
    <3>1. f[i - 1] \in V
      BY <1>1
    <3>2. f[i] = step[i][f[i - 1]]
      BY <1>5 DEF Recursive
    <3> HIDE DEF step, V
    <3> QED
      BY <1>4, <3>1, <3>2
  <2> QED
    BY <2>1, <2>2
<1>7. \A h : Eq(h) <=> h = [i \in 0 .. Len(s) |-> IF i = 0 THEN base ELSE DashStep(h[i - 1], s, i, set)]
  BY Zenon DEF DashStep
<1>8. Eq(f)
  <2> HIDE DEF Eq, base
  <2>1. \A i \in 0 .. Len(s) : f[i] = IF i = 0 THEN base ELSE DashStep(f[i - 1], s, i, set)
    BY <1>1, <1>6
  <2>2. f = [i \in 0 .. Len(s) |-> IF i = 0 THEN base ELSE DashStep(f[i - 1], s, i, set)]
    BY <2>1
  <2> QED
    BY <1>7, <2>2, Zenon
<1> DEFINE c == CHOOSE h : Eq(h)
<1>9. Eq(c)
  <2> HIDE DEF Eq
  <2> QED
    BY <1>8, Zenon
<1>10. Dashed(s, set) = c[Len(s)]
  BY Zenon DEF Dashed
<1> HIDE DEF Eq, c
<1>11. c = [i \in 0 .. Len(s) |-> IF i = 0 THEN base ELSE DashStep(c[i - 1], s, i, set)]
  BY <1>7, <1>9, Zenon
<1>12. Dashes(c, s, set)
  <2> HIDE DEF base
  <2>1. c[0] = base /\ \A i \in 1 .. Len(s) : c[i] = DashStep(c[i - 1], s, i, set)
    BY <1>1, <1>11
  <2> QED
    BY <2>1 DEF Dashes, base
<1>13. ASSUME NEW h, Dashes(h, s, set) PROVE h[Len(s)] = f[Len(s)]
  <2>1. h[0] = base /\ \A i \in 1 .. Len(s) : h[i] = DashStep(h[i - 1], s, i, set)
    BY <1>13 DEF Dashes
  <2>2. \A i \in 1 .. Len(s) : h[i - 1] \in V => h[i] = step[i][h[i - 1]]
    <3> HIDE DEF step, V
    <3> QED
      BY <1>4, <2>1
  <2>3. Follows(h, Len(s), V, base, step)
    BY <2>1, <2>2 DEF Follows
  <2> HIDE DEF base, step, V
  <2>4. \A i \in 0 .. Len(s) : h[i] = f[i]
    BY <1>1, <1>5, <2>3, RecursionFollowed
  <2> QED
    BY <1>1, <2>4
<1>14. Dashed(s, set) = f[Len(s)]
  BY <1>10, <1>12, <1>13
<1>15. Dashes(f, s, set)
  BY <1>6 DEF Dashes
<1> QED
  BY <1>13, <1>14, <1>15

\* Dashed text consists of dashes and of symbols outside the set.
LEMMA DashedType ==
  ASSUME NEW S, NEW T, NEW set, NEW s \in Seq(S), "-" \in T, S \ set \subseteq T
  PROVE  Dashed(s, set) \in Seq(T)
<1>1. PICK f \in [0 .. Len(s) -> Seq(T)] : Dashed(s, set) = f[Len(s)]
  BY DashedIsRecursive
<1>2. Len(s) \in 0 .. Len(s)
  OBVIOUS
<1> QED
  BY <1>1, <1>2

\* Two sets that have the same symbols of a text turn the same symbols into dashes.
LEMMA DashedSame ==
  ASSUME NEW S, NEW one, NEW other, NEW s \in Seq(S), \A x \in S : x \in one <=> x \in other
  PROVE  Dashed(s, one) = Dashed(s, other)
<1> DEFINE T == S \cup {"-"}
<1>0. "-" \in T /\ S \ one \subseteq T /\ S \ other \subseteq T /\ Len(s) \in Nat
  OBVIOUS
<1> HIDE DEF T
<1>1. PICK f \in [0 .. Len(s) -> Seq(T)] : Dashes(f, s, one) /\ Dashed(s, one) = f[Len(s)]
  BY <1>0, DashedIsRecursive
<1>2. PICK g \in [0 .. Len(s) -> Seq(T)] :
        /\ Dashes(g, s, other) /\ Dashed(s, other) = g[Len(s)]
        /\ \A h : Dashes(h, s, other) => h[Len(s)] = g[Len(s)]
  BY <1>0, DashedIsRecursive
<1>3. Dashes(f, s, other)
  <2>1. ASSUME NEW i \in 1 .. Len(s), NEW t PROVE DashStep(t, s, i, one) = DashStep(t, s, i, other)
    <3>1. s[i] \in one <=> s[i] \in other
      BY <1>0
    <3>2. i > 1 => (s[i - 1] \in one <=> s[i - 1] \in other)
      BY <1>0
    <3> QED
      BY <3>1, <3>2, Zenon DEF DashStep
  <2>2. f[0] = <<>> /\ \A i \in 1 .. Len(s) : f[i] = DashStep(f[i - 1], s, i, one)
    BY <1>1 DEF Dashes
  <2>3. \A i \in 1 .. Len(s) : f[i] = DashStep(f[i - 1], s, i, other)
    BY <2>1, <2>2
  <2> QED
    BY <2>2, <2>3 DEF Dashes
<1> QED
  BY <1>1, <1>2, <1>3

\* An escaped device name is text.
LEMMA EscapedText ==
  ASSUME NEW v \in Seq(Symbols)
  PROVE  escapeReservedWin32Component(v) \in Seq(Symbols)
<1> DEFINE dot == IndexFrom(v, 1, ".")
           base == SubSeq(v, 1, dot - 1)
           longer == Append(base, "-") \o From(v, dot)
<1>1. dot \in 1 .. Len(v) + 1 /\ Len(v) \in Nat
  <2>1. 1 \in 1 .. Len(v) + 1 /\ Len(v) \in Nat
    OBVIOUS
  <2> QED
    BY <2>1, IndexMeans
<1> HIDE DEF dot
<1>2. base \in Seq(Symbols)
  <2>1. 1 \in Nat \ {0} /\ dot - 1 \in Nat /\ dot - 1 <= Len(v)
    BY <1>1
  <2> QED
    BY <2>1, PartType
<1>3. From(v, dot) \in Seq(Symbols)
  <2>1. dot \in Nat \ {0}
    BY <1>1
  <2> QED
    BY <2>1, FromType
<1> HIDE DEF base
<1>4. Append(base, "-") \in Seq(Symbols)
  BY <1>2, TextSigns, AppendProperties
<1>5. longer \in Seq(Symbols)
  BY <1>3, <1>4, ConcatProperties
<1> HIDE DEF longer
<1>6. escapeReservedWin32Component(v) = IF Mapped(base, Upper) \in DeviceNames THEN longer ELSE v
  BY Zenon DEF escapeReservedWin32Component, longer, base, dot
<1> QED
  BY <1>5, <1>6, Zenon

\* sanitizeComponent returns text.
LEMMA ComponentText ==
  ASSUME NEW name \in Seq(Symbols), NEW profile
  PROVE  Textual(sanitizeComponent(name, profile))
<1> DEFINE trimmed == Trimmed(Dashed(name, Separators), Trimmable, TRUE)
           value == IF trimmed = <<>> THEN <<"component">> ELSE trimmed
           made == IF profile = "win32" THEN escapeReservedWin32Component(value) ELSE value
<1>1. Dashed(name, Separators) \in Seq(Symbols)
  BY TextSigns, DashedType
<1>2. trimmed \in Seq(Symbols)
  <2>1. TRUE \in BOOLEAN
    OBVIOUS
  <2> QED
    BY <1>1, <2>1, TrimmedType
<1>3. <<"component">> \in Seq(Symbols)
  BY TextSigns
<1> HIDE DEF trimmed
<1>4. value \in Seq(Symbols)
  BY <1>2, <1>3, Zenon
<1> HIDE DEF value
<1>5. made \in Seq(Symbols)
  BY <1>4, EscapedText, Zenon
<1> HIDE DEF made
<1>6. sanitizeComponent(name, profile)
      = Unless(name = <<>>, "ERR_INVALID_COMPONENT", Unless(Has(name, NUL), "ERR_NUL_BYTE", Ok(made)))
  BY Zenon DEF sanitizeComponent, made, value, trimmed
<1>7. Textual(Ok(made))
  BY <1>5, TextualCases
<1>8. Textual(Unless(Has(name, NUL), "ERR_NUL_BYTE", Ok(made)))
  BY <1>7, TextualCases, Zenon
<1> DEFINE t == Unless(Has(name, NUL), "ERR_NUL_BYTE", Ok(made))
           u == Unless(name = <<>>, "ERR_INVALID_COMPONENT", t)
<1> HIDE DEF t
<1>9. Textual(u)
  BY <1>8, TextualCases, Zenon DEF t
<1>10. sanitizeComponent(name, profile) = u
  BY <1>6, Zenon DEF t
<1> HIDE DEF u
<1> QED
  BY <1>9, <1>10, Zenon

\* encodeGitRef returns text.
LEMMA GitRefText ==
  ASSUME NEW ref \in Refs, ref \in Seq(Symbols), MaxSlug \in Nat
  PROVE  Textual(encodeGitRef(ref))
<1> DEFINE ends == {".", "_", "-"}
           whole == Trimmed(Dashed(ref, Illegible), ends, TRUE)
           length == IF Len(whole) < MaxSlug THEN Len(whole) ELSE MaxSlug
           cut == Trimmed(SubSeq(whole, 1, length), ends, TRUE)
           slug == IF cut = <<>> THEN <<"ref">> ELSE cut
           v == <<"v2", "-">> \o slug \o <<"-", "-">> \o Digest256(ref)
<1>0. TRUE \in BOOLEAN
  OBVIOUS
<1>1. Dashed(ref, Illegible) \in Seq(Symbols)
  BY TextSigns, DashedType
<1>2. whole \in Seq(Symbols)
  BY <1>0, <1>1, TrimmedType
<1> HIDE DEF whole
<1>3. length \in Nat /\ length <= Len(whole)
  BY <1>2
<1> HIDE DEF length
<1>4. SubSeq(whole, 1, length) \in Seq(Symbols)
  <2>1. 1 \in Nat \ {0}
    OBVIOUS
  <2> QED
    BY <1>2, <1>3, <2>1, PartType
<1>5. cut \in Seq(Symbols)
  BY <1>0, <1>4, TrimmedType
<1>6. <<"ref">> \in Seq(Symbols) /\ <<"v2", "-">> \in Seq(Symbols) /\ <<"-", "-">> \in Seq(Symbols)
  BY TextSigns
<1> HIDE DEF cut
<1>7. slug \in Seq(Symbols)
  BY <1>5, <1>6, Zenon
<1> HIDE DEF slug
<1>8. Digest256(ref) \in Seq(Symbols)
  <2>1. ToString(ref) \in Symbols
    BY DEF Symbols
  <2> DEFINE d == ToString(ref)
  <2> HIDE DEF d
  <2>2. <<"sha256", d>> \in Seq(Symbols)
    BY <2>1, TextSigns DEF d
  <2> QED
    BY <2>2 DEF Digest256, d
<1>9. v \in Seq(Symbols)
  <2>1. <<"v2", "-">> \o slug \in Seq(Symbols)
    BY <1>6, <1>7, ConcatProperties
  <2>2. <<"v2", "-">> \o slug \o <<"-", "-">> \in Seq(Symbols)
    BY <1>6, <2>1, ConcatProperties
  <2> QED
    BY <1>8, <2>2, ConcatProperties
<1> HIDE DEF v
<1>10. encodeGitRef(ref)
      = Unless(ref = <<>>, "ERR_INVALID_COMPONENT", Unless(Has(ref, NUL), "ERR_NUL_BYTE",
          Unless(Malformed(ref), "ERR_INVALID_COMPONENT", Ok(v))))
  BY Zenon DEF encodeGitRef, v, slug, cut, length, whole
<1>11. Textual(Ok(v))
  BY <1>9, TextualCases
<1>12. Textual(Unless(Malformed(ref), "ERR_INVALID_COMPONENT", Ok(v)))
  BY <1>11, TextualCases, Zenon
<1>13. Textual(Unless(Has(ref, NUL), "ERR_NUL_BYTE", Unless(Malformed(ref), "ERR_INVALID_COMPONENT", Ok(v))))
  BY <1>12, TextualCases, Zenon
<1> DEFINE t == Unless(Has(ref, NUL), "ERR_NUL_BYTE", Unless(Malformed(ref), "ERR_INVALID_COMPONENT", Ok(v)))
           u == Unless(ref = <<>>, "ERR_INVALID_COMPONENT", t)
<1> HIDE DEF t
<1>14. Textual(u)
  BY <1>13, TextualCases, Zenon DEF t
<1>15. encodeGitRef(ref) = u
  BY <1>10, Zenon DEF t
<1> HIDE DEF u
<1> QED
  BY <1>14, <1>15, Zenon

\* The two validators of an operand only drop and rejoin its components.
LEMMA OperandText ==
  ASSUME NEW rel \in Seq(Symbols)
  PROVE  Textual(NormalizeRelative(rel)) /\ Textual(validateRelativePath(rel))
<1> DEFINE c == CleanComponents(rel, FALSE, "ERR_OUTSIDE_ROOT")
           strict(parts) == Unless(parts = <<>>, "ERR_EMPTY_PATH", Ok(Joined(parts)))
           client(parts) == Ok(IF parts = <<>> THEN <<".">> ELSE Joined(parts))
<1>1. IsOk(c) => Joined(c.value) \in Seq(Symbols)
  <2> SUFFICES ASSUME IsOk(c) PROVE Joined(c.value) \in Seq(Symbols)
    OBVIOUS
  <2>1. c \in CleanResults(Split(rel), "ERR_OUTSIDE_ROOT") /\ NamesIn(Split(rel)) \subseteq RealNames(Symbols)
    <3>1. "ERR_OUTSIDE_ROOT" # "ok"
      OBVIOUS
    <3> QED
      BY <3>1, CleanedAreNames, Zenon
  <2> HIDE DEF c
  <2>2. PICK more \in Seq(NamesIn(Split(rel))) : c = Ok(more)
    BY <2>1, Outcomes DEF CleanResults
  <2>3. more \in Seq(RealNames(Symbols))
    BY <2>1, <2>2, SeqMonotonic
  <2>4. Joined(more) \in Seq(Symbols)
    BY <2>3, TextSigns, ReadsJoined
  <2> QED
    BY <2>2, <2>4, Outcomes, Zenon
<1> HIDE DEF c
<1>2. <<".">> \in Seq(Symbols)
  BY TextSigns
<1>3. Textual(Ok(<<".">>)) /\ Textual(Ok(rel))
  BY <1>2, TextualCases
<1>4. IsOk(c) => Textual(strict(c.value)) /\ Textual(client(c.value))
  BY <1>1, <1>2, TextualCases, Zenon
<1> HIDE DEF strict, client
<1>5. Textual(Then(c, strict)) /\ Textual(Then(c, client))
  BY <1>4, TextualCases, Zenon DEF Then
<1> DEFINE s2 == Unless(Has(rel, "\\"), "ERR_INVALID_PATH", Then(c, strict))
           s3 == Unless(IsDriveRelative(rel), "ERR_DRIVE_RELATIVE_PATH", s2)
           s4 == Unless(IsAbsolutePathLike(rel), "ERR_ABSOLUTE_PATH", s3)
           s5 == Unless(Has(rel, NUL), "ERR_NUL_BYTE", s4)
           s6 == Unless(rel = <<>>, "ERR_EMPTY_PATH", s5)
           c2 == Unless(Has(rel, "\\"), "ERR_OUTSIDE_ROOT", Then(c, client))
           c3 == Unless(NeedsRelativeMarker(rel), "ERR_DRIVE_RELATIVE_PATH", c2)
           c4 == Unless(IsAbsolutePathLike(rel), "ERR_ABSOLUTE_PATH", c3)
           c5 == Unless(Has(rel, NUL), "ERR_NUL_BYTE", c4)
<1>6. NormalizeRelative(rel) = IF rel = <<".">> THEN Ok(rel) ELSE s6
  BY Zenon DEF NormalizeRelative, c, strict
<1>7. validateRelativePath(rel) = IF rel \in {<<>>, <<".">>} THEN Ok(<<".">>) ELSE c5
  BY Zenon DEF validateRelativePath, c, client
<1>8. Textual(s2) /\ Textual(c2)
  BY <1>5, TextualCases, Zenon
<1> HIDE DEF s2, c2
<1>9. Textual(s3) /\ Textual(c3)
  BY <1>8, TextualCases, Zenon
<1> HIDE DEF s3, c3
<1>10. Textual(s4) /\ Textual(c4)
  BY <1>9, TextualCases, Zenon
<1> HIDE DEF s4, c4
<1>11. Textual(s5) /\ Textual(c5)
  BY <1>10, TextualCases, Zenon
<1> HIDE DEF s5, c5
<1>12. Textual(s6)
  BY <1>11, TextualCases, Zenon
<1> HIDE DEF s6
<1> QED
  BY <1>3, <1>6, <1>7, <1>11, <1>12, Zenon

(***************************************************************************)
(* Below the root                                                          *)
(***************************************************************************)
\* An identity p that lies at or below the identity r that normalize made under o.
Below(r, p, o) ==
  \E kind, prefix, above, below :
    /\ Made(kind, prefix, above, o) /\ below \in Seq(NamesOf(kind))
    /\ r = Whole(kind, prefix, above) /\ p = Whole(kind, prefix, above \o below)

\* An identity below another one is an identity with the same root.
LEMMA BelowIsText ==
  ASSUME NEW kind, NEW prefix, NEW above, NEW below, NEW o, Made(kind, prefix, above, o), below \in Seq(NamesOf(kind))
  PROVE  /\ RootAt(kind, prefix) /\ above \in Seq(NamesOf(kind)) /\ above \o below \in Seq(NamesOf(kind))
<1>1. RootAt(kind, prefix) /\ above \in Seq(NamesOf(kind))
  BY DEF Made
<1>2. above \o below \in Seq(NamesOf(kind))
  BY <1>1, ConcatProperties
<1> QED
  BY <1>1, <1>2

\* What normalize returned is at itself.
LEMMA NormalizedIsBelow ==
  ASSUME NEW kind, NEW prefix, NEW kept, NEW o, Made(kind, prefix, kept, o)
  PROVE  Below(Whole(kind, prefix, kept), Whole(kind, prefix, kept), o)
<1>1. kept \in Seq(NamesOf(kind))
  BY DEF Made
<1>2. kept \o <<>> = kept /\ <<>> \in Seq(NamesOf(kind))
  BY <1>1, ConcatEmptySeq
<1> QED
  BY <1>2, Zenon DEF Below

\* join stays below, for every operand.
LEMMA BelowJoin ==
  ASSUME NEW r, NEW p, NEW o, Below(r, p, o), NEW rel \in Seq(Symbols), IsOk(JoinPath(p, rel))
  PROVE  Below(r, JoinPath(p, rel).value, o)
<1>1. PICK kind, prefix, above, below :
         /\ Made(kind, prefix, above, o) /\ below \in Seq(NamesOf(kind))
         /\ r = Whole(kind, prefix, above) /\ p = Whole(kind, prefix, above \o below)
  BY Zenon DEF Below
<1>2. RootAt(kind, prefix) /\ above \in Seq(NamesOf(kind)) /\ above \o below \in Seq(NamesOf(kind))
  BY <1>1, BelowIsText
<1>3. PICK more \in Seq(NamesOf(kind)) : JoinPath(p, rel) = Ok(Whole(kind, prefix, (above \o below) \o more))
  BY <1>1, <1>2, JoinGives
<1>4. (above \o below) \o more = above \o (below \o more) /\ below \o more \in Seq(NamesOf(kind))
  <2>1. below \in Seq(NamesOf(kind))
    BY <1>1
  <2>2. (above \o below) \o more = above \o (below \o more)
    BY <1>2, <2>1, ConcatAssociative, SMTT(30)
  <2> QED
    BY <2>1, <2>2, ConcatProperties
<1>5. JoinPath(p, rel).value = Whole(kind, prefix, above \o (below \o more))
  BY <1>3, <1>4, Outcomes, Zenon
<1> QED
  BY <1>1, <1>4, <1>5, Zenon DEF Below

\* relative returns the names below the root, when the root is absolute.
LEMMA RelativeOf ==
  ASSUME NEW kind, NEW prefix, RootAt(kind, prefix), NEW above \in Seq(NamesOf(kind)), NEW below \in Seq(NamesOf(kind))
  PROVE  LET rel == Relative(Whole(kind, prefix, above), Whole(kind, prefix, above \o below))
         IN /\ kind = "relative" => ~IsOk(rel)
            /\ kind # "relative" => rel = Ok(MarkRelative(Joined(below)))
<1> DEFINE r == Whole(kind, prefix, above)
           ps == above \o below
           p == Whole(kind, prefix, ps)
<1>0. ps \in Seq(NamesOf(kind))
  BY ConcatAt
<1>1. CASE kind = "relative"
  <2>1. ~IsOk(CanonicalParts(r))
    BY <1>1, WholeIsCanonical
  <2> HIDE DEF r, p
  <2>2. Relative(r, p) = CanonicalParts(r)
    BY <2>1, Zenon DEF Relative, Then
  <2> QED
    BY <1>1, <2>1, <2>2, Zenon DEF r, p, ps
<1>2. CASE kind # "relative"
  <2> DEFINE x == [prefix |-> prefix, parts |-> above]
             y == [prefix |-> prefix, parts |-> ps]
  <2> HIDE DEF ps
  <2>1. CanonicalParts(r) = Ok(x) /\ CanonicalParts(p) = Ok(y)
    BY <1>0, <1>2, WholeIsCanonical
  <2>2. x.prefix = y.prefix /\ x.parts = above /\ y.parts = ps
    OBVIOUS
  <2> HIDE DEF x, y, r, p
  <2>3. IsOk(CanonicalParts(r)) /\ CanonicalParts(r).value = x /\ IsOk(CanonicalParts(p)) /\ CanonicalParts(p).value = y
    BY <2>1, Outcomes
  <2>4. Relative(r, p) = Unless(x.prefix # y.prefix \/ ~StartsWith(y.parts, x.parts), "ERR_OUTSIDE_ROOT",
          Ok(MarkRelative(Joined(From(y.parts, Len(x.parts) + 1)))))
    BY <2>3, Zenon DEF Relative, Then
  <2>5. StartsWith(ps, above) /\ From(ps, Len(above) + 1) = below
    BY StartsWithConcat DEF ps
  <2>6. Relative(r, p) = Ok(MarkRelative(Joined(below)))
    BY <2>2, <2>4, <2>5, Zenon DEF Unless
  <2> QED
    BY <1>2, <2>6, Zenon DEF r, p, ps
<1> QED
  BY <1>1, <1>2

\* relative succeeds below an absolute root, and join undoes it.
LEMMA BelowRelative ==
  ASSUME NEW r, NEW p, NEW o, Below(r, p, o)
  PROVE  /\ IsOk(CanonicalParts(r)) => IsOk(Relative(r, p))
         /\ IsOk(Relative(r, p)) => JoinPath(r, Relative(r, p).value) = Ok(p)
<1>1. PICK kind, prefix, above, below :
         /\ Made(kind, prefix, above, o) /\ below \in Seq(NamesOf(kind))
         /\ r = Whole(kind, prefix, above) /\ p = Whole(kind, prefix, above \o below)
  BY Zenon DEF Below
<1>2. RootAt(kind, prefix) /\ above \in Seq(NamesOf(kind)) /\ above \o below \in Seq(NamesOf(kind))
  BY <1>1, BelowIsText
<1>3. below \in Seq(NamesOf(kind)) /\ above \in Seq(NamesOf(kind)) /\ RootAt(kind, prefix)
  BY <1>1, <1>2
<1>4. /\ kind = "relative" => ~IsOk(Relative(r, p))
      /\ kind # "relative" => Relative(r, p) = Ok(MarkRelative(Joined(below)))
  BY <1>1, <1>3, RelativeOf
<1>5. CASE kind = "relative"
  <2>1. ~IsOk(CanonicalParts(r))
    BY <1>1, <1>3, <1>5, WholeIsCanonical
  <2> QED
    BY <1>4, <1>5, <2>1, Zenon
<1>6. CASE kind # "relative"
  <2>1. IsOk(Relative(r, p)) /\ Relative(r, p).value = MarkRelative(Joined(below))
    BY <1>4, <1>6, Outcomes
  <2>2. JoinPath(Whole(kind, prefix, above), MarkRelative(Joined(below))) = Ok(Whole(kind, prefix, above \o below))
    BY <1>3, JoinRelative
  <2> QED
    BY <1>1, <2>1, <2>2, Zenon
<1> QED
  BY <1>5, <1>6

\* A made name, joined to the path.
Extended(p, c) == Then(c, LAMBDA x : JoinPath(p, x))

\* A name made from a text stays below like any other operand.
LEMMA BelowNamed ==
  ASSUME NEW r, NEW p, NEW o, Below(r, p, o), NEW c, Textual(c), IsOk(Extended(p, c))
  PROVE  Below(r, Extended(p, c).value, o)
<1>1. IsOk(c)
  BY Zenon DEF Extended, Then
<1>2. Extended(p, c) = JoinPath(p, c.value)
  BY <1>1, Zenon DEF Extended, Then
<1>3. c.value \in Seq(Symbols)
  BY <1>1, Zenon DEF Textual
<1> QED
  BY <1>2, <1>3, BelowJoin

(***************************************************************************)
(* Reading an identity again                                               *)
(***************************************************************************)
\* What a text that the host part hands on is normalized to, when the text
\* denotes the identity w: w itself, or a refusal by the component policy.
LEMMA HandedOn ==
  ASSUME NEW kind, NEW prefix, RootAt(kind, prefix), NEW ps \in Seq(NamesOf(kind)), NEW o, NEW text, NEW x,
         text # <<>>, ~Has(text, NUL), ~o.trimOuterWhitespace, IsOk(NormalizeMountRoot(o.mountRoot)),
         Accepts(o.targetProfile, kind), HostValue(text, o) = Ok(x),
         NEW S, NEW rest \in Seq(S), SplitRoot(x) = Ok(Root(kind, prefix, rest)),
         CleanCanonical(x) = Ok(Whole(kind, prefix, ps))
  PROVE  /\ Allowed(rest, o) => Normalize(text, o) = Ok(Whole(kind, prefix, ps))
         /\ ~Allowed(rest, o) => Normalize(text, o).code \in PolicyErrors
<1> DEFINE w == Whole(kind, prefix, ps)
<1>1. ValidateTargetProfile(w, o.targetProfile) = Ok(w)
  <2>1. SplitRoot(w) = Ok(Root(kind, prefix, RestOf(kind, prefix, ps)))
    BY WholeIsCanonical
  <2> HIDE DEF w
  <2> QED
    BY <2>1, ProfileMeans
<1> HIDE DEF w
<1>2. Allowed(rest, o) => ValidateWindowsPolicy(x, o) = Ok(x)
  BY PolicyMeans
<1>3. ~Allowed(rest, o) => ValidateWindowsPolicy(x, o).code \in PolicyErrors
  BY PolicyMeans
<1>4. Allowed(rest, o) => Normalize(text, o) = Ok(w)
  <2> SUFFICES ASSUME Allowed(rest, o) PROVE Normalize(text, o) = Ok(w)
    OBVIOUS
  <2>1. ValidateWindowsPolicy(x, o) = Ok(x)
    BY <1>2
  <2>2. CleanCanonical(x) = Ok(w)
    BY DEF w
  <2> QED
    BY <1>1, <2>1, <2>2, NormalizeIs
<1>5. ~Allowed(rest, o) => Normalize(text, o).code \in PolicyErrors
  <2> SUFFICES ASSUME ~Allowed(rest, o) PROVE Normalize(text, o).code \in PolicyErrors
    OBVIOUS
  <2>1. ~IsOk(ValidateWindowsPolicy(x, o))
    BY <1>3 DEF PolicyErrors, IsOk
  <2>2. Normalize(text, o) = ValidateWindowsPolicy(x, o)
    BY <2>1, NormalizeIs
  <2> QED
    BY <1>3, <2>2
<1> QED
  BY <1>4, <1>5 DEF w

\* An identity has no NUL.
LEMMA NoNul ==
  ASSUME NEW kind, NEW v \in Seq(Alphabet(kind))
  PROVE  ~Has(v, NUL)
BY Signs, HasMeans

\* An identity is read again as it is, or a policy refuses it.
LEMMA ReadAgain ==
  ASSUME NEW kind, NEW prefix, RootAt(kind, prefix), NEW ps \in Seq(NamesOf(kind)), NEW o,
         ~o.trimOuterWhitespace, IsOk(NormalizeMountRoot(o.mountRoot)), Accepts(o.targetProfile, kind),
         o.sourceHost = "canonical" \/ (o.sourceHost = "posix" /\ ~o.wslEnabled /\ kind \in {"posix", "relative"})
  PROVE  LET w == Whole(kind, prefix, ps)
         IN /\ AllowedNames(ps, o) => Normalize(w, o) = Ok(w)
            /\ Normalize(w, o) = Ok(w) \/ Normalize(w, o).code \in PolicyErrors
<1> DEFINE w == Whole(kind, prefix, ps)
           rest == RestOf(kind, prefix, ps)
           S == Alphabet(kind)
<1>1. w \in Seq(S) /\ w # <<>> /\ rest \in Seq(S)
  <2>1. w \in Seq(S) /\ w # <<>>
    BY WholeText
  <2>2. Joined(ps) \in Seq(S)
    BY Signs, ReadsJoined DEF NamesOf
  <2> QED
    BY <2>1, <2>2, Zenon DEF RestOf
<1>2. SplitRoot(w) = Ok(Root(kind, prefix, rest)) /\ CleanCanonical(w) = Ok(w)
  BY WholeIsCanonical
<1>3. AllowedNames(ps, o) => Allowed(rest, o) /\ (kind = "relative" => Allowed(<<".", "/">> \o w, o))
  BY TextAllowed
<1>4. ~Has(w, NUL)
  BY <1>1, NoNul
<1>5. ASSUME HostValue(w, o) = Ok(w)
      PROVE  /\ Allowed(rest, o) => Normalize(w, o) = Ok(w)
             /\ ~Allowed(rest, o) => Normalize(w, o).code \in PolicyErrors
  <2> HIDE DEF rest
  <2> QED
    BY <1>1, <1>2, <1>4, <1>5, HandedOn
<1>6. CASE o.sourceHost = "canonical"
  <2>1. "canonical" # "posix"
    OBVIOUS
  <2>2. HostValue(w, o) = Ok(w)
    BY <1>6, <2>1, Zenon DEF HostValue
  <2> QED
    BY <1>3, <1>5, <2>2
<1>7. CASE o.sourceHost = "posix" /\ ~o.wslEnabled /\ kind = "posix"
  <2>1. prefix = <<"/">>
    BY <1>7 DEF RootAt
  <2>2. NativePOSIXRepresentation(w) = Ok(w)
    <3>1. ps \in Seq(NamesOf("posix")) /\ w = Whole("posix", <<"/">>, ps)
      BY <1>7, <2>1
    <3> HIDE DEF w
    <3> QED
      BY <3>1, NativeOfPosix
  <2>3. HostValue(w, o) = Ok(w)
    BY <1>7, <2>2, Zenon DEF HostValue, Unless
  <2> QED
    BY <1>3, <1>5, <2>3
<1>8. CASE o.sourceHost = "posix" /\ ~o.wslEnabled /\ kind = "relative"
  <2> DEFINE u == <<".", "/">> \o w
  <2>1. prefix = <<>>
    BY <1>8 DEF RootAt
  <2>2. ps \in Seq(NamesOf("relative")) /\ w = Whole("relative", <<>>, ps)
    BY <1>8, <2>1
  <2>3. /\ NativePOSIXRepresentation(w) = Ok(u) /\ Denotes(u, "relative", <<>>, ps)
        /\ SplitRoot(u) = Ok(Root("relative", <<>>, u)) /\ u \in Seq(Alphabet("relative"))
    <3> HIDE DEF w
    <3> QED
      BY <2>2, NativeOfRelative
  <2> HIDE DEF u
  <2>4. CleanCanonical(u) = Ok(w)
    <3>1. CleanCanonical(u) = Ok(Whole("relative", <<>>, ps))
      BY <2>3, DenotesClean
    <3> QED
      BY <2>2, <3>1, Zenon
  <2>5. HostValue(w, o) = Ok(u)
    BY <1>8, <2>3, Zenon DEF HostValue, Unless
  <2>6. SplitRoot(u) = Ok(Root(kind, prefix, u)) /\ u \in Seq(S)
    BY <1>8, <2>1, <2>3, Zenon
  <2>7. /\ Allowed(u, o) => Normalize(w, o) = Ok(w)
        /\ ~Allowed(u, o) => Normalize(w, o).code \in PolicyErrors
    BY <1>1, <1>4, <2>4, <2>5, <2>6, HandedOn
  <2> QED
    BY <1>3, <1>8, <2>7 DEF u
<1> QED
  BY <1>6, <1>7, <1>8

\* The default mount is a mount.
LEMMA NoMount ==
  \E m : NormalizeMountRoot(<<>>) = Ok(m) /\ IsOk(NormalizeMountRoot(<<>>))
<1>1. NormalizeMountRoot(<<>>) = Ok(<<"/", "mnt">>)
  BY Zenon DEF NormalizeMountRoot
<1> QED
  BY <1>1, Outcomes, Zenon

\* What a stored identity is read back as.
LEMMA BelowReload ==
  ASSUME NEW r, NEW p, NEW o \in OptionRecords, Below(r, p, o), o.sourceHost \in {"canonical", "posix"}
  PROVE  LET again == [o EXCEPT !.trimOuterWhitespace = FALSE]
         IN Normalize(p, again) = Ok(p) \/ (p # r /\ Normalize(p, again).code \in PolicyErrors)
<1> DEFINE again == [o EXCEPT !.trimOuterWhitespace = FALSE]
<1>1. PICK kind, prefix, above, below :
         /\ Made(kind, prefix, above, o) /\ below \in Seq(NamesOf(kind))
         /\ r = Whole(kind, prefix, above) /\ p = Whole(kind, prefix, above \o below)
  BY Zenon DEF Below
<1>2. RootAt(kind, prefix) /\ above \in Seq(NamesOf(kind)) /\ above \o below \in Seq(NamesOf(kind))
  BY <1>1, BelowIsText
<1>3. /\ ~again.trimOuterWhitespace /\ again.mountRoot = o.mountRoot /\ again.targetProfile = o.targetProfile
      /\ again.sourceHost = o.sourceHost /\ again.wslEnabled = o.wslEnabled
      /\ again.rejectADS = o.rejectADS /\ again.rejectDeviceNames = o.rejectDeviceNames
  BY DEF OptionRecords
<1> HIDE DEF again
<1>4. /\ IsOk(NormalizeMountRoot(again.mountRoot)) /\ Accepts(again.targetProfile, kind)
      /\ again.sourceHost = "canonical"
         \/ (again.sourceHost = "posix" /\ ~again.wslEnabled /\ kind \in {"posix", "relative"})
  BY <1>1, <1>3 DEF Made
<1>5. AllowedNames(above, again)
  BY <1>1, <1>3 DEF Made, AllowedNames
<1>6. \A ps \in Seq(NamesOf(kind)) :
        /\ AllowedNames(ps, again) => Normalize(Whole(kind, prefix, ps), again) = Ok(Whole(kind, prefix, ps))
        /\ \/ Normalize(Whole(kind, prefix, ps), again) = Ok(Whole(kind, prefix, ps))
           \/ Normalize(Whole(kind, prefix, ps), again).code \in PolicyErrors
  BY <1>2, <1>3, <1>4, ReadAgain
<1>7. Normalize(r, again) = Ok(r)
  BY <1>1, <1>2, <1>5, <1>6, Zenon
<1>8. Normalize(p, again) = Ok(p) \/ Normalize(p, again).code \in PolicyErrors
  BY <1>1, <1>2, <1>6, Zenon
<1> QED
  BY <1>7, <1>8, Zenon DEF again

\* An identity read in canonical mode is the same identity.
LEMMA BelowCanonical ==
  ASSUME NEW r, NEW p, NEW o, Below(r, p, o)
  PROVE  Normalize(p, CanonicalHost) = Ok(p)
<1>1. PICK kind, prefix, above, below :
         /\ Made(kind, prefix, above, o) /\ below \in Seq(NamesOf(kind))
         /\ r = Whole(kind, prefix, above) /\ p = Whole(kind, prefix, above \o below)
  BY Zenon DEF Below
<1>2. RootAt(kind, prefix) /\ above \o below \in Seq(NamesOf(kind))
  BY <1>1, BelowIsText
<1>3. /\ ~CanonicalHost.trimOuterWhitespace /\ CanonicalHost.mountRoot = <<>>
      /\ CanonicalHost.targetProfile = "portable" /\ CanonicalHost.sourceHost = "canonical"
      /\ ~CanonicalHost.rejectADS /\ ~CanonicalHost.rejectDeviceNames
  BY DEF CanonicalHost
<1> DEFINE o2 == CanonicalHost
           ps == above \o below
<1> HIDE DEF o2, ps
<1>4. IsOk(NormalizeMountRoot(o2.mountRoot)) /\ Accepts(o2.targetProfile, kind)
  BY <1>3, NoMount DEF Accepts, o2
<1>5. AllowedNames(ps, o2)
  BY <1>3 DEF AllowedNames, o2
<1>6. ~o2.trimOuterWhitespace /\ o2.sourceHost = "canonical"
  BY <1>3 DEF o2
<1>7. ps \in Seq(NamesOf(kind))
  BY <1>2 DEF ps
<1>8. Normalize(Whole(kind, prefix, ps), o2) = Ok(Whole(kind, prefix, ps))
  BY <1>2, <1>4, <1>5, <1>6, <1>7, ReadAgain
<1> QED
  BY <1>1, <1>8, Zenon DEF o2, ps

(***************************************************************************)
(* POSIX and Windows hosts and back                                        *)
(***************************************************************************)
\* An identity written for a POSIX host is read back as the same identity.
LEMMA BelowPOSIX ==
  ASSUME NEW r, NEW p, NEW o, Below(r, p, o), IsOk(ToPOSIX(p))
  PROVE  Normalize(ToPOSIX(p).value, PosixHost) = Ok(p)
<1>1. PICK kind, prefix, above, below :
         /\ Made(kind, prefix, above, o) /\ below \in Seq(NamesOf(kind))
         /\ r = Whole(kind, prefix, above) /\ p = Whole(kind, prefix, above \o below)
  BY Zenon DEF Below
<1>2. RootAt(kind, prefix) /\ above \o below \in Seq(NamesOf(kind))
  BY <1>1, BelowIsText
<1> DEFINE o2 == PosixHost
           ps == above \o below
<1>3. /\ ~o2.trimOuterWhitespace /\ o2.mountRoot = <<>> /\ ~o2.wslEnabled
      /\ o2.targetProfile = "portable" /\ o2.sourceHost = "posix"
      /\ ~o2.rejectADS /\ ~o2.rejectDeviceNames
  BY DEF CanonicalHost, PosixHost
<1> HIDE DEF o2, ps
<1>4. p = Whole(kind, prefix, ps) /\ ps \in Seq(NamesOf(kind))
  BY <1>1, <1>2 DEF ps
<1>5. ValidateCanonical(p, FALSE) = Ok(Root(kind, prefix, RestOf(kind, prefix, ps)))
  BY <1>2, <1>4, WholeIsCanonical
<1>6. ToPOSIX(p) = Unless(IsWindowsRoot(kind), "ERR_INVALID_PATH", Ok(p))
  <2> DEFINE x == Root(kind, prefix, RestOf(kind, prefix, ps))
  <2>1. IsOk(ValidateCanonical(p, FALSE)) /\ ValidateCanonical(p, FALSE).value = x /\ x.kind = kind
    BY <1>5, Outcomes
  <2> HIDE DEF x
  <2> QED
    BY <2>1, Zenon DEF ToPOSIX, Then
<1>7. ToPOSIX(p) = Ok(p) /\ kind \in {"posix", "relative"}
  <2>1. ~IsOk(Err("ERR_INVALID_PATH"))
    BY Outcomes
  <2>2. ~IsWindowsRoot(kind) /\ ToPOSIX(p) = Ok(p)
    BY <1>6, <2>1, Zenon DEF Unless
  <2> QED
    BY <2>2 DEF IsWindowsRoot
<1>8. IsOk(NormalizeMountRoot(o2.mountRoot)) /\ Accepts(o2.targetProfile, kind) /\ AllowedNames(ps, o2)
  BY <1>3, NoMount DEF Accepts, AllowedNames
<1>9. Normalize(Whole(kind, prefix, ps), o2) = Ok(Whole(kind, prefix, ps))
  BY <1>2, <1>3, <1>4, <1>7, <1>8, ReadAgain
<1> QED
  BY <1>4, <1>7, <1>9, Outcomes, Zenon DEF o2

(* Separators turned one way and the other.                                *)
\* What exchanging the two slashes does to a text.
LEMMA SlashesMean ==
  ASSUME NEW S, {"/", "\\"} \subseteq S, NEW s \in Seq(S)
  PROVE  /\ Slashed(s) \in Seq(S) /\ Len(Slashed(s)) = Len(s)
         /\ \A i \in 1 .. Len(s) : Slashed(s)[i] = IF s[i] = "\\" THEN "/" ELSE s[i]
         /\ Backslashed(s) \in Seq(S) /\ Len(Backslashed(s)) = Len(s)
         /\ \A i \in 1 .. Len(s) : Backslashed(s)[i] = IF s[i] = "/" THEN "\\" ELSE s[i]
<1>1. Len(s) \in Nat /\ DOMAIN s = 1 .. Len(s) /\ \A i \in 1 .. Len(s) : s[i] \in S
  OBVIOUS
<1> DEFINE f == [i \in 1 .. Len(s) |-> IF s[i] = "\\" THEN "/" ELSE s[i]]
           g == [i \in 1 .. Len(s) |-> IF s[i] = "/" THEN "\\" ELSE s[i]]
<1>2. Slashed(s) = f /\ Backslashed(s) = g
  BY <1>1, Zenon DEF Slashed, Backslashed, Mapped
<1>3. f \in Seq(S) /\ Len(f) = Len(s) /\ \A i \in 1 .. Len(s) : f[i] = IF s[i] = "\\" THEN "/" ELSE s[i]
  BY <1>1
<1>4. g \in Seq(S) /\ Len(g) = Len(s) /\ \A i \in 1 .. Len(s) : g[i] = IF s[i] = "/" THEN "\\" ELSE s[i]
  BY <1>1
<1> HIDE DEF f, g
<1> QED
  BY <1>2, <1>3, <1>4, Zenon

\* A text without backslash comes back from Windows separators.
LEMMA SlashesBack ==
  ASSUME NEW S, {"/", "\\"} \subseteq S, NEW t \in Seq(S), ~Has(t, "\\")
  PROVE  Slashed(Backslashed(t)) = t
<1>1. \A i \in 1 .. Len(t) : t[i] # "\\"
  BY HasMeans
<1> DEFINE b == Backslashed(t)
           s == Slashed(b)
<1>2. b \in Seq(S) /\ Len(b) = Len(t) /\ \A i \in 1 .. Len(t) : b[i] = IF t[i] = "/" THEN "\\" ELSE t[i]
  BY SlashesMean
<1> HIDE DEF b
<1>3. s \in Seq(S) /\ Len(s) = Len(b) /\ \A i \in 1 .. Len(b) : s[i] = IF b[i] = "\\" THEN "/" ELSE b[i]
  BY <1>2, SlashesMean
<1> HIDE DEF s
<1>4. \A i \in 1 .. Len(s) : s[i] = t[i]
  BY <1>1, <1>2, <1>3
<1>5. s = t
  BY <1>2, <1>3, <1>4, SeqEqual
<1> QED
  BY <1>5 DEF s, b

\* Separators are exchanged part by part.
LEMMA SlashedConcat ==
  ASSUME NEW S, {"/", "\\"} \subseteq S, NEW a \in Seq(S), NEW b \in Seq(S)
  PROVE  Slashed(a \o b) = Slashed(a) \o Slashed(b)
<1> DEFINE v == a \o b
           x == Slashed(a)
           y == Slashed(b)
           s == Slashed(v)
           t == x \o y
<1>1. v \in Seq(S) /\ Len(v) = Len(a) + Len(b) /\ Len(a) \in Nat /\ Len(b) \in Nat
      /\ \A i \in 1 .. Len(a) + Len(b) : v[i] = IF i <= Len(a) THEN a[i] ELSE b[i - Len(a)]
  BY ConcatProperties
<1>2. x \in Seq(S) /\ Len(x) = Len(a) /\ \A i \in 1 .. Len(a) : x[i] = IF a[i] = "\\" THEN "/" ELSE a[i]
  BY SlashesMean
<1>3. y \in Seq(S) /\ Len(y) = Len(b) /\ \A i \in 1 .. Len(b) : y[i] = IF b[i] = "\\" THEN "/" ELSE b[i]
  BY SlashesMean
<1> HIDE DEF v, x, y
<1>4. s \in Seq(S) /\ Len(s) = Len(v) /\ \A i \in 1 .. Len(v) : s[i] = IF v[i] = "\\" THEN "/" ELSE v[i]
  BY <1>1, SlashesMean
<1>5. /\ t \in Seq(S) /\ Len(t) = Len(x) + Len(y)
      /\ \A i \in 1 .. Len(x) : t[i] = x[i]
      /\ \A i \in 1 .. Len(y) : t[Len(x) + i] = y[i]
  <2>1. x \in Seq(S) /\ y \in Seq(S)
    BY <1>2, <1>3
  <2> QED
    BY <2>1, ConcatAt
<1> HIDE DEF s, t
<1>6. ASSUME NEW i \in 1 .. Len(s) PROVE s[i] = t[i]
  <2>0. i \in 1 .. Len(a) + Len(b) /\ Len(a) \in Nat /\ Len(b) \in Nat
    BY <1>1, <1>4
  <2>1. CASE i <= Len(a)
    <3>1. i \in 1 .. Len(a) /\ v[i] = a[i]
      BY <1>1, <2>0, <2>1
    <3>2. t[i] = x[i]
      BY <1>2, <1>5, <3>1
    <3> QED
      BY <1>1, <1>2, <1>4, <3>1, <3>2
  <2>2. CASE ~(i <= Len(a))
    <3>1. i - Len(a) \in 1 .. Len(b) /\ v[i] = b[i - Len(a)]
      BY <1>1, <2>0, <2>2
    <3> DEFINE k == i - Len(a)
    <3>2. k \in 1 .. Len(b) /\ v[i] = b[k] /\ i = Len(a) + k
      BY <2>0, <3>1
    <3> HIDE DEF k
    <3>3. t[i] = y[k]
      BY <1>2, <1>3, <1>5, <3>2
    <3>4. s[i] = IF b[k] = "\\" THEN "/" ELSE b[k]
      BY <1>4, <3>2
    <3> QED
      BY <1>3, <3>2, <3>3, <3>4
  <2> QED
    BY <2>1, <2>2
<1>7. s = t
  BY <1>1, <1>2, <1>3, <1>4, <1>5, <1>6, SeqEqual
<1> QED
  BY <1>7 DEF s, t, v, x, y

\* A text without a slash, or one that starts with one, has no URI scheme.
LEMMA NoScheme ==
  ASSUME NEW S, NEW h \in Seq(S), (\A i \in 1 .. Len(h) : h[i] # "/") \/ (h # <<>> /\ h[1] = "/")
  PROVE  ~HasUriScheme(h)
<1> SUFFICES ASSUME NEW i \in 2 .. Len(h) - 2, SubSeq(h, i, i + 2) = <<":", "/", "/">>, IsSchemeText(SubSeq(h, 1, i - 1))
             PROVE FALSE
  BY Zenon DEF HasUriScheme
<1>1. Len(h) \in Nat /\ i \in Nat /\ i >= 2 /\ i + 2 <= Len(h)
  OBVIOUS
<1>2. CASE \A j \in 1 .. Len(h) : h[j] # "/"
  <2>1. \A j \in 1 .. (i + 2) - i + 1 : SubSeq(h, i, i + 2)[j] = h[i + j - 1]
    <3>1. i \in Nat \ {0} /\ i + 2 \in Nat /\ i + 2 <= Len(h)
      BY <1>1
    <3> QED
      BY <3>1, PartType
  <2>2. SubSeq(h, i, i + 2)[2] = h[i + 1]
    BY <1>1, <2>1
  <2> DEFINE w == SubSeq(h, i, i + 2)
  <2>4. w = <<":", "/", "/">> /\ w[2] = h[i + 1]
    BY <2>2
  <2> HIDE DEF w
  <2>3. h[i + 1] = "/"
    BY <2>4
  <2> QED
    BY <1>1, <1>2, <2>3
<1>3. CASE h # <<>> /\ h[1] = "/"
  <2> DEFINE s == SubSeq(h, 1, i - 1)
  <2>1. s \in Seq(S) /\ Len(s) = i - 1 /\ \A j \in 1 .. i - 1 : s[j] = h[j]
    <3>1. 1 \in Nat \ {0} /\ i - 1 \in Nat /\ i - 1 <= Len(h) /\ 1 <= i - 1
      BY <1>1
    <3>2. /\ SubSeq(h, 1, i - 1) \in Seq(S)
          /\ Len(SubSeq(h, 1, i - 1)) = IF 1 <= i - 1 THEN (i - 1) - 1 + 1 ELSE 0
          /\ \A j \in 1 .. (i - 1) - 1 + 1 : SubSeq(h, 1, i - 1)[j] = h[1 + j - 1]
      BY <3>1, PartType
    <3> HIDE DEF s
    <3> QED
      BY <1>1, <3>1, <3>2 DEF s
  <2> HIDE DEF s
  <2>2. 1 \in DOMAIN s /\ s[1] = "/"
    BY <1>1, <1>3, <2>1
  <2>3. IsSchemeText(s)
    BY DEF s
  <2> QED
    BY <2>2, <2>3, Zenon DEF IsSchemeText
<1> QED
  BY <1>2, <1>3

\* Only a POSIX root can be a drive path of a URI.
LEMMA NoUriDrive ==
  ASSUME NEW S, {"/", "?"} \subseteq S, NEW v \in Seq(S), NEW kind, NEW prefix, NEW rest,
         ParsedRoot(v) = Ok(Root(kind, prefix, rest)), kind # "posix"
  PROVE  ~IsUriWindowsDrivePath(v)
<1> SUFFICES ASSUME IsUriWindowsDrivePath(v) PROVE FALSE
  OBVIOUS
<1>1. StartsWith(v, <<"/">>) /\ HasDriveRoot(Tail(v))
  BY Zenon DEF IsUriWindowsDrivePath
<1> DEFINE p == <<"/">>
           t == From(v, 2)
<1>2. p \in Seq(S) /\ Len(p) + 1 = 2 /\ Len(p) = 1
  OBVIOUS
<1>3. v = p \o t /\ t \in Seq(S)
  <2> HIDE DEF p, t
  <2>1. v = p \o From(v, Len(p) + 1) /\ From(v, Len(p) + 1) \in Seq(S)
    BY <1>1, <1>2, StartsWithGives DEF p
  <2> QED
    BY <1>2, <2>1 DEF t
<1>4. Len(p) <= Len(v)
  BY <1>1, <1>2, StartsWithMeans
<1>5. Tail(v) = t
  <2>1. v # <<>>
    BY <1>2, <1>4
  <2> QED
    BY <2>1, TailIsSubSeq DEF From
<1> HIDE DEF t
<1>6. Len(t) >= 3 /\ t[1] \in Letters
  BY <1>1, <1>3, <1>5, DriveRootMeans
<1>7. t # <<>> => t[1] # "/"
  BY <1>6, Signs
<1>8. ParsedRoot(<<"/">> \o t) = Ok(Root("posix", <<"/">>, t))
  BY <1>3, <1>7, ParsedPosix
<1>9. Ok(Root("posix", <<"/">>, t)) = Ok(Root(kind, prefix, rest))
  BY <1>3, <1>8, Zenon DEF p
<1> QED
  BY <1>9 DEF Ok, Root

\* A text in Windows syntax, read with the options for a Windows host.
LEMMA ReadFromWindows ==
  ASSUME NEW kind, NEW prefix, NEW ps, kind # "posix", NEW h \in Seq(Symbols \ {NUL, "/"}), h # <<>>,
         Denotes(Slashed(h), kind, prefix, ps)
  PROVE  Normalize(h, Win32Host) = Ok(Whole(kind, prefix, ps))
<1> DEFINE s == Slashed(h)
           o == Win32Host
           w == Whole(kind, prefix, ps)
<1>1. /\ ~o.trimOuterWhitespace /\ o.mountRoot = <<>> /\ ~o.wslEnabled
      /\ o.targetProfile = "portable" /\ o.sourceHost = "auto"
      /\ ~o.rejectADS /\ ~o.rejectDeviceNames /\ o.preserveExtendedLength
  BY DEF CanonicalHost, AnyHost, Win32Host
<1> HIDE DEF o, s
<1>2. PICK rest \in Seq(Alphabet(kind)) :
        /\ SplitRoot(s) = Ok(Root(kind, prefix, rest))
        /\ rest = IF kind = "relative" THEN s ELSE Joined(ps)
  BY DenotesRoot DEF s
<1>3. CleanCanonical(s) = Ok(w) /\ RootAt(kind, prefix) /\ ps \in Seq(NamesOf(kind))
  BY DenotesClean DEF s, Denotes
<1>4. ~IsUriWindowsDrivePath(s)
  <2>1. s \in Seq(Alphabet(kind)) /\ \E x : ParsedRoot(s) = Ok(Root(kind, prefix, x))
    BY DEF s, Denotes
  <2>2. {"/", "?"} \subseteq Alphabet(kind)
    BY Signs
  <2> QED
    BY <2>1, <2>2, NoUriDrive
<1>5. ~HasUriScheme(h) /\ ~Has(h, NUL)
  <2> DEFINE S == Symbols \ {NUL, "/"}
  <2>1. h \in Seq(S) /\ "/" \notin S /\ NUL \notin S
    OBVIOUS
  <2> HIDE DEF S
  <2>2. \A i \in 1 .. Len(h) : h[i] # "/"
    BY <2>1
  <2> QED
    BY <2>1, <2>2, NoScheme, HasMeans
<1>6. HostValue(h, o) = Ok(s)
  <2>1. "auto" # "posix" /\ "auto" # "canonical"
    OBVIOUS
  <2>2. HostValue(h, o) = Then(Ok(h), LAMBDA value :
             IF PosixMountCandidate(value, HasUriScheme(h), o) THEN MountedValue(value, o)
             ELSE WindowsValue(value, o))
    BY <1>1, <1>5, <2>1, Zenon DEF HostValue
  <2>3. IsOk(Ok(h)) /\ Ok(h).value = h /\ IsOk(Ok(s)) /\ Ok(s).value = s
    BY Outcomes
  <2>4. ~PosixMountCandidate(h, HasUriScheme(h), o)
    BY <1>1, Zenon DEF PosixMountCandidate
  <2>5. HostValue(h, o) = WindowsValue(h, o)
    BY <2>2, <2>3, <2>4, Zenon DEF Then
  <2>6. WindowsValue(h, o) = Then(Ok(s), LAMBDA value : Ok(IF IsUriWindowsDrivePath(value) THEN Tail(value) ELSE value))
    BY <1>1, Zenon DEF WindowsValue, s
  <2>7. WindowsValue(h, o) = Ok(s)
    BY <1>4, <2>3, <2>6, Zenon DEF Then
  <2> QED
    BY <2>5, <2>7, Zenon
<1>7. IsOk(NormalizeMountRoot(o.mountRoot)) /\ Accepts(o.targetProfile, kind)
  BY <1>1, NoMount DEF Accepts
<1>8. Allowed(rest, o)
  BY <1>1 DEF Allowed
<1>9. Normalize(h, o) = Ok(Whole(kind, prefix, ps))
  BY <1>1, <1>2, <1>3, <1>5, <1>6, <1>7, <1>8, HandedOn
<1> QED
  BY <1>9 DEF o

\* Text without backslash turned to Windows separators.
LEMMA BackslashedText ==
  ASSUME NEW kind, NEW t \in Seq(Alphabet(kind)), ~Has(t, "\\")
  PROVE  /\ Backslashed(t) \in Seq(Symbols \ {NUL, "/"}) /\ Slashed(Backslashed(t)) = t
         /\ Len(Backslashed(t)) = Len(t) /\ t \in Seq(Symbols)
<1>1. {"/", "\\"} \subseteq Symbols /\ Alphabet(kind) \subseteq Symbols /\ NUL \notin Alphabet(kind) /\ "\\" # NUL /\ "\\" # "/"
  BY TextSigns, Signs DEF NUL
<1>2. t \in Seq(Symbols)
  BY <1>1, SeqMonotonic
<1> DEFINE b == Backslashed(t)
<1>3. b \in Seq(Symbols) /\ Len(b) = Len(t) /\ \A i \in 1 .. Len(t) : b[i] = IF t[i] = "/" THEN "\\" ELSE t[i]
  BY <1>1, <1>2, SlashesMean
<1>4. \A i \in 1 .. Len(t) : t[i] \in Alphabet(kind)
  OBVIOUS
<1> HIDE DEF b
<1>5. \A i \in 1 .. Len(b) : b[i] \in Symbols \ {NUL, "/"}
  BY <1>1, <1>3, <1>4
<1>6. b \in Seq(Symbols \ {NUL, "/"})
  <2> DEFINE T == Symbols \ {NUL, "/"}
             S == Symbols
  <2>1. b \in Seq(S) /\ \A i \in 1 .. Len(b) : b[i] \in T
    BY <1>3, <1>5
  <2> HIDE DEF T, S
  <2>2. b \in Seq(T)
    BY <2>1
  <2> QED
    BY <2>2 DEF T
<1>7. Slashed(b) = t
  BY <1>1, <1>2, SlashesBack DEF b
<1> QED
  BY <1>2, <1>3, <1>6, <1>7 DEF b

\* A drive letter comes back from upper case.
LEMMA LetterCase ==
  ASSUME NEW l \in LowerLetters
  PROVE  /\ Upper(l) \in Letters /\ Lower(Upper(l)) = l /\ l \in Letters /\ Lower(l) = l
         /\ Upper(l) \in Symbols \ {NUL, "/"} /\ Upper(l) # "\\"
<1>1. Upper("c") = "C" /\ Upper("d") = "D"
  BY DEF Upper
<1>2. Lower("C") = "c" /\ Lower("D") = "d" /\ Lower("c") = "c" /\ Lower("d") = "d"
  BY DEF Lower
<1>3. {"c", "d", "C", "D"} \subseteq Symbols /\ NUL \notin {"c", "d", "C", "D"}
  BY TextSigns DEF Letters, NUL
<1> QED
  BY <1>1, <1>2, <1>3 DEF LowerLetters, Letters

\* A literal start in Windows syntax, turned back.
LEMMA SlashedMarks ==
  ASSUME NEW l \in Symbols, l # "\\"
  PROVE  /\ Slashed(<<l, ":", "\\">>) = <<l, ":", "/">>
         /\ Slashed(<<"\\", "\\", "?", "\\", l, ":", "\\">>) = ExtendedMark \o <<l, ":", "/">>
<1>1. {"/", "\\"} \subseteq Symbols
  BY TextSigns
<1> DEFINE a == <<l, ":", "\\">>
           b == <<"\\", "\\", "?", "\\", l, ":", "\\">>
           c == <<l, ":", "/">>
           d == ExtendedMark \o <<l, ":", "/">>
<1>2. /\ a \in Seq(Symbols) /\ Len(a) = 3 /\ a[1] = l /\ a[2] = ":" /\ a[3] = "\\"
      /\ c \in Seq(Symbols) /\ Len(c) = 3 /\ c[1] = l /\ c[2] = ":" /\ c[3] = "/"
  BY TextSigns
<1>3. b \in Seq(Symbols) /\ Len(b) = 7 /\ b[1] = "\\" /\ b[2] = "\\" /\ b[3] = "?" /\ b[4] = "\\" /\ b[5] = l /\ b[6] = ":" /\ b[7] = "\\"
  BY TextSigns
<1>4. d \in Seq(Symbols) /\ Len(d) = 7 /\ d[1] = "/" /\ d[2] = "/" /\ d[3] = "?" /\ d[4] = "/" /\ d[5] = l /\ d[6] = ":" /\ d[7] = "/"
  BY TextSigns DEF ExtendedMark
<1> HIDE DEF a, b, c, d
<1> DEFINE x == Slashed(a)
           y == Slashed(b)
<1>5. x \in Seq(Symbols) /\ Len(x) = 3 /\ \A i \in 1 .. 3 : x[i] = IF a[i] = "\\" THEN "/" ELSE a[i]
  BY <1>1, <1>2, SlashesMean
<1>6. y \in Seq(Symbols) /\ Len(y) = 7 /\ \A i \in 1 .. 7 : y[i] = IF b[i] = "\\" THEN "/" ELSE b[i]
  BY <1>1, <1>3, SlashesMean
<1> HIDE DEF x, y
<1>7. x[1] = c[1] /\ x[2] = c[2] /\ x[3] = c[3]
  BY <1>2, <1>5
<1>8. x = c
  <2>1. \A i \in 1 .. Len(x) : x[i] = c[i]
    BY <1>2, <1>5, <1>7
  <2> QED
    BY <1>2, <1>5, <2>1, SeqEqual
<1>9. y[1] = d[1] /\ y[2] = d[2] /\ y[3] = d[3] /\ y[4] = d[4] /\ y[5] = d[5] /\ y[6] = d[6] /\ y[7] = d[7]
  BY <1>3, <1>4, <1>6
<1>10. y = d
  <2>1. \A i \in 1 .. Len(y) : y[i] = d[i]
    <3>1. \A i \in 1 .. 7 : i = 1 \/ i = 2 \/ i = 3 \/ i = 4 \/ i = 5 \/ i = 6 \/ i = 7
      OBVIOUS
    <3> QED
      BY <1>6, <1>9, <3>1
  <2> QED
    BY <1>4, <1>6, <2>1, SeqEqual
<1> QED
  BY <1>8, <1>10 DEF a, b, c, d, x, y

\* The Windows form of a drive identity denotes it.
LEMMA WindowsDrive ==
  ASSUME NEW l \in LowerLetters, NEW ps \in Seq(NamesOf("drive"))
  PROVE  LET h == <<Upper(l), ":", "\\">> \o Backslashed(Joined(ps))
         IN h \in Seq(Symbols \ {NUL, "/"}) /\ h # <<>> /\ Denotes(Slashed(h), "drive", <<l, ":", "/">>, ps)
<1> DEFINE S == Alphabet("drive")
           u == Upper(l)
           j == Joined(ps)
           a == <<u, ":", "\\">>
           b == Backslashed(j)
           h == a \o b
           T == Symbols \ {NUL, "/"}
<1>1. u \in Letters /\ Lower(u) = l /\ u \in T /\ u \in Symbols /\ u # "\\"
  BY LetterCase
<1>2. ps \in Seq(RealNames(S)) /\ "/" \in S /\ "\\" \notin S
  BY Signs DEF NamesOf, Alphabet, IsWindowsRoot
<1>3. j \in Seq(S) /\ Reads(j, ps) /\ ~Has(j, "\\")
  <2>1. j \in Seq(S) /\ Reads(j, ps)
    BY <1>2, ReadsJoined
  <2> HIDE DEF S, j
  <2> QED
    BY <1>2, <2>1, HasMeans
<1> HIDE DEF j, u
<1>4. b \in Seq(T) /\ Slashed(b) = j
  BY <1>3, BackslashedText
<1>5. a \in Seq(T) /\ a # <<>> /\ Len(a) = 3
  <2>1. ":" \in T /\ "\\" \in T
    BY TextSigns DEF NUL
  <2> HIDE DEF T
  <2> QED
    BY <1>1, <2>1
<1>6. a \in Seq(Symbols) /\ b \in Seq(Symbols)
  BY <1>4, <1>5, SeqMonotonic
<1> HIDE DEF b, a, T
<1>7. h \in Seq(T) /\ h # <<>>
  BY <1>4, <1>5, ConcatProperties, ConcatEqualIffEmpty
<1>8. Slashed(h) = Slashed(a) \o Slashed(b)
  <2>1. {"/", "\\"} \subseteq Symbols
    BY TextSigns
  <2> QED
    BY <1>6, <2>1, SlashedConcat
<1>9. Slashed(a) = <<u, ":", "/">>
  BY <1>1, SlashedMarks DEF a
<1> DEFINE s == <<u, ":", "/">> \o j
<1>10. Slashed(h) = s
  BY <1>4, <1>8, <1>9, Zenon
<1> HIDE DEF h
<1>11. ParsedRoot(s) = Ok(Root("drive", <<l, ":", "/">>, j))
  <2>1. {"/", "?", ":", "UNC"} \cup Letters \subseteq S
    BY Signs
  <2>2. ParsedRoot(<<u, ":", "/">> \o j) = Ok(Root("drive", <<Lower(u), ":", "/">>, j))
    BY <1>1, <1>3, <2>1, ParsedDrive
  <2> QED
    BY <1>1, <2>2, Zenon
<1>12. s \in Seq(S) /\ s # <<>>
  <2>1. u \in S /\ ":" \in S /\ "/" \in S
    BY <1>1, Signs
  <2> HIDE DEF S
  <2> DEFINE c == <<u, ":", "/">>
  <2>2. c \in Seq(S) /\ c # <<>>
    BY <2>1
  <2> HIDE DEF c
  <2>3. c \o j \in Seq(S) /\ c \o j # <<>>
    BY <1>3, <2>2, ConcatProperties, ConcatEqualIffEmpty
  <2> QED
    BY <2>3 DEF c
<1>13. Denotes(s, "drive", <<l, ":", "/">>, ps)
  <2>1. RootAt("drive", <<l, ":", "/">>)
    BY DEF RootAt
  <2>2. j = IF "drive" = "relative" THEN s ELSE Joined(ps)
    BY DEF j
  <2> HIDE DEF s
  <2> QED
    BY <1>3, <1>11, <1>12, <2>1, <2>2 DEF Denotes, S
<1> QED
  BY <1>7, <1>10, <1>13, Zenon DEF h, a, b, u, j, T

\* A drive in extended Windows syntax denotes the drive under the extended mark.
LEMMA WindowsExtendedDrive ==
  ASSUME NEW l \in LowerLetters, NEW ps \in Seq(NamesOf("extended-drive"))
  PROVE  LET h == <<"\\", "\\", "?", "\\", Upper(l), ":", "\\">> \o Backslashed(Joined(ps))
         IN h \in Seq(Symbols \ {NUL, "/"}) /\ h # <<>>
            /\ Denotes(Slashed(h), "extended-drive", ExtendedMark \o <<l, ":", "/">>, ps)
<1> DEFINE S == Alphabet("extended-drive")
           u == Upper(l)
           j == Joined(ps)
           a == <<"\\", "\\", "?", "\\", u, ":", "\\">>
           b == Backslashed(j)
           h == a \o b
           T == Symbols \ {NUL, "/"}
<1>1. u \in Letters /\ Lower(u) = l /\ u \in T /\ u \in Symbols /\ u # "\\"
  BY LetterCase
<1>2. ps \in Seq(RealNames(S)) /\ "/" \in S /\ "\\" \notin S
  BY Signs DEF NamesOf, Alphabet, IsWindowsRoot
<1>3. j \in Seq(S) /\ Reads(j, ps) /\ ~Has(j, "\\")
  <2>1. j \in Seq(S) /\ Reads(j, ps)
    BY <1>2, ReadsJoined
  <2> HIDE DEF S, j
  <2> QED
    BY <1>2, <2>1, HasMeans
<1> HIDE DEF j, u
<1>4. b \in Seq(T) /\ Slashed(b) = j
  BY <1>3, BackslashedText
<1>5. a \in Seq(T) /\ a # <<>>
  <2>1. ":" \in T /\ "\\" \in T /\ "?" \in T
    BY TextSigns DEF NUL
  <2> HIDE DEF T
  <2> QED
    BY <1>1, <2>1
<1>6. a \in Seq(Symbols) /\ b \in Seq(Symbols)
  BY <1>4, <1>5, SeqMonotonic
<1> HIDE DEF b, a, T
<1>7. h \in Seq(T) /\ h # <<>>
  BY <1>4, <1>5, ConcatProperties, ConcatEqualIffEmpty
<1>8. Slashed(h) = Slashed(a) \o Slashed(b)
  <2>1. {"/", "\\"} \subseteq Symbols
    BY TextSigns
  <2> QED
    BY <1>6, <2>1, SlashedConcat
<1>9. Slashed(a) = ExtendedMark \o <<u, ":", "/">>
  BY <1>1, SlashedMarks DEF a
<1> DEFINE c == <<u, ":", "/">>
           s == ExtendedMark \o (c \o j)
<1>12. c \in Seq(S) /\ ExtendedMark \in Seq(S) /\ ExtendedMark # <<>>
  <2>1. u \in S /\ ":" \in S /\ "/" \in S /\ "?" \in S
    BY <1>1, Signs
  <2> HIDE DEF S
  <2> QED
    BY <2>1 DEF ExtendedMark
<1> HIDE DEF c
<1>10. Slashed(h) = s
  <2>1. Same(ExtendedMark \o c \o j, s)
    BY <1>3, <1>12, Moved
  <2> QED
    BY <1>4, <1>8, <1>9, <2>1, Zenon DEF Same, c
<1> HIDE DEF h
<1>11. ParsedRoot(s) = Ok(Root("extended-drive", ExtendedMark \o <<l, ":", "/">>, j))
  <2>1. {"/", "?", ":", "UNC"} \cup Letters \subseteq S
    BY Signs
  <2>2. ParsedRoot(ExtendedMark \o (<<u, ":", "/">> \o j)) = Ok(Root("extended-drive", ExtendedMark \o <<Lower(u), ":", "/">>, j))
    BY <1>1, <1>3, <2>1, ParsedDrive
  <2> QED
    BY <1>1, <2>2, Zenon DEF c
<1>13. s \in Seq(S) /\ s # <<>>
  <2>1. c \o j \in Seq(S)
    BY <1>3, <1>12, ConcatProperties
  <2> DEFINE k == c \o j
  <2> HIDE DEF k
  <2>2. k \in Seq(S)
    BY <2>1 DEF k
  <2>3. ExtendedMark \o k \in Seq(S) /\ ExtendedMark \o k # <<>>
    BY <1>12, <2>2, ConcatProperties, ConcatEqualIffEmpty
  <2> QED
    BY <2>3 DEF k
<1>14. Denotes(s, "extended-drive", ExtendedMark \o <<l, ":", "/">>, ps)
  <2>1. RootAt("extended-drive", ExtendedMark \o <<l, ":", "/">>)
    BY DEF RootAt
  <2>2. j = IF "extended-drive" = "relative" THEN s ELSE Joined(ps)
    BY DEF j
  <2> HIDE DEF s
  <2> QED
    BY <1>3, <1>11, <1>13, <2>1, <2>2 DEF Denotes, S
<1> QED
  BY <1>7, <1>10, <1>14, Zenon DEF h, a, b, u, j, T

\* An identity written for a Windows host is read back as the same identity.
LEMMA BelowWin32 ==
  ASSUME NEW r, NEW p, NEW o, Below(r, p, o), IsOk(ToWin32(p))
  PROVE  Normalize(ToWin32(p).value, Win32Host) = Ok(p)
<1>1. PICK kind, prefix, above, below :
         /\ Made(kind, prefix, above, o) /\ below \in Seq(NamesOf(kind))
         /\ r = Whole(kind, prefix, above) /\ p = Whole(kind, prefix, above \o below)
  BY Zenon DEF Below
<1>2. RootAt(kind, prefix) /\ above \o below \in Seq(NamesOf(kind))
  BY <1>1, BelowIsText
<1> DEFINE ps == above \o below
<1> HIDE DEF ps
<1>3. p = Whole(kind, prefix, ps) /\ ps \in Seq(NamesOf(kind))
  BY <1>1, <1>2 DEF ps
<1> DEFINE rest == RestOf(kind, prefix, ps)
           drive == <<Upper(prefix[1]), ":", "\\">> \o Backslashed(rest)
           extended == <<"\\", "\\", "?", "\\", Upper(prefix[5]), ":", "\\">> \o Backslashed(rest)
           h == CASE kind = "drive" -> drive [] kind = "extended-drive" -> extended [] OTHER -> Backslashed(p)
<1>4. ToWin32(p) = Unless(kind = "posix" \/ (kind = "relative" /\ (Has(p, "\\") \/ StartsWith(p, <<".", "/">>))),
                     "ERR_INVALID_PATH", Ok(h))
  <2> DEFINE x == Root(kind, prefix, rest)
  <2>1. TRUE \in BOOLEAN
    OBVIOUS
  <2>2. ValidateCanonical(p, TRUE) = Ok(x)
    BY <1>2, <1>3, <2>1, WholeIsCanonical
  <2> HIDE DEF rest, h
  <2>4. x.kind = kind /\ x.prefix = prefix /\ x.rest = rest
    BY DEF Root
  <2> HIDE DEF x
  <2>3. /\ IsOk(ValidateCanonical(p, TRUE)) /\ ValidateCanonical(p, TRUE).value = x
        /\ x.kind = kind /\ x.prefix = prefix /\ x.rest = rest
    BY <2>2, <2>4, Outcomes, Zenon
  <2> QED
    BY <2>3, Zenon DEF ToWin32, Then, h
<1>5. ToWin32(p) = Ok(h) /\ kind # "posix" /\ (kind = "relative" => ~Has(p, "\\"))
  <2>1. ~IsOk(Err("ERR_INVALID_PATH"))
    BY Outcomes
  <2> HIDE DEF h
  <2> QED
    BY <1>4, <2>1, Zenon DEF Unless
<1>6. SUFFICES h \in Seq(Symbols \ {NUL, "/"}) /\ h # <<>> /\ Denotes(Slashed(h), kind, prefix, ps)
  <2> HIDE DEF h
  <2>1. ASSUME h \in Seq(Symbols \ {NUL, "/"}), h # <<>>, Denotes(Slashed(h), kind, prefix, ps)
        PROVE  Normalize(h, Win32Host) = Ok(Whole(kind, prefix, ps))
    BY <1>5, <2>1, ReadFromWindows
  <2>2. ToWin32(p).value = h
    BY <1>5, Outcomes
  <2> QED
    BY <1>3, <2>1, <2>2, Zenon
<1>7. CASE kind = "drive"
  <2>1. PICK l \in LowerLetters : prefix = <<l, ":", "/">>
    BY <1>2, <1>7 DEF RootAt
  <2>2. prefix[1] = l
    BY <2>1
  <2>3. rest = Joined(ps)
    BY <1>7 DEF RestOf
  <2>4. h = <<Upper(l), ":", "\\">> \o Backslashed(Joined(ps))
    <3>1. h = drive
      BY <1>7, Zenon
    <3> HIDE DEF h, rest
    <3> QED
      BY <2>2, <2>3, <3>1, Zenon
  <2>5. ps \in Seq(NamesOf("drive"))
    BY <1>3, <1>7
  <2> HIDE DEF h
  <2> QED
    BY <1>7, <2>1, <2>4, <2>5, WindowsDrive, Zenon
<1>8. CASE kind = "extended-drive"
  <2>1. PICK l \in LowerLetters : prefix = ExtendedMark \o <<l, ":", "/">>
    BY <1>2, <1>8 DEF RootAt
  <2>2. prefix[5] = l
    BY <2>1 DEF ExtendedMark
  <2>3. rest = Joined(ps)
    BY <1>8 DEF RestOf
  <2>4. h = <<"\\", "\\", "?", "\\", Upper(l), ":", "\\">> \o Backslashed(Joined(ps))
    <3>1. "extended-drive" # "drive"
      OBVIOUS
    <3>2. h = extended
      BY <1>8, <3>1, Zenon
    <3> HIDE DEF h, rest
    <3> QED
      BY <2>2, <2>3, <3>2, Zenon
  <2>5. ps \in Seq(NamesOf("extended-drive"))
    BY <1>3, <1>8
  <2> HIDE DEF h
  <2> QED
    BY <1>8, <2>1, <2>4, <2>5, WindowsExtendedDrive, Zenon
<1>9. CASE kind \notin {"drive", "extended-drive"}
  <2>1. h = Backslashed(p)
    <3>1. kind # "drive" /\ kind # "extended-drive"
      BY <1>9
    <3> QED
      BY <3>1, Zenon
  <2>2. Denotes(p, kind, prefix, ps) /\ p \in Seq(Alphabet(kind)) /\ p # <<>>
    BY <1>2, <1>3, WholeDenotes DEF Denotes
  <2>3. ~Has(p, "\\")
    <3>1. CASE kind = "relative"
      BY <1>5, <3>1
    <3>2. CASE kind # "relative"
      <4>1. "\\" \notin Alphabet(kind)
        BY <1>5, <3>2 DEF Alphabet, IsWindowsRoot
      <4> QED
        BY <2>2, <4>1, HasMeans
    <3> QED
      BY <3>1, <3>2
  <2>4. /\ Backslashed(p) \in Seq(Symbols \ {NUL, "/"}) /\ Slashed(Backslashed(p)) = p
        /\ Len(Backslashed(p)) = Len(p) /\ p \in Seq(Symbols)
    BY <2>2, <2>3, BackslashedText
  <2>5. Backslashed(p) # <<>>
    <3> DEFINE b == Backslashed(p)
    <3>1. Len(b) = Len(p) /\ p \in Seq(Symbols) /\ p # <<>>
      BY <2>2, <2>4
    <3> HIDE DEF b
    <3>2. b # <<>>
      BY <3>1
    <3> QED
      BY <3>2 DEF b
  <2> HIDE DEF h
  <2> QED
    BY <2>1, <2>2, <2>4, <2>5, Zenon
<1> QED
  BY <1>7, <1>8, <1>9

(***************************************************************************)
(* WSL and back                                                            *)
(***************************************************************************)
\* What follows the drive letter of a WSL path.
AfterLetter(t) == IF t = <<>> THEN <<>> ELSE <<"/">> \o t

\* A letter before joined names is their first name.
LEMMA FirstName ==
  ASSUME NEW S, "/" \in S, NEW l \in S, l # "/", l # ".", NEW ps \in Seq(RealNames(S))
  PROVE  /\ <<l>> \in RealNames(S) /\ Joined(<<<<l>>>> \o ps) = <<l>> \o AfterLetter(Joined(ps))
         /\ Joined(ps) \in Seq(S) /\ AfterLetter(Joined(ps)) \in Seq(S)
         /\ <<<<l>>>> \o ps \in Seq(RealNames(S)) /\ <<<<l>>>> \o ps # <<>>
<1> DEFINE n == <<l>>
           j == Joined(ps)
           e == <<n>>
           k == <<"/">>
<1>1. n \in RealNames(S) /\ n \in PartsOf(S) /\ n \in Seq(S) /\ k \in Seq(S)
  BY DEF RealNames, PartsOf, DotNames
<1>2. j \in Seq(S) /\ k \o j \in Seq(S)
  <2>1. j \in Seq(S)
    BY ReadsJoined
  <2> QED
    BY <1>1, <2>1, ConcatProperties
<1> HIDE DEF n, j, k
<1>3. AfterLetter(j) \in Seq(S)
  BY <1>2, Zenon DEF AfterLetter, k
<1>4. Joined(e) = n
  BY <1>1, JoinedOfOne
<1>5. e \in Seq(RealNames(S)) /\ e # <<>>
  BY <1>1
<1> HIDE DEF e
<1>6. e \o ps \in Seq(RealNames(S)) /\ e \o ps # <<>>
  BY <1>5, ConcatProperties, ConcatEqualIffEmpty
<1>7. CASE ps = <<>>
  <2>1. j = <<>>
    BY <1>7, JoinedOfNothing DEF j
  <2>2. AfterLetter(j) = <<>>
    BY <2>1, Zenon DEF AfterLetter
  <2>3. n \o <<>> = n /\ e \o <<>> = e
    BY <1>1, <1>5, ConcatEmptySeq
  <2>4. Joined(e \o ps) = n \o AfterLetter(j)
    BY <1>4, <1>7, <2>2, <2>3, Zenon
  <2> QED
    BY <1>1, <1>2, <1>3, <1>6, <2>4 DEF n, j, e
<1>8. CASE ps # <<>>
  <2>1. j # <<>>
    <3>1. Len(Joined(ps)) \in Nat \ {0} /\ Joined(ps) \in Seq(S)
      BY <1>8, JoinedStarts
    <3> QED
      BY <3>1 DEF j
  <2>2. AfterLetter(j) = k \o j
    BY <2>1, Zenon DEF AfterLetter, k
  <2>3. e \in PiecesOf(S) /\ ps \in PiecesOf(S)
    BY <1>5, <1>8, RealNamesArePieces
  <2>4. Joined(e \o ps) = Joined(e) \o <<"/">> \o Joined(ps)
    BY <2>3, JoinedOfConcat
  <2>5. Same(n \o k \o j, n \o (k \o j))
    BY <1>1, <1>2, Moved
  <2>6. Joined(e \o ps) = n \o AfterLetter(j)
    BY <1>4, <2>2, <2>4, <2>5, Zenon DEF Same, j, k
  <2> QED
    BY <1>1, <1>2, <1>3, <1>6, <2>6 DEF n, j, e
<1> QED
  BY <1>7, <1>8

\* The text under a mount, as the serializer writes it and as the reader finds it.
LEMMA UnderMountIs ==
  ASSUME NEW S, "/" \in S, NEW m \in Seq(S), NEW l \in S, NEW t \in Seq(S)
  PROVE  Same((IF m = <<"/">> THEN <<>> ELSE m) \o <<"/", l>> \o t, UnderMount(m) \o (<<l>> \o t))
<1> DEFINE k == <<"/">>
           n == <<l>>
           pair == <<"/", l>>
<1>1. k \in Seq(S) /\ n \in Seq(S) /\ pair \in Seq(S) /\ k \o n = pair
  BY Pair
<1>2. CASE m = <<"/">>
  <2> HIDE DEF k, n, pair
  <2>1. <<>> \o pair = pair
    BY <1>1, ConcatEmptySeq
  <2>2. Same(k \o n \o t, k \o (n \o t))
    BY <1>1, Moved
  <2>3. UnderMount(m) = k
    BY <1>2, Zenon DEF UnderMount, k
  <2> QED
    BY <1>1, <1>2, <2>1, <2>2, <2>3, Zenon DEF Same, k, n, pair
<1>3. CASE m # <<"/">>
  <2>1. UnderMount(m) = m \o k
    <3>1. Append(m, "/") = m \o <<"/">>
      BY AppendIsConcat
    <3> QED
      BY <1>3, <3>1, Zenon DEF UnderMount
  <2> HIDE DEF k, n, pair
  <2>2. Same(m \o k \o n, m \o (k \o n))
    BY <1>1, Moved
  <2>3. m \o k \in Seq(S)
    BY <1>1, ConcatProperties
  <2> DEFINE a == m \o k
  <2> HIDE DEF a
  <2>4. Same(a \o n \o t, a \o (n \o t))
    BY <1>1, <2>3, Moved DEF a
  <2>5. a \o n = m \o pair
    BY <1>1, <2>2, Zenon DEF Same, a
  <2>6. m \o pair \o t = a \o (n \o t)
    BY <2>4, <2>5, Zenon DEF Same
  <2> QED
    BY <1>3, <2>1, <2>6, Zenon DEF Same, a, n, pair
<1> QED
  BY <1>2, <1>3

\* Names under a mount make one POSIX identity.
LEMMA MountWhole ==
  ASSUME NEW mp \in Seq(NamesOf("posix")), NEW more \in Seq(NamesOf("posix")), more # <<>>
  PROVE  LET m == Whole("posix", <<"/">>, mp)
         IN UnderMount(m) \o Joined(more) = Whole("posix", <<"/">>, mp \o more)
            /\ mp \o more \in Seq(NamesOf("posix")) /\ m \in Seq(Alphabet("posix"))
<1> DEFINE S == Alphabet("posix")
           m == Whole("posix", <<"/">>, mp)
           k == <<"/">>
           q == Joined(mp)
           j == Joined(more)
<1>1. mp \in Seq(RealNames(S)) /\ more \in Seq(RealNames(S)) /\ "/" \in S
  BY Signs DEF NamesOf
<1>2. m = k \o q /\ \A ps \in Seq(NamesOf("posix")) : Whole("posix", <<"/">>, ps) = k \o Joined(ps)
  BY NativeOfPosix
<1>3. mp \o more \in Seq(NamesOf("posix"))
  BY ConcatProperties
<1>4. q \in Seq(S) /\ j \in Seq(S)
  <2> HIDE DEF S
  <2> QED
    BY <1>1, ReadsJoined
<1>5. k \in Seq(S)
  BY <1>1
<1> HIDE DEF S, m, q, j
<1>6. m \in Seq(S)
  BY <1>2, <1>4, <1>5, ConcatProperties
<1>7. CASE mp = <<>>
  <2>1. q = <<>>
    BY <1>7, JoinedOfNothing DEF q
  <2>2. k \o <<>> = k
    BY <1>5, ConcatEmptySeq
  <2>3. m = k
    BY <1>2, <2>1, <2>2, Zenon
  <2>4. UnderMount(m) = k
    BY <2>3, Zenon DEF UnderMount
  <2>5. <<>> \o more = more
    BY <1>1, ConcatEmptySeq
  <2> QED
    BY <1>2, <1>3, <1>6, <1>7, <2>4, <2>5, Zenon DEF S, m, j
<1>8. CASE mp # <<>>
  <2>1. Joined(mp \o more) = q \o k \o j
    <3>1. mp \in PiecesOf(S) /\ more \in PiecesOf(S)
      BY <1>1, <1>8, RealNamesArePieces
    <3>2. Joined(mp \o more) = Joined(mp) \o <<"/">> \o Joined(more)
      BY <1>1, <3>1, JoinedOfConcat
    <3> QED
      BY <3>2, Zenon DEF q, j
  <2>2. q # <<>>
    <3>1. Len(Joined(mp)) \in Nat \ {0} /\ Joined(mp) \in Seq(S)
      BY <1>1, <1>8, JoinedStarts
    <3> QED
      BY <3>1 DEF q
  <2>3. m # k
    <3>1. Len(k \o q) = Len(k) + Len(q) /\ Len(k) = 1 /\ Len(q) # 0
      BY <1>4, <1>5, <2>2, ConcatProperties
    <3>2. Len(k) \in Nat /\ Len(q) \in Nat
      BY <1>4, <1>5
    <3>3. Len(m) # Len(k)
      BY <1>2, <3>1, <3>2
    <3> QED
      BY <3>3
  <2>4. UnderMount(m) = k \o q \o k
    <3>1. Append(m, "/") = m \o <<"/">>
      BY <1>1, <1>6, AppendIsConcat
    <3>2. UnderMount(m) = m \o k
      BY <2>3, <3>1, Zenon DEF UnderMount
    <3> QED
      BY <1>2, <3>2, Zenon
  <2>5. Same(k \o q \o k \o j, k \o (q \o k \o j))
    <3> HIDE DEF k
    <3> QED
      BY <1>4, <1>5, Regrouped
  <2> DEFINE all == mp \o more
  <2> HIDE DEF all
  <2>6. Whole("posix", <<"/">>, all) = k \o Joined(all)
    BY <1>2, <1>3 DEF all
  <2>7. UnderMount(m) \o j = Whole("posix", <<"/">>, all)
    BY <2>1, <2>4, <2>5, <2>6, Zenon DEF Same, all
  <2> QED
    BY <1>3, <1>6, <2>7, Zenon DEF S, m, j, all
<1> QED
  BY <1>7, <1>8

\* What stands under a mount: the letter, and the rest after a slash.
LEMMA LetterAndRest ==
  ASSUME NEW S, "/" \in S, NEW l \in S, NEW j \in Seq(S)
  PROVE  LET t == <<l>> \o AfterLetter(j)
         IN /\ t \in Seq(S) /\ t # <<>> /\ t[1] = l /\ (Len(t) = 1 \/ t[2] = "/")
            /\ From(t, 3) = j
<1> DEFINE n == <<l>>
           t == n \o AfterLetter(j)
<1>1. n \in Seq(S) /\ Len(n) = 1 /\ n[1] = l
  OBVIOUS
<1>2. CASE j = <<>>
  <2> HIDE DEF n
  <2>1. AfterLetter(j) = <<>> /\ n \o <<>> = n
    BY <1>1, <1>2, ConcatEmptySeq, Zenon DEF AfterLetter
  <2>2. t = n
    BY <2>1, Zenon
  <2>3. From(n, 3) \in Seq(S) /\ Len(From(n, 3)) = 0
    <3>1. 3 \in Nat \ {0}
      OBVIOUS
    <3>2. From(n, 3) \in Seq(S) /\ Len(From(n, 3)) = IF 3 <= Len(n) THEN Len(n) - 3 + 1 ELSE 0
      BY <1>1, <3>1, FromType
    <3> QED
      BY <1>1, <3>2
  <2>4. From(n, 3) = j
    BY <1>2, <2>3, EmptySeq
  <2>5. n # <<>>
    <3>1. Len(<<>>) = 0 /\ 0 # 1
      BY EmptySeq
    <3> QED
      BY <1>1, <3>1, Zenon
  <2>6. Len(n) = 1 \/ n[2] = "/"
    BY <1>1
  <2> QED
    BY <1>1, <2>2, <2>4, <2>5, <2>6, Zenon DEF n
<1>3. CASE j # <<>>
  <2> DEFINE p == <<l, "/">>
  <2>1. p \in Seq(S) /\ Len(p) + 1 = 3 /\ Len(p) = 2 /\ p[1] = l /\ p[2] = "/" /\ j \in Seq(S)
    OBVIOUS
  <2>2. p \o j = n \o (<<"/">> \o j)
    BY PairBefore
  <2>3. t = p \o j
    BY <1>3, <2>2, Zenon DEF AfterLetter
  <2> HIDE DEF p, t
  <2>4. p \in Seq(S) /\ j \in Seq(S)
    BY <2>1
  <2>5. From(p \o j, Len(p) + 1) = j
    BY <2>4, StartsWithConcat
  <2>6. p \o j \in Seq(S) /\ Len(p \o j) = Len(p) + Len(j) /\ Len(j) \in Nat
    BY <2>4, ConcatAt
  <2>7. \A i \in 1 .. Len(p) : (p \o j)[i] = p[i]
    BY <2>4, ConcatAt
  <2>8. t \in Seq(S) /\ Len(t) >= 2 /\ t[1] = l /\ t[2] = "/" /\ From(t, 3) = j
    BY <2>1, <2>3, <2>5, <2>6, <2>7
  <2>9. t # <<>>
    BY <2>8
  <2> QED
    BY <2>8, <2>9 DEF t, n
<1> QED
  BY <1>2, <1>3

\* A drive written under a mount is read back as the drive.
LEMMA ReadFromWSL ==
  ASSUME NEW l \in LowerLetters, NEW ps \in Seq(NamesOf("drive")), NEW mount, NEW mp \in Seq(NamesOf("posix")),
         NormalizeMountRoot(mount) = Ok(Whole("posix", <<"/">>, mp))
  PROVE  Normalize(UnderMount(Whole("posix", <<"/">>, mp)) \o (<<l>> \o AfterLetter(Joined(ps))), WSLHost(mount))
         = Ok(Whole("drive", <<l, ":", "/">>, ps))
<1> DEFINE S == Alphabet("drive")
           m == Whole("posix", <<"/">>, mp)
           j == Joined(ps)
           t == <<l>> \o AfterLetter(j)
           more == <<<<l>>>> \o ps
           all == mp \o more
           h == UnderMount(m) \o t
           prefix == <<l, ":", "/">>
           p == Whole("drive", prefix, ps)
           o == WSLHost(mount)
<1>1. "/" \in S /\ l \in S /\ l \in Letters /\ Lower(l) = l /\ l # "/" /\ l # "." /\ "\\" \notin S /\ ps \in Seq(RealNames(S))
  <2>1. LowerLetters \subseteq Letters /\ Letters \subseteq S /\ "/" \in S /\ "/" \notin Letters /\ "." \notin Letters
    BY Signs
  <2>2. "\\" \notin S
    BY DEF Alphabet, IsWindowsRoot
  <2>3. Lower(l) = l
    BY Signs
  <2> HIDE DEF S
  <2> QED
    BY <2>1, <2>2, <2>3 DEF S, NamesOf
<1>2. RootAt("drive", prefix)
  BY DEF RootAt
<1>3. /\ t = Joined(more) /\ j \in Seq(S) /\ more \in Seq(RealNames(S)) /\ more # <<>>
  <2> HIDE DEF S
  <2> QED
    BY <1>1, FirstName, ZenonT(40)
<1>4. t \in Seq(S) /\ t # <<>> /\ t[1] = l /\ (Len(t) = 1 \/ t[2] = "/") /\ From(t, 3) = j
  <2> HIDE DEF S, j
  <2> QED
    BY <1>1, <1>3, LetterAndRest
<1> HIDE DEF t, more, j
<1>5. more \in Seq(NamesOf("posix"))
  <2>1. RealNames(S) \subseteq NamesOf("posix")
    BY NamesForRelative DEF NamesOf
  <2> HIDE DEF S
  <2> QED
    BY <1>3, <2>1, SeqMonotonic
<1>6. h = Whole("posix", <<"/">>, all) /\ all \in Seq(NamesOf("posix")) /\ m \in Seq(Alphabet("posix"))
  BY <1>3, <1>5, MountWhole
<1> HIDE DEF m, all
<1>7. /\ NativePOSIXRepresentation(h) = Ok(h) /\ h = <<"/">> \o Joined(all)
      /\ Joined(all) \in Seq(Alphabet("posix"))
  <2> HIDE DEF h
  <2> QED
    BY <1>6, NativeOfPosix
<1>8. RootAt("posix", <<"/">>)
  BY DEF RootAt
<1>9. h \in Seq(Alphabet("posix")) /\ h # <<>>
  <2> HIDE DEF h
  <2> QED
    BY <1>6, <1>8, WholeText
<1>10. SplitRoot(h) = Ok(Root("posix", <<"/">>, RestOf("posix", <<"/">>, all))) /\ CleanCanonical(h) = Ok(h)
  <2> HIDE DEF h
  <2> QED
    BY <1>6, <1>8, WholeIsCanonical
<1>11. UnderMount(m) \in Seq(Alphabet("posix")) /\ t \in Seq(Alphabet("posix"))
  <2>1. "/" \in Alphabet("posix") /\ S \subseteq Alphabet("posix")
    BY Signs DEF Alphabet, IsWindowsRoot
  <2> HIDE DEF S
  <2> QED
    BY <1>4, <1>6, <2>1, UnderMountType, SeqMonotonic
<1>12. StartsWith(h, UnderMount(m)) /\ MountRest(h, m) = t
  BY <1>11, StartsWithConcat DEF MountRest
<1> HIDE DEF h
<1>13. DriveUnder(h, m)
  BY <1>1, <1>4, <1>12, Zenon DEF DriveUnder, IsAsciiLetter
<1>14. ~Has(t, "\\")
  <2> HIDE DEF S
  <2> QED
    BY <1>1, <1>4, HasMeans
<1>15. p = prefix \o j
  <2>1. CASE ps = <<>>
    <3>1. j = <<>>
      BY <2>1, JoinedOfNothing DEF j
    <3>2. prefix \in Seq({l, ":", "/"})
      OBVIOUS
    <3>3. prefix \o <<>> = prefix
      <4> HIDE DEF prefix
      <4> QED
        BY <3>2, ConcatEmptySeq
    <3>4. p = prefix
      <4>1. "drive" # "relative"
        OBVIOUS
      <4> QED
        BY <2>1, <4>1, Zenon DEF Whole
    <3> HIDE DEF p, prefix
    <3> QED
      BY <3>1, <3>3, <3>4, Zenon
  <2>2. CASE ps # <<>>
    <3>1. prefix \o <<>> = prefix
      <4>1. prefix \in Seq({l, ":", "/"})
        OBVIOUS
      <4> HIDE DEF prefix
      <4> QED
        BY <4>1, ConcatEmptySeq
    <3>2. "drive" # "relative" /\ "drive" \notin Uncs
      BY DEF Uncs
    <3>3. p = prefix \o <<>> \o Joined(ps)
      BY <2>2, <3>2, Zenon DEF Whole
    <3> HIDE DEF p, prefix
    <3> QED
      BY <3>1, <3>3, Zenon DEF j
  <2> QED
    BY <2>1, <2>2
<1>16. MapWSLDrive(h, mount) = Ok(p)
  <2>1. NormalizeMountRoot(mount) = Ok(m)
    BY DEF m
  <2>2. MapWSLDrive(h, mount) = Unless(Has(t, "\\"), "ERR_INVALID_PATH", Ok(<<Lower(t[1]), ":", "/">> \o From(t, 3)))
    <3>1. MapWSLDrive(h, mount) = Unless(Has(MountRest(h, m), "\\"), "ERR_INVALID_PATH",
            Ok(<<Lower(MountRest(h, m)[1]), ":", "/">> \o From(MountRest(h, m), 3)))
      BY <1>13, <2>1, MapWSLMeans
    <3> QED
      BY <1>12, <3>1, Zenon
  <2> HIDE DEF p
  <2> QED
    BY <1>1, <1>4, <1>14, <1>15, <2>2, Zenon DEF Unless
<1>17. /\ ~o.trimOuterWhitespace /\ o.mountRoot = mount /\ o.wslEnabled
       /\ o.targetProfile = "portable" /\ o.sourceHost = "auto"
       /\ ~o.rejectADS /\ ~o.rejectDeviceNames
  BY DEF CanonicalHost, AnyHost, WSLHost
<1> HIDE DEF o, p
<1>18. \A x : Allowed(x, o)
  BY <1>17 DEF Allowed
<1>19. ValidateWindowsPolicy(h, o) = Ok(h)
  <2>1. \E T : RestOf("posix", <<"/">>, all) \in Seq(T)
    <3>1. RestOf("posix", <<"/">>, all) = Joined(all)
      BY DEF RestOf
    <3> QED
      BY <1>7, <3>1
  <2> DEFINE rest == RestOf("posix", <<"/">>, all)
  <2> HIDE DEF rest
  <2>2. PICK T : rest \in Seq(T)
    BY <2>1 DEF rest
  <2>3. SplitRoot(h) = Ok(Root("posix", <<"/">>, rest))
    BY <1>10 DEF rest
  <2> QED
    BY <1>18, <2>2, <2>3, PolicyMeans
<1>20. MountedValue(h, o) = Ok(p)
  <2>1. IsOk(Ok(h)) /\ Ok(h).value = h /\ "portable" # "posix"
    BY Outcomes
  <2> QED
    BY <1>7, <1>10, <1>16, <1>17, <1>19, <2>1, Zenon DEF MountedValue, Then
<1>22. ~HasUriScheme(h)
  <2>1. h[1] = "/"
    <3> DEFINE k == <<"/">>
    <3>1. k \in Seq(Alphabet("posix")) /\ Len(k) = 1 /\ k[1] = "/"
      BY Signs
    <3> HIDE DEF k
    <3>2. \A i \in 1 .. Len(k) : (k \o Joined(all))[i] = k[i]
      BY <1>7, <3>1, ConcatAt
    <3>3. h = k \o Joined(all)
      BY <1>7 DEF k
    <3>4. 1 \in 1 .. Len(k)
      BY <3>1
    <3>5. (k \o Joined(all))[1] = k[1]
      BY <3>2, <3>4, Zenon
    <3> QED
      BY <3>1, <3>3, <3>5, Zenon
  <2> QED
    BY <1>9, <2>1, NoScheme
<1>22a. PosixMountCandidate(h, HasUriScheme(h), o)
  <2>1. StartsWith(h, <<"/">>)
    <3>1. <<"/">> \in Seq(Alphabet("posix"))
      BY Signs
    <3> QED
      BY <1>7, <3>1, StartsWithConcat
  <2>2. ~StartsWith(h, <<"/", "/">>) \/ StartsWith(h, <<"/", "/", "/">>)
    <3>1. Ok(h) # Err("ERR_INVALID_PATH")
      BY Outcomes
    <3> QED
      BY <1>7, <3>1, Zenon DEF NativePOSIXRepresentation, Unless
  <2> QED
    BY <1>17, <1>22, <2>1, <2>2, Zenon DEF PosixMountCandidate
<1>23. HostValue(h, o) = Ok(p)
  <2>1. "auto" # "posix" /\ "auto" # "canonical"
    OBVIOUS
  <2>2. HostValue(h, o) = Then(Ok(h), LAMBDA value :
             IF PosixMountCandidate(value, HasUriScheme(h), o) THEN MountedValue(value, o)
             ELSE WindowsValue(value, o))
    BY <1>17, <1>22, <2>1, Zenon DEF HostValue
  <2>3. IsOk(Ok(h)) /\ Ok(h).value = h
    BY Outcomes
  <2> QED
    BY <1>20, <1>22a, <2>2, <2>3, Zenon DEF Then
<1>24. ~Has(h, NUL)
  <2> HIDE DEF h
  <2> QED
    BY <1>9, NoNul
<1>25. IsOk(NormalizeMountRoot(o.mountRoot)) /\ Accepts(o.targetProfile, "drive")
  <2>1. NormalizeMountRoot(o.mountRoot) = Ok(m)
    BY <1>17 DEF m
  <2>2. IsOk(Ok(m))
    BY Outcomes
  <2> QED
    BY <1>17, <2>1, <2>2 DEF Accepts
<1> DEFINE rest == RestOf("drive", prefix, ps)
<1> HIDE DEF rest
<1>26. rest \in Seq(S)
  <2>1. rest = Joined(ps)
    BY DEF RestOf, rest
  <2> QED
    BY <1>3, <2>1 DEF j
<1>27. SplitRoot(p) = Ok(Root("drive", prefix, rest)) /\ CleanCanonical(p) = Ok(p)
  <2>1. ps \in Seq(NamesOf("drive"))
    OBVIOUS
  <2> QED
    BY <1>2, <2>1, WholeIsCanonical DEF p, rest
<1>28. CleanCanonical(p) = Ok(Whole("drive", prefix, ps))
  BY <1>27 DEF p
<1>29. Allowed(rest, o)
  BY <1>18
<1>30. Normalize(h, o) = Ok(Whole("drive", prefix, ps))
  <2> HIDE DEF S, prefix
  <2> QED
    BY <1>2, <1>9, <1>17, <1>23, <1>24, <1>25, <1>26, <1>27, <1>28, <1>29, HandedOn, ZenonT(40)
<1> QED
  BY <1>30 DEF h, t, j, m, o

\* Only the identity of a drive starts like one.
LEMMA DriveKind ==
  ASSUME NEW kind, NEW prefix, RootAt(kind, prefix), NEW ps \in Seq(NamesOf(kind)),
         HasDriveRoot(Whole(kind, prefix, ps))
  PROVE  kind = "drive"
<1> DEFINE S == Alphabet(kind)
           p == Whole(kind, prefix, ps)
           mark == ExtendedMark
           first == <<>> \o <<Lower(p[1]), ":", "/">>
           x == From(p, 4)
<1>1. p \in Seq(S) /\ \E y : ParsedRoot(p) = Ok(Root(kind, prefix, y))
  BY WholeDenotes DEF Denotes
<1>2. mark \in Seq(S) /\ 1 \in 1 .. Len(mark) /\ mark[1] = "/"
  BY Signs DEF ExtendedMark
<1> HIDE DEF p, mark, S
<1>3. p[1] \in Letters
  BY <1>1, DriveRootMeans DEF p
<1>4. p[1] # "/"
  BY <1>3, Signs
<1>5. ~StartsWith(p, mark)
  <2>1. StartsWith(p, mark) => \A i \in 1 .. Len(mark) : p[i] = mark[i]
    BY <1>1, <1>2, StartsWithMeans
  <2> QED
    BY <1>2, <1>4, <2>1
<1> HIDE DEF first, x
<1>6. ParsedRoot(p) = Ok(Root("drive", first, x))
  BY <1>5, Zenon DEF ParsedRoot, DriveRoot, mark, p, first, x
<1>7. PICK y : Ok(Root("drive", first, x)) = Ok(Root(kind, prefix, y))
  BY <1>1, <1>6
<1> QED
  BY <1>7 DEF Ok, Root

\* What the drive of a WSL mount is written as, and read back from.
LEMMA BelowWSL ==
  ASSUME NEW r, NEW p, NEW o, Below(r, p, o), o.mountRoot \in Seq(Symbols), HasDriveRoot(p),
         IsOk(ToWSL(p, o.mountRoot))
  PROVE  Normalize(ToWSL(p, o.mountRoot).value, WSLHost(o.mountRoot)) = Ok(p)
<1> DEFINE mount == o.mountRoot
<1>1. PICK kind, prefix, above, below :
         /\ Made(kind, prefix, above, o) /\ below \in Seq(NamesOf(kind))
         /\ r = Whole(kind, prefix, above) /\ p = Whole(kind, prefix, above \o below)
  BY Zenon DEF Below
<1>2. RootAt(kind, prefix) /\ above \o below \in Seq(NamesOf(kind))
  BY <1>1, BelowIsText
<1> DEFINE ps == above \o below
<1> HIDE DEF ps
<1>3. p = Whole(kind, prefix, ps) /\ ps \in Seq(NamesOf(kind))
  BY <1>1, <1>2 DEF ps
<1>4. kind = "drive"
  BY <1>2, <1>3, DriveKind
<1>5. PICK l \in LowerLetters : prefix = <<l, ":", "/">>
  BY <1>2, <1>4 DEF RootAt
<1>6. IsOk(NormalizeMountRoot(mount))
  BY <1>1 DEF Made
<1>7. PICK mp \in Seq(NamesOf("posix")) : NormalizeMountRoot(mount) = Ok(Whole("posix", <<"/">>, mp))
  BY <1>6, MountGives
<1> DEFINE m == Whole("posix", <<"/">>, mp)
           j == Joined(ps)
           S == Alphabet("posix")
           h == (IF m = <<"/">> THEN <<>> ELSE m) \o <<"/", l>> \o AfterLetter(j)
<1>8. ps \in Seq(NamesOf("drive")) /\ p = Whole("drive", prefix, ps)
  BY <1>3, <1>4
<1>9. ToWSL(p, mount) = Ok(h)
  <2> DEFINE x == Root("drive", prefix, j)
  <2>1. ValidateCanonical(p, TRUE) = Ok(x)
    <3>1. TRUE \in BOOLEAN /\ RestOf("drive", prefix, ps) = j /\ RootAt("drive", prefix)
      BY <1>2, <1>4 DEF RestOf
    <3>2. \A d \in BOOLEAN : ValidateCanonical(Whole("drive", prefix, ps), d)
                            = Ok(Root("drive", prefix, RestOf("drive", prefix, ps)))
      BY <1>8, <3>1, WholeIsCanonical
    <3> HIDE DEF j
    <3> QED
      BY <1>8, <3>1, <3>2, Zenon
  <2> HIDE DEF j
  <2>2. x.kind = "drive" /\ x.prefix[1] = l /\ x.rest = j
    BY <1>5 DEF Root
  <2> HIDE DEF x, m
  <2>3. /\ IsOk(ValidateCanonical(p, TRUE)) /\ ValidateCanonical(p, TRUE).value = x
        /\ IsOk(NormalizeMountRoot(mount)) /\ NormalizeMountRoot(mount).value = m
    BY <1>7, <2>1, Outcomes DEF m
  <2>4. "drive" # "posix" /\ "drive" # "relative"
    OBVIOUS
  <2>5. IsWindowsRoot(x.kind)
    BY <2>2, <2>4 DEF IsWindowsRoot
  <2> DEFINE y == (IF m = <<"/">> THEN <<>> ELSE m) \o <<"/", l>>
                   \o IF j = <<>> THEN <<>> ELSE <<"/">> \o j
  <2>6. ToWSL(p, mount) = Ok(y)
    BY <2>2, <2>3, <2>5, Zenon DEF ToWSL, Then, Unless
  <2>7. h = y
    BY Zenon DEF AfterLetter
  <2> QED
    BY <2>6, <2>7, Zenon
<1>10. h = UnderMount(m) \o (<<l>> \o AfterLetter(j))
  <2>1. "/" \in S /\ l \in S /\ l # "/" /\ l # "."
    <3>1. LowerLetters \subseteq Letters /\ Letters \subseteq S /\ "/" \in S /\ "/" \notin Letters /\ "." \notin Letters
      BY Signs
    <3> QED
      BY <3>1
  <2>2. m \in Seq(S)
    BY WholeText DEF RootAt
  <2>3. ps \in Seq(RealNames(S))
    <3>1. RealNames(Alphabet("drive")) \subseteq NamesOf("posix")
      BY NamesForRelative DEF NamesOf
    <3>2. NamesOf("drive") \subseteq RealNames(S)
      BY <3>1 DEF NamesOf
    <3> HIDE DEF S
    <3> QED
      BY <1>8, <3>2, SeqMonotonic
  <2>4. AfterLetter(j) \in Seq(S)
    <3> HIDE DEF S
    <3> QED
      BY <2>1, <2>3, FirstName
  <2> DEFINE t == AfterLetter(j)
  <2>5. Same((IF m = <<"/">> THEN <<>> ELSE m) \o <<"/", l>> \o t, UnderMount(m) \o (<<l>> \o t))
    <3> HIDE DEF S, m, t, j
    <3>1. t \in Seq(S)
      BY <2>4 DEF t
    <3> QED
      BY <2>1, <2>2, <3>1, UnderMountIs
  <2> QED
    BY <2>5, Zenon DEF Same
<1>11. Normalize(UnderMount(m) \o (<<l>> \o AfterLetter(j)), WSLHost(mount)) = Ok(Whole("drive", <<l, ":", "/">>, ps))
  <2> HIDE DEF mount
  <2> QED
    BY <1>7, <1>8, ReadFromWSL
<1>12. ToWSL(p, mount).value = h
  <2> HIDE DEF h
  <2> QED
    BY <1>9, Outcomes
<1> HIDE DEF h, m, j
<1> QED
  BY <1>5, <1>8, <1>10, <1>11, <1>12, Zenon

(***************************************************************************)
(* What validate-spec.mjs says of an identity                              *)
(***************************************************************************)
\* A root with a lower-case drive, as RootOf looks for it.
LowerDrive(s) == Len(s) >= 3 /\ s[1] \in LowerLetters /\ s[2] = ":" /\ s[3] = "/"
UncMark == ExtendedMark \o <<"UNC", "/">>

\* What RootOf finds: a root of a Windows host, or another one.
WindowsAt(prefix, rest) == Rooted(TRUE, prefix, rest)
OtherAt(prefix, rest) == Rooted(FALSE, prefix, rest)

\* The decisions of RootOf, in their order.
LEMMA RootOfIs ==
  ASSUME NEW v
  PROVE  RootOf(v) =
           IF StartsWith(v, ExtendedMark) THEN
             IF LowerDrive(From(v, 5)) THEN WindowsAt(SubSeq(v, 1, 7), From(v, 8))
             ELSE IF StartsWith(v, UncMark) THEN RootedUnc(UncMark, Split(From(v, 7))) ELSE NoRoot
           ELSE IF LowerDrive(v) THEN WindowsAt(SubSeq(v, 1, 3), From(v, 4))
           ELSE IF StartsWith(v, <<"/", "/">>) THEN RootedUnc(<<"/", "/">>, Split(From(v, 3)))
           ELSE IF StartsWith(v, <<"/">>) THEN OtherAt(<<"/">>, Tail(v))
           ELSE IF ~StartsWith(v, <<".", "/">>) THEN OtherAt(<<>>, v)
           ELSE IF DriveLike(From(v, 3)) THEN OtherAt(<<>>, From(v, 3)) ELSE NoRoot
BY Zenon DEF RootOf, LowerDrive, ExtendedMark, UncMark, WindowsAt, OtherAt

\* The part of a text before what follows it, and what follows it.
LEMMA PartsOfConcat ==
  ASSUME NEW S, NEW p \in Seq(S), NEW t \in Seq(S)
  PROVE  SubSeq(p \o t, 1, Len(p)) = p /\ From(p \o t, Len(p) + 1) = t /\ StartsWith(p \o t, p)
<1>1. From(p \o t, Len(p) + 1) = t /\ StartsWith(p \o t, p)
  BY StartsWithConcat
<1> DEFINE w == p \o t
           q == SubSeq(w, 1, Len(p))
<1>2. /\ w \in Seq(S) /\ Len(w) = Len(p) + Len(t) /\ Len(p) \in Nat /\ Len(t) \in Nat
      /\ \A i \in 1 .. Len(p) : w[i] = p[i]
  BY ConcatAt
<1> HIDE DEF w
<1>3. q \in Seq(S) /\ Len(q) = Len(p) /\ \A i \in 1 .. Len(p) : q[i] = w[i]
  <2>1. 1 \in Nat \ {0} /\ Len(p) \in Nat /\ Len(p) <= Len(w)
    BY <1>2
  <2>2. /\ q \in Seq(S) /\ Len(q) = IF 1 <= Len(p) THEN Len(p) - 1 + 1 ELSE 0
        /\ \A i \in 1 .. Len(p) - 1 + 1 : q[i] = w[1 + i - 1]
    BY <1>2, <2>1, PartType
  <2> HIDE DEF q
  <2> QED
    BY <2>1, <2>2
<1> HIDE DEF q
<1>4. q = p
  BY <1>2, <1>3, SeqEqual
<1> QED
  BY <1>1, <1>4 DEF q, w

\* The script finds a POSIX root where splitRoot does.
LEMMA SpecPosix ==
  ASSUME NEW S, {"/", "?"} \subseteq S, NEW t \in Seq(S), t # <<>> => t[1] # "/"
  PROVE  RootOf(<<"/">> \o t) = OtherAt(<<"/">>, t)
<1> DEFINE v == <<"/">> \o t
<1>1. v \in Seq(S) /\ Len(v) = Len(t) + 1 /\ v[1] = "/" /\ (Len(v) >= 2 => v[2] # "/") /\ v # <<>>
  OBVIOUS
<1>2. Tail(v) = t
  <2> DEFINE p == <<"/">>
  <2>1. p \in Seq(S) /\ Len(p) + 1 = 2
    OBVIOUS
  <2> HIDE DEF p
  <2>2. From(p \o t, Len(p) + 1) = t
    BY <2>1, StartsWithConcat
  <2>3. From(v, 2) = t
    BY <2>1, <2>2 DEF p
  <2> HIDE DEF v
  <2> QED
    BY <1>1, <2>3, TailIsSubSeq DEF From
<1> HIDE DEF v
<1>3. \A m \in Seq(S) : Len(m) >= 2 /\ m[2] = "/" => ~StartsWith(v, m)
  <2> SUFFICES ASSUME NEW m \in Seq(S), Len(m) >= 2, m[2] = "/", StartsWith(v, m) PROVE FALSE
    OBVIOUS
  <2>1. Len(m) <= Len(v) /\ \A i \in 1 .. Len(m) : v[i] = m[i]
    BY <1>1, StartsWithMeans
  <2>2. 2 \in 1 .. Len(m) /\ Len(v) >= 2
    BY <1>1, <2>1
  <2> QED
    BY <1>1, <2>1, <2>2
<1>4. ExtendedMark \in Seq(S) /\ Len(ExtendedMark) >= 2 /\ ExtendedMark[2] = "/"
      /\ <<"/", "/">> \in Seq(S) /\ Len(<<"/", "/">>) >= 2 /\ <<"/", "/">>[2] = "/"
  BY DEF ExtendedMark
<1>5. ~StartsWith(v, ExtendedMark) /\ ~StartsWith(v, <<"/", "/">>)
  BY <1>3, <1>4
<1>6. ~LowerDrive(v)
  BY <1>1 DEF LowerDrive, LowerLetters
<1>7. StartsWith(v, <<"/">>)
  <2>1. <<"/">> \in Seq(S)
    OBVIOUS
  <2> QED
    BY <2>1, StartsWithConcat DEF v
<1>8. RootOf(v) = OtherAt(<<"/">>, t)
  BY <1>2, <1>5, <1>6, <1>7, RootOfIs
<1> QED
  BY <1>8 DEF v

\* And a drive, plain or under the extended mark.
LEMMA SpecDrive ==
  ASSUME NEW S, {"/", "?", ":", "UNC"} \cup Letters \subseteq S, NEW l \in LowerLetters, NEW t \in Seq(S)
  PROVE  /\ RootOf(<<l, ":", "/">> \o t) = WindowsAt(<<l, ":", "/">>, t)
         /\ RootOf((ExtendedMark \o <<l, ":", "/">>) \o t) = WindowsAt(ExtendedMark \o <<l, ":", "/">>, t)
<1> DEFINE p == <<l, ":", "/">>
           m == ExtendedMark \o p
           v == p \o t
           w == m \o t
<1>0. /\ ExtendedMark \in Seq(S) /\ Len(ExtendedMark) = 4 /\ Len(ExtendedMark) + 1 = 5 /\ ExtendedMark[1] = "/"
      /\ p \in Seq(S) /\ Len(p) = 3 /\ Len(p) + 1 = 4 /\ l # "/"
      /\ p[1] = l /\ p[2] = ":" /\ p[3] = "/"
  BY DEF ExtendedMark, LowerLetters, Letters
<1> HIDE DEF p
<1>1. v \in Seq(S) /\ Len(v) >= 3 /\ v[1] = l /\ v[2] = ":" /\ v[3] = "/"
  <2>1. /\ v \in Seq(S) /\ Len(v) = Len(p) + Len(t) /\ Len(t) \in Nat
        /\ \A i \in 1 .. Len(p) : v[i] = p[i]
    <3>1. p \in Seq(S)
      BY <1>0
    <3> QED
      BY <3>1, ConcatAt
  <2>2. 1 \in 1 .. Len(p) /\ 2 \in 1 .. Len(p) /\ 3 \in 1 .. Len(p)
    BY <1>0
  <2> HIDE DEF v
  <2> QED
    BY <1>0, <2>1, <2>2
<1>2. SubSeq(v, 1, 3) = p /\ From(v, 4) = t
  <2>1. SubSeq(v, 1, Len(p)) = p /\ From(v, Len(p) + 1) = t
    BY <1>0, PartsOfConcat
  <2> QED
    BY <1>0, <2>1, Zenon
<1> HIDE DEF v
<1>3. LowerDrive(v)
  BY <1>1 DEF LowerDrive
<1>4. ~StartsWith(v, ExtendedMark)
  <2>1. 1 \in 1 .. Len(ExtendedMark) /\ v[1] # ExtendedMark[1]
    BY <1>0, <1>1
  <2> QED
    BY <1>0, <1>1, <2>1, StartsWithMeans
<1>5. RootOf(v) = WindowsAt(p, t)
  BY <1>2, <1>3, <1>4, RootOfIs, Zenon
<1>6. m \in Seq(S) /\ Len(m) = 7 /\ Len(m) + 1 = 8
  <2>1. m \in Seq(S) /\ Len(m) = Len(ExtendedMark) + Len(p)
    BY <1>0, ConcatAt
  <2> HIDE DEF m
  <2> QED
    BY <1>0, <2>1
<1>7. SubSeq(w, 1, 7) = m /\ From(w, 8) = t
  <2> HIDE DEF m
  <2>1. SubSeq(w, 1, Len(m)) = m /\ From(w, Len(m) + 1) = t
    BY <1>6, PartsOfConcat
  <2> QED
    BY <1>6, <2>1, Zenon
<1>8. w = ExtendedMark \o v
  <2>1. (ExtendedMark \o p) \o t = ExtendedMark \o (p \o t)
    <3> HIDE DEF p, m
    <3> QED
      BY <1>0, ConcatAssociative, SMTT(60)
  <2> QED
    BY <2>1, Zenon DEF v
<1>9. StartsWith(w, ExtendedMark) /\ From(w, 5) = v
  <2>1. StartsWith(ExtendedMark \o v, ExtendedMark) /\ From(ExtendedMark \o v, Len(ExtendedMark) + 1) = v
    BY <1>0, <1>1, StartsWithConcat
  <2> QED
    BY <1>0, <1>8, <2>1, Zenon
<1> HIDE DEF w, m
<1>10. RootOf(w) = WindowsAt(m, t)
  BY <1>3, <1>7, <1>9, RootOfIs, Zenon
<1> QED
  BY <1>5, <1>10 DEF v, w, m, p

\* The parts of a share are those of splitRoot.
LEMMA SpecShare ==
  ASSUME NEW mark, NEW S, NEW a \in RealNames(S), NEW b \in RealNames(S), NEW parts \in Seq(RealNames(S))
  PROVE  RootedUnc(mark, <<a, b>> \o parts) = WindowsAt(mark \o a \o <<"/">> \o b, Joined(parts))
<1> DEFINE ps == <<a, b>> \o parts
<1>1. Len(ps) = 2 + Len(parts) /\ ps[1] = a /\ ps[2] = b /\ From(ps, 3) = parts /\ Len(parts) \in Nat
  BY PairAndMore
<1> HIDE DEF ps
<1>2. UncParts(ps)
  <2>1. a \notin DotNames /\ b \notin DotNames
    BY DEF RealNames
  <2> QED
    BY <1>1, <2>1 DEF UncParts, DotNames
<1>3. RootedUnc(mark, ps) = WindowsAt(mark \o a \o <<"/">> \o b, Joined(parts))
  BY <1>1, <1>2, Zenon DEF RootedUnc, WindowsAt
<1> QED
  BY <1>3 DEF ps

\* And a share.
LEMMA SpecUnc ==
  ASSUME NEW S, {"/", "?", ":", "UNC"} \cup Letters \subseteq S,
         NEW a \in RealNames(S), NEW b \in RealNames(S), NEW parts \in Seq(RealNames(S)), a # <<"?">>
  PROVE  RootOf(<<"/", "/">> \o Joined(<<a, b>> \o parts))
         = WindowsAt(<<"/", "/">> \o a \o <<"/">> \o b, Joined(parts))
<1> DEFINE t == Joined(<<a, b>> \o parts)
           m == <<"/", "/">>
           v == m \o t
<1>1. t \in Seq(S) /\ Split(t) = <<a, b>> \o parts /\ ~StartsWith(t, <<"?", "/">>)
  BY ShareText
<1> HIDE DEF t
<1>2. m \in Seq(S) /\ Len(m) = 2 /\ m[1] = "/" /\ m[2] = "/" /\ Len(m) + 1 = 3
  OBVIOUS
<1> HIDE DEF m
<1>3. v \in Seq(S) /\ Len(v) = 2 + Len(t) /\ v[1] = "/" /\ Len(t) \in Nat
      /\ \A i \in 1 .. Len(t) : v[2 + i] = t[i]
  <2>1. 1 \in 1 .. Len(m)
    BY <1>2
  <2>2. /\ v \in Seq(S) /\ Len(v) = Len(m) + Len(t) /\ Len(t) \in Nat
        /\ \A i \in 1 .. Len(m) : v[i] = m[i]
        /\ \A i \in 1 .. Len(t) : v[Len(m) + i] = t[i]
    <3>1. t \in Seq(S) /\ m \in Seq(S)
      BY <1>1, <1>2
    <3> QED
      BY <3>1, ConcatAt
  <2> HIDE DEF v
  <2> QED
    BY <1>2, <2>1, <2>2
<1>4. StartsWith(v, m) /\ From(v, 3) = t
  BY <1>1, <1>2, StartsWithConcat
<1> HIDE DEF v
<1>5. ~LowerDrive(v)
  BY <1>3 DEF LowerDrive, LowerLetters
<1>6. ~StartsWith(v, ExtendedMark)
  <2> SUFFICES ASSUME StartsWith(v, ExtendedMark) PROVE FALSE
    OBVIOUS
  <2>1. ExtendedMark \in Seq(S) /\ Len(ExtendedMark) = 4 /\ ExtendedMark[3] = "?" /\ ExtendedMark[4] = "/"
    BY DEF ExtendedMark
  <2>2. 4 <= Len(v) /\ v[3] = "?" /\ v[4] = "/"
    <3>1. Len(ExtendedMark) <= Len(v) /\ \A i \in 1 .. Len(ExtendedMark) : v[i] = ExtendedMark[i]
      <4>1. v \in Seq(S) /\ ExtendedMark \in Seq(S)
        BY <1>3, <2>1
      <4> QED
        BY <4>1, StartsWithMeans
    <3>2. 3 \in 1 .. Len(ExtendedMark) /\ 4 \in 1 .. Len(ExtendedMark)
      BY <2>1
    <3> QED
      BY <2>1, <3>1, <3>2
  <2>3. Len(t) >= 2 /\ t[1] = "?" /\ t[2] = "/"
    <3>1. 1 \in 1 .. Len(t) /\ 2 \in 1 .. Len(t) /\ 3 = 2 + 1 /\ 4 = 2 + 2
      BY <1>3, <2>2
    <3> QED
      BY <1>1, <1>3, <2>2, <3>1
  <2>4. <<"?", "/">> \in Seq(S) /\ Len(<<"?", "/">>) <= Len(t)
        /\ \A i \in 1 .. Len(<<"?", "/">>) : t[i] = <<"?", "/">>[i]
    BY <2>3
  <2>5. StartsWith(t, <<"?", "/">>)
    BY <1>1, <2>4, StartsWithMeans
  <2> QED
    BY <1>1, <2>5
<1>7. RootOf(v) = RootedUnc(m, <<a, b>> \o parts)
  BY <1>1, <1>4, <1>5, <1>6, RootOfIs, Zenon DEF m
<1>8. RootedUnc(m, <<a, b>> \o parts) = WindowsAt(m \o a \o <<"/">> \o b, Joined(parts))
  BY SpecShare
<1> QED
  BY <1>7, <1>8, Zenon DEF v, m, t

\* And a share under the extended mark.
LEMMA SpecExtendedUnc ==
  ASSUME NEW S, {"/", "?", ":", "UNC"} \cup Letters \subseteq S,
         NEW a \in RealNames(S), NEW b \in RealNames(S), NEW parts \in Seq(RealNames(S))
  PROVE  RootOf(UncMark \o Joined(<<a, b>> \o parts))
         = WindowsAt(UncMark \o a \o <<"/">> \o b, Joined(parts))
<1> DEFINE t == Joined(<<a, b>> \o parts)
           u == <<"UNC", "/">>
           w == u \o t
           v == UncMark \o t
<1>1. t \in Seq(S) /\ Split(t) = <<a, b>> \o parts
  BY ShareText
<1> HIDE DEF t
<1>2. u \in Seq(S) /\ Len(u) = 2 /\ u[1] = "UNC" /\ "UNC" \notin LowerLetters
      /\ ExtendedMark \in Seq(S) /\ Len(ExtendedMark) = 4 /\ Len(ExtendedMark) + 1 = 5 /\ UncMark = ExtendedMark \o u
  BY DEF LowerLetters, ExtendedMark, UncMark
<1> HIDE DEF u
<1>3. w \in Seq(S) /\ w[1] = "UNC"
  <2>1. 1 \in 1 .. Len(u)
    BY <1>2
  <2> QED
    BY <1>1, <1>2, <2>1, ConcatAt
<1>4. UncMark \in Seq(S) /\ Len(UncMark) + 1 = 7
  <2>1. UncMark \in Seq(S) /\ Len(UncMark) = Len(ExtendedMark) + Len(u)
    BY <1>2, ConcatAt
  <2> QED
    BY <1>2, <2>1
<1>5. v = ExtendedMark \o w
  <2>1. t \in Seq(S) /\ u \in Seq(S) /\ ExtendedMark \in Seq(S) /\ UncMark = ExtendedMark \o u
    BY <1>1, <1>2
  <2>2. (ExtendedMark \o u) \o t = ExtendedMark \o (u \o t)
    BY <2>1, ConcatAssociative
  <2> QED
    BY <2>1, <2>2
<1> HIDE DEF w
<1>6. StartsWith(v, ExtendedMark) /\ From(v, 5) = w
  <2>1. StartsWith(ExtendedMark \o w, ExtendedMark) /\ From(ExtendedMark \o w, Len(ExtendedMark) + 1) = w
    BY <1>2, <1>3, StartsWithConcat
  <2> HIDE DEF v
  <2> QED
    BY <1>2, <1>5, <2>1, Zenon
<1>7. StartsWith(v, UncMark) /\ From(v, 7) = t
  <2>1. StartsWith(v, UncMark) /\ From(v, Len(UncMark) + 1) = t
    BY <1>1, <1>4, StartsWithConcat
  <2> QED
    BY <1>4, <2>1, Zenon
<1> HIDE DEF v
<1>8. ~LowerDrive(From(v, 5))
  BY <1>2, <1>3, <1>6 DEF LowerDrive
<1>9. RootOf(v) = RootedUnc(UncMark, <<a, b>> \o parts)
  BY <1>1, <1>6, <1>7, <1>8, RootOfIs, Zenon
<1>10. RootedUnc(UncMark, <<a, b>> \o parts) = WindowsAt(UncMark \o a \o <<"/">> \o b, Joined(parts))
  BY SpecShare
<1> QED
  BY <1>9, <1>10, Zenon DEF v, t

\* A relative text, marked or not, is its names to the script.
LEMMA SpecRelative ==
  ASSUME NEW parts \in Seq(NamesOf("relative")), parts # <<>>
  PROVE  RootOf(Whole("relative", <<>>, parts)) = OtherAt(<<>>, Joined(parts))
<1> DEFINE S == Alphabet("relative")
           j == Joined(parts)
           v == Whole("relative", <<>>, parts)
<1>0. {"/", ".", "?", ":", "UNC"} \cup Letters \subseteq S /\ "." \notin Letters
  BY Signs
<1>1. parts \in Seq(RealNames(S))
  BY DEF NamesOf
<1>2. v \in Seq(S) /\ v # <<>> /\ v[1] # "/" /\ ~NeedsRelativeMarker(v)
  BY RelativeShape
<1> HIDE DEF S
<1>3. j \in Seq(S) /\ j # <<>> /\ ~StartsWith(j, <<".", "/">>)
  BY <1>0, <1>1, JoinedStarts
<1>4. v = IF NeedsRelativeMarker(j) THEN <<".", "/">> \o j ELSE j
  BY <1>3 DEF Whole, MarkRelative
<1> HIDE DEF v, j
<1>5. ~StartsWith(v, <<"/">>) /\ ~StartsWith(v, <<"/", "/">>)
  BY <1>0, <1>2, StartSlash
<1>6. ~StartsWith(v, ExtendedMark)
  <2>1. ExtendedMark \in Seq(S) /\ 1 \in 1 .. Len(ExtendedMark) /\ v[1] # ExtendedMark[1]
    BY <1>0, <1>2 DEF ExtendedMark
  <2> QED
    BY <1>2, <2>1, StartsWithMeans
<1>7. ~LowerDrive(v)
  <2>1. LowerLetters \subseteq Letters
    BY DEF LowerLetters, Letters
  <2> QED
    BY <1>2, <2>1, DriveRootMeans DEF LowerDrive
<1>8. CASE NeedsRelativeMarker(j)
  <2> DEFINE p == <<".", "/">>
  <2>1. p \in Seq(S) /\ Len(p) + 1 = 3
    BY <1>0
  <2> HIDE DEF p
  <2>2. v = p \o j
    BY <1>4, <1>8 DEF p
  <2>3. StartsWith(v, p) /\ From(v, 3) = j
    <3>1. StartsWith(p \o j, p) /\ From(p \o j, Len(p) + 1) = j
      BY <1>3, <2>1, StartsWithConcat
    <3> QED
      BY <2>1, <2>2, <3>1, Zenon
  <2>4. DriveLike(j)
    BY <1>3, <1>8, DriveRootMeans DEF DriveLike
  <2> QED
    BY <1>5, <1>6, <1>7, <2>3, <2>4, RootOfIs, Zenon DEF p, v, j
<1>9. CASE ~NeedsRelativeMarker(j)
  <2>1. v = j
    BY <1>4, <1>9
  <2> QED
    BY <1>3, <1>5, <1>6, <1>7, <2>1, RootOfIs, Zenon DEF v, j
<1> QED
  BY <1>8, <1>9

\* What the script asks of a text whose root and rest it has found.
LEMMA SpecAccepts ==
  ASSUME NEW kind, NEW v \in Seq(Alphabet(kind)), v # <<>>,
         DriveLike(v) => Len(v) >= 3 /\ v[3] = "/" /\ v[1] \in LowerLetters,
         NEW prefix, NEW parts \in Seq(NamesOf(kind)),
         RootOf(v) = (IF IsWindowsRoot(kind) THEN WindowsAt(prefix, Joined(parts)) ELSE OtherAt(prefix, Joined(parts))),
         (prefix # <<>> /\ v = prefix) \/ (parts # <<>> /\ ~EndsWith(v, "/"))
  PROVE  AssertCanonicalPath(v)
<1> DEFINE S == Alphabet(kind)
<1>1. ~Has(v, NUL)
  BY NoNul
<1>2. RootOf(v).ok /\ RootOf(v).prefix = prefix /\ RootOf(v).rest = Joined(parts)
      /\ (RootOf(v).windows => IsWindowsRoot(kind))
  BY DEF WindowsAt, OtherAt, Rooted
<1>3. RootOf(v).windows => ~Has(v, "\\")
  <2>1. IsWindowsRoot(kind) => "\\" \notin Alphabet(kind)
    BY DEF Alphabet
  <2> QED
    BY <1>2, <2>1, HasMeans
<1>4. parts # <<>> => ToSet(Split(RootOf(v).rest)) \cap {<<>>, <<".">>, <<".", ".">>} = {}
  <2> SUFFICES ASSUME parts # <<>> PROVE ToSet(Split(RootOf(v).rest)) \cap DotNames = {}
    BY DEF DotNames
  <2>1. "/" \in S
    BY Signs
  <2>2. parts \in Seq(RealNames(S))
    BY DEF NamesOf
  <2>3. Split(Joined(parts)) = parts
    <3> HIDE DEF S
    <3> QED
      BY <2>1, <2>2, JoinedStarts
  <2>4. ToSet(parts) \subseteq RealNames(S)
    BY <2>2 DEF ToSet
  <2> QED
    BY <1>2, <2>3, <2>4 DEF RealNames
<1> QED
  BY <1>1, <1>2, <1>3, <1>4, Zenon DEF AssertCanonicalPath

\* A text that starts with a slash is no drive.
LEMMA NoDriveAtSlash ==
  ASSUME NEW v, v[1] = "/"
  PROVE  ~DriveLike(v)
BY DEF DriveLike, Letters

\* Texts put together start as the first does.
LEMMA StartOfConcat ==
  ASSUME NEW S, NEW p \in Seq(S), p # <<>>, NEW t \in Seq(S)
  PROVE  (p \o t)[1] = p[1] /\ p \o t # <<>> /\ p \o t \in Seq(S)
<1>1. 1 \in 1 .. Len(p)
  OBVIOUS
<1> QED
  BY <1>1, ConcatAt

\* The script finds the root of every identity, and the names under it.
LEMMA SpecRoot ==
  ASSUME NEW kind, NEW prefix, RootAt(kind, prefix), NEW parts \in Seq(NamesOf(kind)),
         kind = "relative" => parts # <<>>
  PROVE  RootOf(Whole(kind, prefix, parts))
         = IF IsWindowsRoot(kind) THEN WindowsAt(prefix, Joined(parts)) ELSE OtherAt(prefix, Joined(parts))
<1> DEFINE S == Alphabet(kind)
           j == Joined(parts)
           v == Whole(kind, prefix, parts)
<1>0. {"/", ".", "?", ":", "UNC"} \cup Letters \subseteq S
  BY Signs
<1>1. parts \in Seq(RealNames(S))
  BY DEF NamesOf
<1>2. prefix \in Seq(S)
  BY RootAtLength
<1> HIDE DEF S
<1>3. j \in Seq(S) /\ (parts = <<>> => j = <<>>)
  BY <1>0, <1>1, ReadsJoined, JoinedOfNothing
<1>4. CASE kind = "relative"
  <2>1. prefix = <<>> /\ ~IsWindowsRoot(kind)
    BY <1>4 DEF RootAt, IsWindowsRoot
  <2> QED
    BY <1>4, <2>1, SpecRelative
<1>5. kind \notin Uncs /\ kind # "relative" => v = prefix \o j
  <2>1. prefix \o <<>> = prefix
    BY <1>2, ConcatEmptySeq
  <2> QED
    BY <1>3, <2>1 DEF Whole
<1>6. CASE kind = "posix"
  <2>1. prefix = <<"/">> /\ ~IsWindowsRoot(kind) /\ v = prefix \o j
    BY <1>5, <1>6 DEF RootAt, IsWindowsRoot, Uncs
  <2>2. j # <<>> => j[1] # "/"
    BY <1>0, <1>1, <1>3, JoinedStarts
  <2> HIDE DEF v, j
  <2>3. RootOf(v) = OtherAt(<<"/">>, j)
    BY <1>0, <1>3, <2>1, <2>2, SpecPosix
  <2> QED
    BY <2>1, <2>3, Zenon DEF v, j
<1>7. CASE kind \in {"drive", "extended-drive"}
  <2>1. IsWindowsRoot(kind) /\ v = prefix \o j
    BY <1>5, <1>7 DEF IsWindowsRoot, Uncs
  <2>2. \E l \in LowerLetters : prefix = <<l, ":", "/">> \/ prefix = ExtendedMark \o <<l, ":", "/">>
    BY <1>7 DEF RootAt
  <2> HIDE DEF v, j
  <2>3. RootOf(v) = WindowsAt(prefix, j)
    BY <1>0, <1>3, <2>1, <2>2, SpecDrive, Zenon
  <2> QED
    BY <2>1, <2>3, Zenon DEF v, j
<1>8. CASE kind = "unc"
  <2> DEFINE m == <<"/", "/">>
  <2>1. PICK a \in RealNames(S), b \in RealNames(S) : a # <<"?">> /\ prefix = m \o a \o <<"/">> \o b
    BY <1>8 DEF RootAt, NamesOf, S
  <2>2. v = IF parts = <<>> THEN prefix ELSE prefix \o <<"/">> \o Joined(parts)
    BY <1>8 DEF Whole, Uncs
  <2>3. m \in Seq(S) /\ "/" \in S
    BY <1>0
  <2>4. RootOf(m \o Joined(<<a, b>> \o parts)) = WindowsAt(m \o a \o <<"/">> \o b, Joined(parts))
    BY <1>0, <1>1, <2>1, SpecUnc
  <2>5. IsWindowsRoot(kind)
    BY <1>8 DEF IsWindowsRoot
  <2> HIDE DEF m, v
  <2>6. Same(IF parts = <<>> THEN m \o a \o <<"/">> \o b ELSE m \o a \o <<"/">> \o b \o <<"/">> \o Joined(parts),
             m \o Joined(<<a, b>> \o parts))
    BY <1>1, <2>3, ShareJoined
  <2>7. v = m \o Joined(<<a, b>> \o parts)
    BY <2>1, <2>2, <2>6, Zenon DEF Same
  <2> QED
    BY <2>1, <2>4, <2>5, <2>7, Zenon DEF v
<1>9. CASE kind = "extended-unc"
  <2>1. PICK a \in RealNames(S), b \in RealNames(S) : prefix = UncMark \o a \o <<"/">> \o b
    BY <1>9 DEF RootAt, NamesOf, S, UncMark
  <2>2. v = IF parts = <<>> THEN prefix ELSE prefix \o <<"/">> \o Joined(parts)
    BY <1>9 DEF Whole, Uncs
  <2>3. UncMark \in Seq(S) /\ "/" \in S
    BY <1>0 DEF UncMark, ExtendedMark
  <2>4. RootOf(UncMark \o Joined(<<a, b>> \o parts)) = WindowsAt(UncMark \o a \o <<"/">> \o b, Joined(parts))
    BY <1>0, <1>1, <2>1, SpecExtendedUnc
  <2>5. IsWindowsRoot(kind)
    BY <1>9 DEF IsWindowsRoot
  <2> HIDE DEF v
  <2>6. Same(IF parts = <<>> THEN UncMark \o a \o <<"/">> \o b ELSE UncMark \o a \o <<"/">> \o b \o <<"/">> \o Joined(parts),
             UncMark \o Joined(<<a, b>> \o parts))
    BY <1>1, <2>3, ShareJoined
  <2>7. v = UncMark \o Joined(<<a, b>> \o parts)
    BY <2>1, <2>2, <2>6, Zenon DEF Same
  <2> QED
    BY <2>1, <2>4, <2>5, <2>7, Zenon DEF v
<1> QED
  BY <1>4, <1>6, <1>7, <1>8, <1>9 DEF RootAt

\* The two ends of an identity with a root: a drive only in lower case, and no
\* slash after a name.
LEMMA WholeEnds ==
  ASSUME NEW kind, NEW prefix, RootAt(kind, prefix), NEW parts \in Seq(NamesOf(kind)), kind # "relative"
  PROVE  LET v == Whole(kind, prefix, parts)
         IN /\ DriveLike(v) => Len(v) >= 3 /\ v[3] = "/" /\ v[1] \in LowerLetters
            /\ (prefix # <<>> /\ v = prefix) \/ (parts # <<>> /\ ~EndsWith(v, "/"))
<1> DEFINE S == Alphabet(kind)
           j == Joined(parts)
           sep == IF kind \in Uncs THEN <<"/">> ELSE <<>>
           v == Whole(kind, prefix, parts)
<1>0. {"/", ":"} \cup Letters \subseteq S /\ "/" \notin Letters /\ LowerLetters \subseteq Letters
  BY Signs
<1>1. parts \in Seq(RealNames(S))
  BY DEF NamesOf
<1>2. prefix \in Seq(S) /\ prefix # <<>> /\ prefix[1] \in LowerLetters \cup {"/"}
  BY RootAtLength
<1> HIDE DEF S
<1>3. j \in Seq(S) /\ sep \in Seq(S)
  BY <1>0, <1>1, ReadsJoined
<1>4. v = IF parts = <<>> THEN prefix ELSE prefix \o sep \o j
  BY DEF Whole
<1>5. prefix \o sep \in Seq(S) /\ prefix \o (sep \o j) = prefix \o sep \o j /\ sep \o j \in Seq(S)
  <2> HIDE DEF j, sep
  <2>1. Same(prefix \o sep \o j, prefix \o (sep \o j))
    BY <1>2, <1>3, Moved
  <2> QED
    BY <1>2, <1>3, <2>1, ConcatProperties, Zenon DEF Same
<1>6. parts # <<>> => ~EndsWith(v, "/")
  <2> SUFFICES ASSUME parts # <<>> PROVE ~EndsWith(v, "/")
    OBVIOUS
  <2>1. j # <<>> /\ j[Len(j)] # "/"
    <3>1. Len(j) \in Nat \ {0}
      BY <1>0, <1>1, JoinedStarts
    <3> QED
      BY <1>0, <1>1, <3>1, JoinedEnds
  <2> HIDE DEF j, sep, v
  <2>2. EndsWith((prefix \o sep) \o j, "/") <=> j[Len(j)] = "/"
    BY <1>3, <1>5, <2>1, EndsWithMeans
  <2> QED
    BY <1>4, <2>1, <2>2, Zenon
<1>7. DriveLike(v) => Len(v) >= 3 /\ v[3] = "/" /\ v[1] \in LowerLetters
  <2>1. v[1] = prefix[1]
    <3> HIDE DEF j, sep, v
    <3>1. (prefix \o (sep \o j))[1] = prefix[1]
      BY <1>2, <1>5, StartOfConcat
    <3> QED
      BY <1>4, <1>5, <3>1, Zenon
  <2>2. CASE kind # "drive"
    <3>1. prefix[1] = "/"
      <4>1. kind \in Uncs \cup {"posix", "extended-drive"}
        BY <2>2 DEF RootAt, Uncs
      <4>2. ASSUME NEW m \in Seq(S), NEW t \in Seq(S), m # <<>>, m[1] = "/", prefix = m \o t PROVE prefix[1] = "/"
        BY <4>2, StartOfConcat
      <4>3. CASE kind = "posix"
        BY <4>3 DEF RootAt
      <4>4. CASE kind = "extended-drive"
        <5>1. PICK l \in LowerLetters : prefix = ExtendedMark \o <<l, ":", "/">>
          BY <4>4 DEF RootAt
        <5> DEFINE t == <<l, ":", "/">>
        <5>2. t \in Seq(S)
          BY <1>0
        <5>3. ExtendedMark \in Seq(S) /\ ExtendedMark # <<>> /\ ExtendedMark[1] = "/"
          BY <1>2, <4>4, Signs DEF ExtendedMark, S
        <5> HIDE DEF t
        <5> QED
          BY <4>2, <5>1, <5>2, <5>3 DEF t
      <4>5. CASE kind \in Uncs
        <5>1. PICK m \in {<<"/", "/">>, ExtendedMark \o <<"UNC", "/">>}, a \in NamesOf(kind), b \in NamesOf(kind) :
                prefix = m \o a \o <<"/">> \o b
          BY <4>5 DEF RootAt, Uncs
        <5>2. m \in Seq(S) /\ m # <<>> /\ m[1] = "/"
          <6>1. {"/", "?", "UNC"} \subseteq S
            BY Signs DEF S
          <6>2. /\ ExtendedMark \in Seq(S) /\ ExtendedMark # <<>> /\ ExtendedMark[1] = "/"
                /\ <<"UNC", "/">> \in Seq(S) /\ <<"/", "/">> \in Seq(S)
            BY <6>1 DEF ExtendedMark
          <6>3. (ExtendedMark \o <<"UNC", "/">>)[1] = "/" /\ ExtendedMark \o <<"UNC", "/">> # <<>>
                /\ ExtendedMark \o <<"UNC", "/">> \in Seq(S)
            BY <6>2, StartOfConcat
          <6>4. <<"/", "/">> # <<>> /\ <<"/", "/">>[1] = "/"
            OBVIOUS
          <6>5. CASE m = <<"/", "/">>
            BY <6>2, <6>4, <6>5
          <6>6. CASE m = ExtendedMark \o <<"UNC", "/">>
            BY <6>3, <6>6, Zenon
          <6> QED
            BY <5>1, <6>5, <6>6
        <5>3. a \in Seq(S) /\ b \in Seq(S) /\ <<"/">> \in Seq(S)
          BY <1>0, NamesAreTexts DEF NamesOf, S
        <5>4. (m \o a)[1] = "/" /\ m \o a # <<>> /\ m \o a \in Seq(S)
          BY <5>2, <5>3, StartOfConcat
        <5> DEFINE q == m \o a
        <5> HIDE DEF q
        <5>5. (q \o <<"/">>)[1] = "/" /\ q \o <<"/">> # <<>> /\ q \o <<"/">> \in Seq(S)
          BY <5>3, <5>4, StartOfConcat DEF q
        <5> DEFINE r == q \o <<"/">>
        <5> HIDE DEF r
        <5>6. prefix = r \o b
          BY <5>1 DEF q, r
        <5> QED
          BY <4>2, <5>3, <5>5, <5>6 DEF r
      <4> QED
        BY <4>1, <4>3, <4>4, <4>5
    <3> QED
      BY <2>1, <3>1, NoDriveAtSlash
  <2>3. CASE kind = "drive"
    <3>1. PICK l \in LowerLetters : prefix = <<l, ":", "/">>
      BY <2>3 DEF RootAt
    <3>2. Len(prefix) = 3 /\ prefix[3] = "/" /\ prefix[1] = l /\ 3 \in 1 .. Len(prefix)
      BY <3>1
    <3>3. /\ Len(prefix \o (sep \o j)) = Len(prefix) + Len(sep \o j) /\ Len(sep \o j) \in Nat
          /\ (prefix \o (sep \o j))[3] = prefix[3]
      <4> HIDE DEF j, sep
      <4> QED
        <5>1. prefix \in Seq(S) /\ sep \in Seq(S) /\ j \in Seq(S)
          BY <1>2, <1>5
        <5>2. sep \o j \in Seq(S) /\ Len(sep \o j) \in Nat
          BY <5>1, ConcatAt
        <5>3. /\ Len(prefix \o (sep \o j)) = Len(prefix) + Len(sep \o j)
              /\ \A i \in 1 .. Len(prefix) : (prefix \o (sep \o j))[i] = prefix[i]
          BY <5>1, <5>2, ConcatAt
        <5> QED
          BY <3>2, <5>2, <5>3
    <3> QED
      BY <1>4, <1>5, <2>1, <3>2, <3>3
  <2> QED
    BY <2>2, <2>3
<1> QED
  BY <1>2, <1>4, <1>6, <1>7

\* The script calls every identity canonical.
LEMMA WholeIsAccepted ==
  ASSUME NEW kind, NEW prefix, RootAt(kind, prefix), NEW parts \in Seq(NamesOf(kind))
  PROVE  AssertCanonicalPath(Whole(kind, prefix, parts))
<1> DEFINE v == Whole(kind, prefix, parts)
<1>1. v \in Seq(Alphabet(kind)) /\ v # <<>>
  BY WholeText
<1>2. CASE kind # "relative"
  <2>1. DriveLike(v) => Len(v) >= 3 /\ v[3] = "/" /\ v[1] \in LowerLetters
    BY <1>2, WholeEnds
  <2>2. (prefix # <<>> /\ v = prefix) \/ (parts # <<>> /\ ~EndsWith(v, "/"))
    BY <1>2, WholeEnds
  <2>3. RootOf(v) = IF IsWindowsRoot(kind) THEN WindowsAt(prefix, Joined(parts)) ELSE OtherAt(prefix, Joined(parts))
    BY <1>2, SpecRoot
  <2> HIDE DEF v
  <2> QED
    BY <1>1, <2>1, <2>2, <2>3, SpecAccepts DEF v
<1>3. CASE kind = "relative"
  <2>1. prefix = <<>>
    BY <1>3 DEF RootAt
  <2>2. ~DriveLike(v) /\ ~EndsWith(v, "/")
    BY <1>1, <1>3, <2>1, RelativeShape, DriveRootMeans DEF DriveLike
  <2>3. CASE parts # <<>>
    <3>1. RootOf(v) = IF IsWindowsRoot(kind) THEN WindowsAt(prefix, Joined(parts)) ELSE OtherAt(prefix, Joined(parts))
      BY <2>3, SpecRoot
    <3> HIDE DEF v
    <3> QED
      BY <1>1, <2>2, <2>3, <3>1, SpecAccepts DEF v
  <2>4. CASE parts = <<>>
    <3>1. v = <<".">>
      BY <1>3, <2>4, JoinedOfNothing DEF Whole, MarkRelative
    <3>2. ~Has(v, NUL)
      BY <1>1, NoNul
    <3> QED
      BY <1>1, <2>2, <3>1, <3>2 DEF AssertCanonicalPath
  <2> QED
    BY <2>3, <2>4
<1> QED
  BY <1>2, <1>3

\* The identity in hand is canonical to the script.
LEMMA BelowIsAccepted ==
  ASSUME NEW r, NEW p, NEW o, Below(r, p, o)
  PROVE  AssertCanonicalPath(r) /\ AssertCanonicalPath(p) /\ p # <<>>
<1>1. PICK kind, prefix, above, below :
         /\ Made(kind, prefix, above, o) /\ below \in Seq(NamesOf(kind))
         /\ r = Whole(kind, prefix, above) /\ p = Whole(kind, prefix, above \o below)
  BY Zenon DEF Below
<1>2. RootAt(kind, prefix) /\ above \in Seq(NamesOf(kind)) /\ above \o below \in Seq(NamesOf(kind))
  BY <1>1, BelowIsText
<1> DEFINE ps == above \o below
<1>3. ps \in Seq(NamesOf(kind)) /\ r = Whole(kind, prefix, above) /\ p = Whole(kind, prefix, ps)
  BY <1>1, <1>2
<1> HIDE DEF ps
<1> QED
  BY <1>2, <1>3, WholeIsAccepted, WholeText

\* A relative identity is a relative path to the script.
LEMMA RelativeIsAccepted ==
  ASSUME NEW parts \in Seq(NamesOf("relative"))
  PROVE  AssertCanonicalRelativePath(Whole("relative", <<>>, parts), FALSE)
<1> DEFINE v == Whole("relative", <<>>, parts)
<1>1. AssertCanonicalPath(v)
  BY WholeIsAccepted DEF RootAt
<1>2. v \in Seq(Alphabet("relative")) /\ v[1] # "/" /\ ~NeedsRelativeMarker(v)
  BY RelativeShape
<1> HIDE DEF v
<1>3. ~StartsWith(v, <<"/">>) /\ ~DriveLike(v)
  BY <1>2, Signs, StartSlash, DriveRootMeans DEF DriveLike
<1> QED
  BY <1>1, <1>3 DEF AssertCanonicalRelativePath, v

\* What relative returns below the root is a relative path to the script.
LEMMA RelativeVectorHolds ==
  ASSUME NEW r, NEW p, NEW o, Below(r, p, o)
  PROVE  RelativeVector(r, p, Relative(r, p))
<1>1. PICK kind, prefix, above, below :
         /\ Made(kind, prefix, above, o) /\ below \in Seq(NamesOf(kind))
         /\ r = Whole(kind, prefix, above) /\ p = Whole(kind, prefix, above \o below)
  BY Zenon DEF Below
<1>2. RootAt(kind, prefix) /\ above \in Seq(NamesOf(kind)) /\ above \o below \in Seq(NamesOf(kind))
  BY <1>1, BelowIsText
<1>3. AssertCanonicalPath(r) /\ AssertCanonicalPath(p)
  BY BelowIsAccepted
<1>4. IsOk(Relative(r, p)) => Relative(r, p).value = Whole("relative", <<>>, below)
  <2>1. IsOk(Relative(r, p)) => Relative(r, p) = Ok(MarkRelative(Joined(below)))
    BY <1>1, <1>2, RelativeOf
  <2> QED
    BY <2>1, Outcomes, Zenon DEF Whole
<1>5. below \in Seq(NamesOf("relative"))
  BY <1>1, NamesForRelative, SeqMonotonic
<1>6. AssertCanonicalRelativePath(Whole("relative", <<>>, below), FALSE)
  BY <1>5, RelativeIsAccepted
<1> QED
  BY <1>3, <1>4, <1>6, Zenon DEF RelativeVector

\* A symbol that is not trimmed stays.
LEMMA TrimmedKeeps ==
  ASSUME NEW S, NEW s \in Seq(S), NEW set, NEW x, x \notin set, Has(s, x)
  PROVE  Has(Trimmed(s, set, TRUE), x)
<1> DEFINE kept == {i \in DOMAIN s : s[i] \notin set}
           lo == CHOOSE i \in kept : \A j \in kept : i <= j
           hi == CHOOSE i \in kept : \A j \in kept : j <= i
<1>1. PICK k \in 1 .. Len(s) : s[k] = x
  BY HasMeans
<1>2. k \in kept /\ kept \subseteq 1 .. Len(s) /\ Len(s) \in Nat
  BY <1>1
<1>3. lo \in kept /\ lo <= k
  <2>1. \E i \in kept : \A j \in kept : i <= j
    <3>1. kept \subseteq Nat /\ kept # {}
      BY <1>2
    <3> HIDE DEF kept
    <3> QED
      BY <3>1, LeastNatural
  <2> HIDE DEF kept
  <2> QED
    BY <1>2, <2>1
<1>4. hi \in kept /\ k <= hi
  <2> HIDE DEF kept
  <2>1. \E i \in kept : \A j \in kept : j <= i
    BY <1>2, GreatestOf
  <2> QED
    BY <1>2, <2>1
<1>5. Trimmed(s, set, TRUE) = SubSeq(s, lo, hi)
  <2>1. kept # {}
    BY <1>2
  <2> QED
    BY <2>1, Zenon DEF Trimmed, kept, lo, hi
<1> HIDE DEF kept, lo, hi
<1>6. lo \in Nat \ {0} /\ hi \in Nat /\ hi <= Len(s) /\ lo <= k /\ k <= hi
  BY <1>2, <1>3, <1>4
<1> DEFINE t == SubSeq(s, lo, hi)
<1>7. t \in Seq(S) /\ Len(t) = hi - lo + 1 /\ \A i \in 1 .. hi - lo + 1 : t[i] = s[lo + i - 1]
  BY <1>6, PartType
<1> HIDE DEF t
<1>8. k - lo + 1 \in 1 .. Len(t) /\ t[k - lo + 1] = x
  <2>1. k - lo + 1 \in 1 .. hi - lo + 1 /\ lo + (k - lo + 1) - 1 = k
    BY <1>6
  <2> QED
    BY <1>1, <1>7, <2>1
<1>10. Has(t, x) <=> \E i \in 1 .. Len(t) : t[i] = x
  <2>1. t \in Seq(S)
    BY <1>7
  <2> QED
    BY <2>1, HasMeans, Zenon
<1>9. Has(t, x)
  BY <1>8, <1>10, Zenon
<1> QED
  BY <1>5, <1>9, Zenon DEF t

\* normalize refuses a NUL byte before it looks at anything else, and what it
\* returns is canonical to the script.
LEMMA NormalizeVectorHolds ==
  ASSUME NEW text \in Seq(Symbols), NEW o, o.mountRoot \in Seq(Symbols), o.trimOuterWhitespace \in BOOLEAN
  PROVE  LET r == Normalize(text, o)
         IN NormalizeVector(text, [code |-> r.code, value |-> IF IsOk(r) THEN r.value ELSE <<>>])
<1> DEFINE r == Normalize(text, o)
           x == [code |-> r.code, value |-> IF IsOk(r) THEN r.value ELSE <<>>]
           w == IF o.trimOuterWhitespace THEN Trimmed(text, {" "}, TRUE) ELSE text
<1>1. ASSUME Has(text, NUL) PROVE r.code = "ERR_NUL_BYTE"
  <2>1. Has(w, NUL)
    <3>1. NUL \notin {" "}
      BY DEF NUL
    <3> QED
      BY <1>1, <3>1, TrimmedKeeps
  <2>2. w \in Seq(Symbols)
    <3>1. TRUE \in BOOLEAN
      OBVIOUS
    <3>2. Trimmed(text, {" "}, TRUE) \in Seq(Symbols)
      BY <3>1, TrimmedType
    <3> QED
      BY <3>2, Zenon
  <2>3. w # <<>>
    <3> HIDE DEF w
    <3>1. Has(w, NUL) <=> \E i \in 1 .. Len(w) : w[i] = NUL
      BY <2>2, HasMeans
    <3> QED
      BY <2>1, <3>1
  <2> HIDE DEF w
  <2>4. \A rest : Unless(w = <<>>, "ERR_EMPTY_PATH", Unless(Has(w, NUL), "ERR_NUL_BYTE", rest)) = Err("ERR_NUL_BYTE")
    BY <2>1, <2>3, Zenon DEF Unless
  <2>5. r = Err("ERR_NUL_BYTE")
    BY <2>4, Zenon DEF Normalize, w, r
  <2> QED
    BY <2>5 DEF Err
<1>2. ASSUME IsOk(r) PROVE AssertCanonicalPath(r.value)
  <2>1. PICK kind, prefix, kept : Made(kind, prefix, kept, o) /\ r = Ok(Whole(kind, prefix, kept))
    BY <1>2, NormalizeGives
  <2>2. r.value = Whole(kind, prefix, kept)
    BY <2>1, Outcomes
  <2> QED
    BY <2>1, <2>2, WholeIsAccepted DEF Made
<1> HIDE DEF r
<1>3. x.code = r.code /\ (IsOk(r) => x.value = r.value) /\ (IsOk(x) <=> IsOk(r))
  BY DEF IsOk
<1> HIDE DEF x
<1>4. NormalizeVector(text, x)
  BY <1>1, <1>2, <1>3, Zenon DEF NormalizeVector
<1> QED
  BY <1>4, Zenon DEF x, r

(***************************************************************************)
(* Operands that the script calls cleanable                                *)
(***************************************************************************)
\* What a component adds to the depth of a relative text.
DepthStep(part) == IF part \notin {<<>>, <<".">>, <<".", ".">>} THEN 1 ELSE IF part = <<".", ".">> THEN -1 ELSE 0
Depths(f, parts) == f[0] = 0 /\ \A i \in 1 .. Len(parts) : f[i] = f[i - 1] + DepthStep(parts[i])

\* The depths that the script computes are what their recursion describes.
LEMMA DepthIsRecursive ==
  ASSUME NEW v, Len(Split(v)) \in Nat, ~AssertCleanableCanonicalRelativePath(v),
         v # <<>>, ~Has(v, NUL), ~StartsWith(v, <<"/">>), ~DriveLike(v)
  PROVE  \E f \in [0 .. Len(Split(v)) -> Int] :
           Depths(f, Split(v)) /\ \E i \in 0 .. Len(Split(v)) : f[i] < 0
<1> DEFINE parts == Split(v)
           n == Len(parts)
           step == [i \in 1 .. n |-> [d \in Int |-> d + DepthStep(parts[i])]]
           reals == {i \in DOMAIN parts : parts[i] \notin {<<>>, <<".">>, <<".", ".">>}}
           ups == {i \in DOMAIN parts : parts[i] = <<".", ".">>}
           change(i) == IF i \in reals THEN 1 ELSE IF i \in ups THEN -1 ELSE 0
           Eq(h) == h = [i \in 0 .. Len(parts) |->
                           IF i = 0 THEN 0
                           ELSE h[i - 1] + (IF i \in reals THEN 1 ELSE IF i \in ups THEN -1 ELSE 0)]
           c == CHOOSE h : Eq(h)
<1>1. n \in Nat /\ 0 \in Int
  OBVIOUS
<1>2. \A part : DepthStep(part) \in Int
  BY DEF DepthStep
<1>3. step \in [1 .. n -> [Int -> Int]]
  BY <1>2
<1>4. \A i \in 1 .. n : \A d \in Int : step[i][d] = d + DepthStep(parts[i])
  OBVIOUS
<1>5. PICK f \in [0 .. n -> Int] : Recursive(f, n, 0, step)
  <2> HIDE DEF step, n
  <2> QED
    BY <1>1, <1>3, RecursionExists
<1>6. Depths(f, parts)
  <2>1. f[0] = 0
    BY <1>5 DEF Recursive
  <2>2. ASSUME NEW i \in 1 .. n PROVE f[i] = f[i - 1] + DepthStep(parts[i])
    <3>1. f[i - 1] \in Int
      BY <1>1
    <3>2. f[i] = step[i][f[i - 1]]
      BY <1>5 DEF Recursive
    <3> HIDE DEF step
    <3> QED
      BY <1>4, <3>1, <3>2
  <2> QED
    BY <2>1, <2>2 DEF Depths
<1>7. \A i \in 1 .. n : change(i) = DepthStep(parts[i])
  <2>1. DOMAIN parts = 1 .. n
    <3>1. \E m \in Nat : DOMAIN parts = 1 .. m
      <4> QED
        OBVIOUS
    <3> QED
      BY <3>1
  <2> HIDE DEF n
  <2> QED
    BY <2>1, Zenon DEF DepthStep
<1>8. Eq(f)
  <2> HIDE DEF n, reals, ups
  <2>1. \A i \in 0 .. n : f[i] = IF i = 0 THEN 0 ELSE f[i - 1] + change(i)
    BY <1>1, <1>6, <1>7 DEF Depths, n
  <2> QED
    BY <2>1 DEF n
<1>9. Eq(c)
  <2> HIDE DEF Eq
  <2> QED
    BY <1>8, Zenon
<1>10. PICK bad \in 0 .. n : ~(c[bad] >= 0)
  BY Zenon DEF AssertCleanableCanonicalRelativePath
<1> HIDE DEF Eq, c
<1>11. c[0] = 0 /\ \A i \in 1 .. n : c[i] = c[i - 1] + DepthStep(parts[i])
  <2>1. c = [i \in 0 .. n |-> IF i = 0 THEN 0 ELSE c[i - 1] + change(i)]
    BY <1>9, Zenon DEF Eq
  <2> HIDE DEF n, change
  <2> QED
    BY <1>1, <1>7, <2>1
<1>12. \A i \in 0 .. n : c[i] = f[i]
  <2>1. Follows(c, n, Int, 0, step)
    <3> HIDE DEF step
    <3> QED
      BY <1>4, <1>11 DEF Follows
  <2> DEFINE V == Int
  <2>2. f \in [0 .. n -> V] /\ Follows(c, n, V, 0, step) /\ Recursive(f, n, 0, step) /\ n \in Nat
    BY <1>1, <1>5, <2>1
  <2> HIDE DEF step, n, V
  <2> QED
    BY <2>2, RecursionFollowed
<1>13. f[bad] < 0
  BY <1>10, <1>12
<1> QED
  BY <1>6, <1>13

\* A step of cleanComponents in a relative text.
RelativeStep(r, part, outsideCode) == CleanStep(r, part, FALSE, outsideCode)

\* One step down, up or to stay.
Deeper(next, r, part) == Len(next.value) = Len(r.value) + DepthStep(part)

\* What one step of cleanComponents does to the number of names that are kept.
LEMMA CleanStepDepth ==
  ASSUME NEW T, NEW r, NEW part, NEW code0, IsOk(r) => r.value \in Seq(T), part \in DotNames \/ part \in T,
         code0 # "ok", IsOk(RelativeStep(r, part, code0))
  PROVE  /\ IsOk(r) /\ RelativeStep(r, part, code0).value \in Seq(T)
         /\ Deeper(RelativeStep(r, part, code0), r, part)
<1> DEFINE next == RelativeStep(r, part, code0)
           kept == r.value
<1>1. IsOk(r)
  BY DEF RelativeStep, CleanStep, Then
<1>2. kept \in Seq(T) /\ Len(kept) \in Nat
  BY <1>1
<1> HIDE DEF kept
<1>3. next = IF part \in {<<>>, <<".">>} THEN Ok(kept)
             ELSE IF part # <<".", ".">> THEN Ok(Append(kept, part))
             ELSE IF kept # <<>> THEN Ok(Front(kept)) ELSE Err(code0)
  BY <1>1, Zenon DEF RelativeStep, CleanStep, Then, Unless, kept
<1>4. IsOk(next) /\ ~IsOk(Err(code0))
  BY Outcomes
<1> HIDE DEF next
<1>5. CASE part \in {<<>>, <<".">>}
  <2>1. next.value = kept
    BY <1>3, <1>5, Outcomes
  <2>2. DepthStep(part) = 0
    <3>1. part \in {<<>>, <<".">>, <<".", ".">>} /\ part # <<".", ".">>
      <4>1. <<".">> # <<".", ".">> /\ <<>> # <<".", ".">>
        OBVIOUS
      <4> QED
        BY <1>5, <4>1, Zenon
    <3> QED
      BY <3>1, Zenon DEF DepthStep
  <2>3. Len(next.value) = Len(kept) + DepthStep(part) /\ next.value \in Seq(T)
    BY <1>2, <2>1, <2>2
  <2> QED
    BY <1>1, <2>3, Zenon DEF next, kept, Deeper
<1>6. CASE part \notin {<<>>, <<".">>} /\ part # <<".", ".">>
  <2>1. next = Ok(Append(kept, part))
    BY <1>3, <1>6, Zenon
  <2>2. next.value = Append(kept, part)
    BY <2>1, Outcomes
  <2>3. part \in T /\ DepthStep(part) = 1
    BY <1>6 DEF DepthStep, DotNames
  <2>4. Append(kept, part) \in Seq(T) /\ Len(Append(kept, part)) = Len(kept) + 1
    BY <1>2, <2>3, AppendProperties
  <2> QED
    BY <1>1, <2>2, <2>3, <2>4, Zenon DEF next, kept, Deeper
<1>7. CASE part = <<".", ".">>
  <2>0. part \notin {<<>>, <<".">>}
    BY <1>7
  <2>1. kept # <<>> /\ next = Ok(Front(kept))
    BY <1>3, <1>4, <1>7, <2>0, Zenon
  <2>2. next.value = Front(kept)
    BY <2>1, Outcomes
  <2>3. DepthStep(part) = -1
    BY <1>7, <2>0 DEF DepthStep
  <2>4. Front(kept) \in Seq(T) /\ Len(Front(kept)) = Len(kept) - 1
    <3>1. Front(kept) = SubSeq(kept, 1, Len(kept) - 1)
      BY DEF Front
    <3>2. Len(kept) - 1 \in Nat /\ Len(kept) - 1 <= Len(kept) /\ 1 \in Nat \ {0}
      BY <1>2, <2>1
    <3>3. /\ SubSeq(kept, 1, Len(kept) - 1) \in Seq(T)
          /\ Len(SubSeq(kept, 1, Len(kept) - 1)) = IF 1 <= Len(kept) - 1 THEN Len(kept) - 1 - 1 + 1 ELSE 0
      BY <1>2, <3>2, PartType
    <3> DEFINE n == Len(kept) - 1
               u == SubSeq(kept, 1, n)
    <3>4. Front(kept) = u /\ n \in Nat /\ u \in Seq(T) /\ Len(u) = IF 1 <= n THEN n - 1 + 1 ELSE 0
      BY <3>1, <3>2, <3>3
    <3> HIDE DEF n, u
    <3>5. Front(kept) \in Seq(T) /\ Len(Front(kept)) = n
      BY <3>4
    <3> QED
      BY <3>5 DEF n
  <2>5. Len(next.value) = Len(kept) + DepthStep(part)
    BY <1>2, <2>2, <2>3, <2>4
  <2>6. next.value \in Seq(T)
    BY <2>2, <2>4, Zenon
  <2> QED
    BY <1>1, <2>5, <2>6, Zenon DEF next, kept, Deeper
<1> QED
  BY <1>5, <1>6, <1>7

\* What cleanComponents accepts never rises above its start.
LEMMA CleanStaysInside ==
  ASSUME NEW S, NEW rest \in Seq(S), NEW f, Depths(f, Split(rest)),
         IsOk(CleanComponents(rest, FALSE, "ERR_OUTSIDE_ROOT"))
  PROVE  \A i \in 0 .. Len(Split(rest)) : f[i] >= 0
<1> DEFINE parts == Split(rest)
           n == Len(parts)
           T == NamesIn(parts)
           code0 == "ERR_OUTSIDE_ROOT"
           V == CleanResults(parts, code0)
<1>1. n \in Nat /\ code0 # "ok"
  BY SplitLength
<1>2. PICK h \in [0 .. n -> V] :
           Cleans(h, parts, FALSE, code0) /\ CleanComponents(rest, FALSE, code0) = h[n]
  BY <1>1, CleanIsRecursive
<1>3. \A r \in V : IsOk(r) => r.value \in Seq(T)
  BY <1>1, Outcomes DEF CleanResults
<1>4. \A i \in 1 .. n : parts[i] \in DotNames \/ parts[i] \in T
  BY DEF NamesIn
<1>5. h[0] = Ok(<<>>) /\ \A i \in 1 .. n : h[i] = RelativeStep(h[i - 1], parts[i], code0)
  BY <1>2 DEF Cleans, RelativeStep
<1>6. f[0] = 0 /\ \A i \in 1 .. n : f[i] = f[i - 1] + DepthStep(parts[i])
  BY DEF Depths
<1> HIDE DEF T, V, code0, n, parts
<1>7. ASSUME NEW i \in 1 .. n, IsOk(h[i])
      PROVE  IsOk(h[i - 1]) /\ h[i].value \in Seq(T) /\ Len(h[i].value) = Len(h[i - 1].value) + DepthStep(parts[i])
  <2>1. h[i - 1] \in V
    BY <1>1, <1>2
  <2>2. (IsOk(h[i - 1]) => h[i - 1].value \in Seq(T)) /\ (parts[i] \in DotNames \/ parts[i] \in T)
    BY <1>3, <1>4, <2>1
  <2>3. h[i] = RelativeStep(h[i - 1], parts[i], code0) /\ IsOk(RelativeStep(h[i - 1], parts[i], code0))
    BY <1>5, <1>7
  <2>4. code0 # "ok"
    BY <1>1
  <2> DEFINE r == h[i - 1]
             part == parts[i]
             next == RelativeStep(r, part, code0)
  <2>5. (IsOk(r) => r.value \in Seq(T)) /\ (part \in DotNames \/ part \in T) /\ IsOk(next) /\ h[i] = next
    BY <2>2, <2>3
  <2> HIDE DEF r, part
  <2>6. IsOk(r) /\ next.value \in Seq(T) /\ Deeper(next, r, part)
    BY <2>4, <2>5, CleanStepDepth
  <2> QED
    BY <2>5, <2>6, Zenon DEF r, part, Deeper
<1> DEFINE Good(k) == \A j \in 0 .. k : IsOk(h[j]) /\ h[j].value \in Seq(T) /\ Len(h[j].value) = f[j]
           B == {k \in 0 .. n : IsOk(h[k]) /\ ~Good(k)}
<1>8. B = {}
  <2> SUFFICES ASSUME B # {} PROVE FALSE
    OBVIOUS
  <2>1. PICK k \in B : \A m \in B : k <= m
    <3>1. B \subseteq Nat
      BY <1>1
    <3> HIDE DEF B
    <3> QED
      BY <3>1, LeastNatural
  <2>2. k \in 0 .. n /\ IsOk(h[k]) /\ ~Good(k)
    BY <2>1
  <2>3. CASE k = 0
    <3>1. h[0].value = <<>> /\ IsOk(h[0]) /\ Len(<<>>) = 0 /\ <<>> \in Seq(T)
      BY <1>5, Outcomes
    <3>2. \A j \in 0 .. k : j = 0
      BY <2>3
    <3>3. IsOk(h[0]) /\ h[0].value \in Seq(T) /\ Len(h[0].value) = f[0]
      BY <1>6, <3>1
    <3> QED
      BY <2>2, <3>2, <3>3, Zenon
  <2>4. CASE k # 0
    <3>1. k \in 1 .. n /\ k - 1 \in 0 .. n /\ ~(k <= k - 1)
      BY <1>1, <2>2, <2>4
    <3>2. IsOk(h[k - 1]) /\ h[k].value \in Seq(T) /\ Len(h[k].value) = Len(h[k - 1].value) + DepthStep(parts[k])
      BY <1>7, <2>2, <3>1
    <3>3. Good(k - 1)
      <4>1. k - 1 \notin B
        <5> HIDE DEF B
        <5> QED
          BY <2>1, <3>1
      <4> HIDE DEF Good
      <4> QED
        BY <3>1, <3>2, <4>1
    <3>4. Len(h[k - 1].value) = f[k - 1]
      BY <3>1, <3>3
    <3>5. Len(h[k].value) = f[k]
      BY <1>6, <3>1, <3>2, <3>4
    <3>6. \A j \in 0 .. k : j = k \/ j \in 0 .. k - 1
      BY <3>1
    <3> QED
      BY <2>2, <3>2, <3>3, <3>5, <3>6
  <2> QED
    BY <2>3, <2>4
<1>9. Good(n)
  <2>1. n \in 0 .. n /\ IsOk(h[n])
    BY <1>1, <1>2 DEF code0
  <2> HIDE DEF Good
  <2> QED
    BY <1>8, <2>1
<1> QED
  BY <1>9 DEF n, parts

\* A root that is found is returned as a value and nothing else.
LEMMA ParsedIsOk ==
  ASSUME NEW v, IsOk(ParsedRoot(v))
  PROVE  ParsedRoot(v) = Ok(ParsedRoot(v).value)
<1> DEFINE Plain(e) == IsOk(e) => e = Ok(e.value)
<1>1. (\A x : Plain(Ok(x))) /\ (\A c : c # "ok" => Plain(Err(c)))
  BY Outcomes
<1>2. Plain(Err("ERR_INVALID_PATH")) /\ Plain(Err("ERR_DRIVE_RELATIVE_PATH"))
  BY <1>1
<1>3. \A kind, mark, u : Plain(DriveRoot(kind, mark, u))
  BY <1>1, Zenon DEF DriveRoot
<1>4. \A kind, mark, ps : Plain(UncRoot(kind, mark, ps))
  BY <1>1, <1>2, Zenon DEF UncRoot
<1>5. Plain(ParsedRoot(v))
  <2> HIDE DEF Plain
  <2> QED
    BY <1>1, <1>2, <1>3, <1>4, Zenon DEF ParsedRoot, Unless
<1> QED
  BY <1>5

\* splitRoot returns only what it parses.
LEMMA SplitParses ==
  ASSUME NEW v, NEW r, SplitRoot(v) = Ok(r)
  PROVE  ParsedRoot(v) = Ok(r)
<1> DEFINE e == ParsedRoot(v)
<1>1. IsOk(Ok(r)) /\ Ok(r).value = r /\ ~IsOk(Err("ERR_NUL_BYTE")) /\ ~IsOk(Err("ERR_INVALID_PATH"))
  BY Outcomes
<1>2. SplitRoot(v) = Unless(Has(v, NUL), "ERR_NUL_BYTE",
        IF IsOk(e) THEN Unless(IsWindowsRoot(e.value.kind) /\ Has(v, "\\"), "ERR_INVALID_PATH", Ok(e.value)) ELSE e)
  BY Zenon DEF SplitRoot, Then
<1> HIDE DEF e
<1>3. IsOk(e) /\ Ok(e.value) = Ok(r)
  BY <1>1, <1>2, Zenon DEF Unless
<1>4. e.value = r
  BY <1>3, Outcomes
<1>5. IsOk(e) => e = Ok(e.value)
  BY ParsedIsOk DEF e
<1> QED
  BY <1>3, <1>4, <1>5 DEF e

\* A text that splitRoot takes for a relative one starts with no slash and no drive.
LEMMA RelativeStarts ==
  ASSUME NEW S, "/" \in S, NEW v \in Seq(S), NEW r, ParsedRoot(v) = Ok(r), r.kind = "relative"
  PROVE  ~StartsWith(v, <<"/">>) /\ ~DriveLike(v)
<1>0. \A kind, prefix, rest : Root(kind, prefix, rest).kind = kind
  BY Outcomes
<1>1. \A kind, mark, u : kind # "relative" => DriveRoot(kind, mark, u) # Ok(r)
  BY <1>0 DEF DriveRoot, Ok
<1>2. \A kind, mark, ps : kind # "relative" => UncRoot(kind, mark, ps) # Ok(r)
  BY <1>0 DEF UncRoot, Ok, Err
<1>3. Err("ERR_INVALID_PATH") # Ok(r) /\ Ok(Root("posix", <<"/">>, Tail(v))) # Ok(r)
      /\ Err("ERR_DRIVE_RELATIVE_PATH") # Ok(r)
  BY <1>0 DEF Ok, Err
<1>4. ~HasDriveRoot(v) /\ ~StartsWith(v, <<"/">>) /\ ~IsDriveRelative(v)
  BY <1>1, <1>2, <1>3, Zenon DEF ParsedRoot, Unless
<1>5. ~DriveLike(v)
  <2>1. /\ HasDriveRoot(v) <=> Len(v) >= 3 /\ v[1] \in Letters /\ v[2] = ":" /\ v[3] = "/"
        /\ IsDriveRelative(v) <=> Len(v) >= 2 /\ v[1] \in Letters /\ v[2] = ":" /\ (Len(v) = 2 \/ v[3] # "/")
        /\ Len(v) \in Nat
    BY DriveRootMeans
  <2> SUFFICES ASSUME Len(v) >= 2, v[1] \in Letters, v[2] = ":" PROVE FALSE
    BY DEF DriveLike
  <2>2. Len(v) # 2 /\ v[3] = "/"
    BY <1>4, <2>1
  <2>3. Len(v) >= 3
    <3> DEFINE n == Len(v)
    <3>1. n \in Nat /\ n >= 2 /\ n # 2
      BY <2>2
    <3> HIDE DEF n
    <3>2. n >= 3
      BY <3>1
    <3> QED
      BY <3>2 DEF n
  <2> QED
    BY <1>4, <2>1, <2>2, <2>3
<1> QED
  BY <1>4, <1>5

\* Whatever operand join accepts is one that the script calls cleanable.
LEMMA OperandIsCleanable ==
  ASSUME NEW rel \in Seq(Symbols), IsOk(CleanCanonicalRelative(rel))
  PROVE  AssertCleanableCanonicalRelativePath(rel)
<1> DEFINE c == CleanCanonicalRelative(rel)
<1>1. rel # <<>> /\ IsOk(SplitRoot(rel))
  <2>1. rel # <<>>
    BY Outcomes DEF CleanCanonicalRelative, Unless
  <2>2. ASSUME ~IsOk(SplitRoot(rel)) PROVE c = SplitRoot(rel)
    BY <2>1, <2>2, Zenon DEF CleanCanonicalRelative, Unless, Then
  <2> QED
    BY <2>1, <2>2
<1>2. ~Has(rel, NUL)
  <2>1. Has(rel, NUL) => SplitRoot(rel) = Err("ERR_NUL_BYTE")
    BY Zenon DEF SplitRoot, Unless
  <2> QED
    BY <1>1, <2>1, Outcomes
<1>3. PICK k, p : \E rest \in Seq(Alphabet(k)) :
           /\ SplitRoot(rel) = Ok(Root(k, p, rest)) /\ RootAt(k, p)
           /\ rel \in Seq(Alphabet(k)) /\ (k = "relative" => rest = rel)
  BY <1>1, SplitRootGives
<1>4. PICK rest \in Seq(Alphabet(k)) :
           SplitRoot(rel) = Ok(Root(k, p, rest)) /\ (k = "relative" => rest = rel)
  BY <1>3
<1> DEFINE q == Root(k, p, rest)
           d == CleanComponents(rest, FALSE, "ERR_OUTSIDE_ROOT")
<1>5. q.kind = k /\ q.rest = rest /\ q.prefix = p
  BY Outcomes
<1>6. c = IF k # "relative" THEN Err("ERR_ABSOLUTE_PATH")
          ELSE IF IsOk(d) THEN Ok(MarkRelative(Joined(d.value))) ELSE d
  <2>1. SplitRoot(rel) = Ok(q)
    BY <1>4
  <2> HIDE DEF q
  <2> QED
    BY <1>1, <1>5, <2>1, Outcomes, Zenon DEF CleanCanonicalRelative, Unless, Then
<1>7. k = "relative" /\ IsOk(d) /\ rest = rel
  <2> HIDE DEF d
  <2>1. IsOk(c)
    OBVIOUS
  <2> HIDE DEF c
  <2> QED
    BY <1>4, <1>6, <2>1, Outcomes
<1>8. ~StartsWith(rel, <<"/">>) /\ ~DriveLike(rel)
  <2>1. SplitRoot(rel) = Ok(q)
    BY <1>4
  <2> HIDE DEF q
  <2>2. ParsedRoot(rel) = Ok(q)
    BY <1>1, <2>1, SplitParses
  <2>3. "/" \in Symbols
    BY TextSigns
  <2> QED
    BY <1>5, <1>7, <2>2, <2>3, RelativeStarts
<1>9. ASSUME ~AssertCleanableCanonicalRelativePath(rel) PROVE FALSE
  <2>1. Len(Split(rel)) \in Nat
    BY SplitLength
  <2>2. PICK f \in [0 .. Len(Split(rel)) -> Int] :
          Depths(f, Split(rel)) /\ \E i \in 0 .. Len(Split(rel)) : f[i] < 0
    BY <1>1, <1>2, <1>8, <1>9, <2>1, DepthIsRecursive
  <2>3. \A i \in 0 .. Len(Split(rel)) : f[i] >= 0
    BY <1>7, <2>2, CleanStaysInside
  <2> QED
    BY <2>1, <2>2, <2>3
<1> QED
  BY <1>9

\* join accepts what the script calls cleanable, and returns what it calls canonical.
LEMMA JoinVectorHolds ==
  ASSUME NEW r, NEW p, NEW o, Below(r, p, o), NEW rel \in Seq(Symbols)
  PROVE  JoinVector(p, rel, JoinPath(p, rel))
<1>1. AssertCanonicalPath(p)
  BY BelowIsAccepted
<1>2. ASSUME IsOk(JoinPath(p, rel))
      PROVE  AssertCleanableCanonicalRelativePath(rel) /\ AssertCanonicalPath(JoinPath(p, rel).value)
  <2>1. Below(r, JoinPath(p, rel).value, o)
    BY <1>2, BelowJoin
  <2>2. AssertCanonicalPath(JoinPath(p, rel).value)
    BY <2>1, BelowIsAccepted
  <2>3. IsOk(CleanCanonicalRelative(rel))
    <3>1. PICK kind, prefix : \E ps \in Seq(NamesOf(kind)) : RootAt(kind, prefix) /\ p = Whole(kind, prefix, ps)
      BY BelowIsText, Zenon DEF Below
    <3>4. PICK ps \in Seq(NamesOf(kind)) : RootAt(kind, prefix) /\ p = Whole(kind, prefix, ps)
      BY <3>1
    <3> DEFINE q == Root(kind, prefix, RestOf(kind, prefix, ps))
               windows == IsWindowsRoot(q.kind) /\ Has(rel, "\\")
    <3>2. ValidateCanonical(p, FALSE) = Ok(q)
      BY <3>4, WholeIsCanonical
    <3> HIDE DEF q
    <3>3. ASSUME ~IsOk(CleanCanonicalRelative(rel)) PROVE ~IsOk(JoinPath(p, rel))
      <4>1. JoinPath(p, rel) = IF windows THEN Err("ERR_INVALID_PATH") ELSE CleanCanonicalRelative(rel)
        BY <3>2, <3>3, Outcomes, Zenon DEF JoinPath, Then, Unless
      <4>2. ~IsOk(Err("ERR_INVALID_PATH"))
        BY Outcomes
      <4> HIDE DEF windows
      <4> QED
        BY <3>3, <4>1, <4>2, Zenon
    <3> QED
      BY <1>2, <3>3
  <2> QED
    BY <2>2, <2>3, OperandIsCleanable
<1> QED
  BY <1>1, <1>2 DEF JoinVector

(***************************************************************************)
(* Names that extend an identity by one component                          *)
(***************************************************************************)
\* The symbols of a text that is one component on every host.
Plain == Symbols \ (Separators \cup {NUL})

\* A text of such symbols is a name under every root.
LEMMA PlainNames ==
  ASSUME NEW kind, NEW v \in Seq(Plain), v \notin DotNames
  PROVE  v \in NamesOf(kind)
<1>1. Plain \subseteq Alphabet(kind) \ {"/"}
  BY DEF Plain, Alphabet, Separators
<1>2. v \in Seq(Alphabet(kind) \ {"/"})
  <2> DEFINE T == Alphabet(kind) \ {"/"}
  <2>1. Plain \subseteq T
    BY <1>1
  <2> HIDE DEF T, Plain
  <2>2. v \in Seq(T)
    BY <2>1
  <2> QED
    BY <2>2 DEF T
<1> QED
  BY <1>2, Zenon DEF NamesOf, RealNames, PartsOf

\* Such a name is its own relative text.
LEMMA PlainIsRelative ==
  ASSUME NEW v \in Seq(Plain), v \notin DotNames
  PROVE  MarkRelative(Joined(<<v>>)) = v
<1>1. v \in NamesOf("relative")
  BY PlainNames
<1>2. Joined(<<v>>) = v
  <2> DEFINE S == Alphabet("relative")
  <2>1. "/" \in S
    BY Signs
  <2>2. v \in PartsOf(S)
    BY <1>1 DEF NamesOf, RealNames
  <2> HIDE DEF S
  <2> QED
    BY <2>1, <2>2, JoinedOfOne
<1>3. ~NeedsRelativeMarker(v)
  <2>1. NeedsRelativeMarker(v) => Len(v) >= 2 /\ v[2] = ":"
    BY DriveRootMeans
  <2>2. Len(v) >= 2 => v[2] \in Plain
    OBVIOUS
  <2>3. ":" \notin Plain
    BY DEF Plain, Separators
  <2> QED
    BY <2>1, <2>2, <2>3
<1>4. v # <<>>
  BY DEF DotNames
<1> QED
  BY <1>2, <1>3, <1>4, Zenon DEF MarkRelative

\* The signs of a name.
LEMMA PlainSigns ==
  {"-", ".", "v2", "ref", "sha256", "component"} \subseteq Plain
BY TextSigns DEF Plain, Separators, NUL

\* No symbol is both legible and not.
LEMMA LegibleOrNot ==
  /\ Legible \cap Illegible = {} /\ Separators \subseteq Illegible /\ NUL \notin Legible \cup Illegible
BY DEF Legible, Illegible, Separators, Escapes, Letters, NUL

\* What both sides cut out of a ref is the same text.
LEMMA RefDashed ==
  ASSUME NEW ref \in Refs, ref \in Seq(Symbols), ~Has(ref, NUL)
  PROVE  Dashed(ref, ToSet(ref) \ Legible) = Dashed(ref, Illegible) /\ Dashed(ref, Illegible) \in Seq(Plain)
<1> DEFINE S == Symbols \ {NUL}
           T == ToSet(ref)
<1>1. ref \in Seq(S)
  BY HasMeans
<1>2. ref \in Seq(T)
  BY DEF ToSet
<1>3. \A x \in T : x \in ToSet(ref) \ Legible <=> x \in Illegible
  <2>1. ref \in Seq(Legible \cup Illegible \cup {NUL})
    BY IdentityAssumption
  <2>2. T \subseteq Legible \cup Illegible \cup {NUL}
    BY <2>1 DEF ToSet
  <2>3. NUL \notin T
    BY <1>1 DEF ToSet
  <2> HIDE DEF T
  <2> QED
    BY <2>2, <2>3, LegibleOrNot DEF T
<1>4. "-" \in Plain /\ S \ Illegible \subseteq Plain
  BY PlainSigns, LegibleOrNot DEF Plain
<1> HIDE DEF S, T
<1>5. Dashed(ref, Illegible) \in Seq(Plain)
  BY <1>1, <1>4, DashedType
<1>6. Dashed(ref, ToSet(ref) \ Legible) = Dashed(ref, Illegible)
  BY <1>2, <1>3, DashedSame
<1> QED
  BY <1>5, <1>6

\* The name that the script computes for a ref: one component, and the one that encodeGitRef makes.
LEMMA RefName ==
  ASSUME NEW ref \in Refs, ref \in Seq(Symbols), ~Has(ref, NUL)
  PROVE  LET v == gitRefExpected(ref, MaxSlug)
         IN /\ v \in Seq(Plain) /\ v \notin DotNames /\ v[1] = "v2"
            /\ encodeGitRef(ref) = Unless(ref = <<>>, "ERR_INVALID_COMPONENT",
                                     Unless(Malformed(ref), "ERR_INVALID_COMPONENT", Ok(v)))
<1> DEFINE ends == {".", "_", "-"}
           dashed == Dashed(ref, Illegible)
           whole == Trimmed(dashed, ends, TRUE)
           length == IF Len(whole) < MaxSlug THEN Len(whole) ELSE MaxSlug
           part == SubSeq(whole, 1, length)
           cut == Trimmed(part, ends, TRUE)
           slug == IF cut = <<>> THEN <<"ref">> ELSE cut
           v == <<"v2", "-">> \o slug \o <<"-", "-">> \o Digest256(ref)
<1>0. TRUE \in BOOLEAN /\ MaxSlug \in Nat
  BY IdentityAssumption
<1>1. Dashed(ref, ToSet(ref) \ Legible) = dashed /\ dashed \in Seq(Plain)
  BY RefDashed
<1>2. gitRefExpected(ref, MaxSlug) = v
  <2> HIDE DEF dashed
  <2> QED
    BY <1>1, Zenon DEF gitRefExpected, gitRefSlug
<1>3. encodeGitRef(ref) = Unless(ref = <<>>, "ERR_INVALID_COMPONENT",
                            Unless(Malformed(ref), "ERR_INVALID_COMPONENT", Ok(v)))
  BY Zenon DEF encodeGitRef, Unless
<1> HIDE DEF dashed
<1>4. whole \in Seq(Plain)
  BY <1>0, <1>1, TrimmedType
<1> HIDE DEF whole
<1>5. length \in Nat /\ length <= Len(whole)
  BY <1>0, <1>4
<1> HIDE DEF length
<1>6. part \in Seq(Plain)
  <2>1. 1 \in Nat \ {0}
    OBVIOUS
  <2> QED
    BY <1>4, <1>5, <2>1, PartType
<1> HIDE DEF part
<1>7. cut \in Seq(Plain)
  BY <1>0, <1>6, TrimmedType
<1>8. <<"ref">> \in Seq(Plain) /\ <<"v2", "-">> \in Seq(Plain) /\ <<"-", "-">> \in Seq(Plain)
  BY PlainSigns
<1> HIDE DEF cut
<1>9. slug \in Seq(Plain)
  BY <1>7, <1>8, Zenon
<1> HIDE DEF slug
<1>10. Digest256(ref) \in Seq(Plain)
  <2> DEFINE d == ToString(ref)
  <2>1. d \in Plain
    BY IdentityAssumption DEF Symbols, Plain
  <2> HIDE DEF d
  <2>2. <<"sha256", d>> \in Seq(Plain)
    BY <2>1, PlainSigns
  <2> QED
    BY <2>2 DEF Digest256, d
<1> DEFINE head == <<"v2", "-">> \o slug
           tail == <<"-", "-">> \o Digest256(ref)
           mid == head \o <<"-", "-">>
<1>11. head \in Seq(Plain) /\ mid \in Seq(Plain) /\ v \in Seq(Plain) /\ v[1] = "v2" /\ v # <<>>
  <2>1. <<"v2", "-">> # <<>> /\ <<"v2", "-">>[1] = "v2"
    OBVIOUS
  <2>2. head[1] = "v2" /\ head # <<>> /\ head \in Seq(Plain)
    BY <1>8, <1>9, <2>1, StartOfConcat
  <2> HIDE DEF head
  <2>3. mid[1] = "v2" /\ mid # <<>> /\ mid \in Seq(Plain)
    BY <1>8, <2>2, StartOfConcat
  <2>4. v = mid \o Digest256(ref)
    BY Zenon DEF head
  <2> HIDE DEF mid, v
  <2> QED
    BY <1>10, <2>2, <2>3, <2>4, StartOfConcat
<1> HIDE DEF v
<1>12. v \notin DotNames
  BY <1>11 DEF DotNames
<1> QED
  BY <1>2, <1>3, <1>11, <1>12

\* A text that ends in a slash is another one with the slash after it.
LEMMA EndsInSlash ==
  ASSUME NEW S, NEW s \in Seq(S), EndsWith(s, "/")
  PROVE  \E t \in Seq(S) : s = t \o <<"/">>
<1> DEFINE n == Len(s)
           t == SubSeq(s, 1, n - 1)
<1>1. s # <<>> /\ s[n] = "/" /\ n \in Nat \ {0}
  BY DEF EndsWith, Last
<1>2. /\ t \in Seq(S) /\ Len(t) = n - 1 /\ \A i \in 1 .. n - 1 : t[i] = s[i]
  <2>1. 1 \in Nat \ {0} /\ n - 1 \in Nat /\ n - 1 <= Len(s)
    BY <1>1
  <2>2. /\ t \in Seq(S) /\ Len(t) = (IF 1 <= n - 1 THEN n - 1 - 1 + 1 ELSE 0)
        /\ \A i \in 1 .. n - 1 - 1 + 1 : t[i] = s[1 + i - 1]
    BY <2>1, PartType
  <2> HIDE DEF t, n
  <2>3. Len(t) = n - 1
    BY <1>1, <2>2
  <2>4. \A i \in 1 .. n - 1 : t[i] = s[i]
    BY <1>1, <2>2
  <2> QED
    BY <2>2, <2>3, <2>4
<1> HIDE DEF t
<1>3. s = t \o <<"/">>
  <2> DEFINE u == t \o <<"/">>
             T == S \cup {"/"}
  <2>1. t \in Seq(T) /\ <<"/">> \in Seq(T) /\ Len(<<"/">>) = 1 /\ <<"/">>[1] = "/" /\ s \in Seq(T)
    BY <1>2
  <2> HIDE DEF T
  <2>2. /\ u \in Seq(T) /\ Len(u) = n /\ (\A i \in 1 .. n - 1 : u[i] = s[i]) /\ u[n] = s[n]
    <3>1. /\ t \o <<"/">> \in Seq(T) /\ Len(t \o <<"/">>) = Len(t) + Len(<<"/">>)
          /\ \A i \in 1 .. Len(t) : (t \o <<"/">>)[i] = t[i]
          /\ \A i \in 1 .. Len(<<"/">>) : (t \o <<"/">>)[Len(t) + i] = <<"/">>[i]
      BY <2>1, ConcatAt
    <3>2. Len(u) = n /\ \A i \in 1 .. n - 1 : u[i] = s[i]
      BY <1>1, <1>2, <2>1, <3>1
    <3>3. u[n - 1 + 1] = "/"
      BY <1>2, <2>1, <3>1
    <3>4. n - 1 + 1 = n
      BY <1>1
    <3> QED
      BY <1>1, <3>1, <3>2, <3>3, <3>4
  <2> HIDE DEF u
  <2>3. \A i \in 1 .. n : u[i] = s[i]
    BY <1>1, <2>2
  <2>4. u = s
    BY <2>1, <2>2, <2>3, SeqEqual
  <2> QED
    BY <2>4, Zenon DEF u
<1> QED
  BY <1>2, <1>3

\* The last of a list of names that follows another list.
LEMMA LastAfter ==
  ASSUME NEW T, NEW U, NEW ps \in Seq(U), NEW qs \in Seq(T), NEW x \in T
  PROVE  Last(ps \o Append(qs, x)) = x
<1> DEFINE V == T \cup U
<1>1. ps \in Seq(V) /\ qs \in Seq(V) /\ x \in V
  OBVIOUS
<1> HIDE DEF V
<1>2. ps \o Append(qs, x) = Append(ps \o qs, x) /\ ps \o qs \in Seq(V)
  BY <1>1, AppendAfter, ConcatProperties
<1> DEFINE u == ps \o qs
<1> HIDE DEF u
<1>3. Last(Append(u, x)) = x
  BY <1>1, <1>2 DEF u, Last
<1> QED
  BY <1>2, <1>3, Zenon DEF u

\* The last piece of an identity is the last of its names.
LEMMA LastName ==
  ASSUME NEW kind, NEW prefix, RootAt(kind, prefix), NEW ps \in Seq(NamesOf(kind)), NEW name \in NamesOf(kind)
  PROVE  Last(Split(Whole(kind, prefix, Append(ps, name)))) = name
<1> DEFINE S == Alphabet(kind)
           parts == Append(ps, name)
           text == Joined(parts)
<1>1. parts \in Seq(NamesOf(kind)) /\ parts # <<>>
  BY AppendProperties
<1>2. {"/", "."} \subseteq S /\ prefix \in Seq(S)
  BY Signs, RootAtLength
<1>3. parts \in PiecesOf(S) /\ name \in PartsOf(S) /\ ps \in Seq(PartsOf(S))
  <2>1. parts \in Seq(RealNames(S)) /\ name \in RealNames(S) /\ ps \in Seq(RealNames(S))
    BY <1>1 DEF NamesOf
  <2> HIDE DEF S, parts
  <2>2. parts \in PiecesOf(S) /\ ps \in Seq(PartsOf(S))
    BY <1>1, <2>1, RealNamesArePieces
  <2> QED
    BY <2>1, <2>2 DEF RealNames
<1>4. Split(text) = parts /\ text \in Seq(S)
  <2> HIDE DEF S, parts
  <2>1. parts \in Seq(PartsOf(S))
    BY <1>3 DEF PiecesOf
  <2> QED
    BY <1>2, <1>3, <2>1, SplitOfJoined, JoinedType
<1>5. ASSUME NEW t \in Seq(S) PROVE Last(Split(t \o <<"/">> \o text)) = name
  <2> HIDE DEF S, text
  <2>1. Split(t \o <<"/">> \o text) = Split(t) \o parts
    BY <1>2, <1>4, <1>5, SplitOfConcat
  <2>2. Split(t) \in Seq(PartsOf(S))
    BY <1>5, SplitType DEF PiecesOf
  <2>3. Last(Split(t) \o Append(ps, name)) = name
    BY <1>3, <2>2, LastAfter
  <2> QED
    BY <2>1, <2>3, Zenon
<1>6. Last(parts) = name
  BY <1>1 DEF Last
<1>7. CASE kind = "relative"
  <2>1. Whole(kind, prefix, parts) = MarkRelative(text)
    BY <1>7, Zenon DEF Whole
  <2> HIDE DEF S, parts, text
  <2>2. Last(Split(text)) = name
    BY <1>4, <1>6, Zenon
  <2>3. CASE MarkRelative(text) = text
    BY <2>1, <2>2, <2>3, Zenon DEF parts
  <2>4. CASE MarkRelative(text) = <<".", "/">> \o text
    <3>1. <<".">> \in Seq(S) /\ <<".">> \o <<"/">> = <<".", "/">>
      BY <1>2, Pair
    <3>2. Last(Split(<<".">> \o <<"/">> \o text)) = name
      BY <1>5, <3>1
    <3> QED
      BY <2>1, <2>4, <3>1, <3>2, Zenon DEF parts
  <2>5. CASE MarkRelative(text) # text /\ MarkRelative(text) # <<".", "/">> \o text
    <3>1. text = <<>>
      BY <2>5, Zenon DEF MarkRelative
    <3>2. text # <<>>
      <4>1. parts \in Seq(RealNames(S))
        BY <1>1 DEF NamesOf, S
      <4>2. Len(Joined(parts)) \in Nat \ {0}
        BY <1>1, <1>2, <4>1, JoinedStarts
      <4>3. Len(<<>>) = 0
        OBVIOUS
      <4> QED
        BY <4>2, <4>3 DEF text
    <3> QED
      BY <3>1, <3>2
  <2> QED
    BY <2>3, <2>4, <2>5
<1>8. CASE kind \in Uncs
  <2>1. kind # "relative"
    BY <1>8 DEF Uncs
  <2> HIDE DEF S, parts, text
  <2>2. Whole(kind, prefix, parts) = prefix \o <<"/">> \o text
    BY <1>1, <1>8, <2>1, Zenon DEF Whole, text
  <2> QED
    BY <1>2, <1>5, <2>2, Zenon DEF parts
<1>9. CASE kind # "relative" /\ kind \notin Uncs
  <2> HIDE DEF S, parts, text
  <2>1. EndsWith(prefix, "/")
    BY <1>9, RootEnds
  <2>2. PICK t \in Seq(S) : prefix = t \o <<"/">>
    BY <1>2, <2>1, EndsInSlash
  <2>3. Whole(kind, prefix, parts) = prefix \o <<>> \o text
    BY <1>1, <1>9, Zenon DEF Whole, text
  <2>4. prefix \o <<>> = prefix
    BY <1>2
  <2> QED
    BY <1>5, <2>2, <2>3, <2>4, Zenon DEF parts
<1> QED
  BY <1>7, <1>8, <1>9

\* A surrogate without its other half, as the script looks for it.
Lone(v) ==
  \E i \in DOMAIN v : \/ v[i] = "HIGH" /\ (i + 1 \in DOMAIN v => v[i + 1] # "LOW")
                      \/ v[i] = "LOW" /\ (i - 1 \in DOMAIN v => v[i - 1] # "HIGH")

\* encodeGitRef and the script refuse the same texts.
LEMMA MalformedIsLone ==
  ASSUME NEW S, NEW v \in Seq(S)
  PROVE  Malformed(v) <=> Lone(v)
<1>1. DOMAIN v = 1 .. Len(v) /\ Len(v) \in Nat
  OBVIOUS
<1> DEFINE n == Len(v)
<1> HIDE DEF n
<1>2. ASSUME NEW i \in 1 .. n, n \in Nat
      PROVE  ((i = n \/ v[i + 1] # "LOW") <=> (i + 1 \in 1 .. n => v[i + 1] # "LOW"))
             /\ ((i = 1 \/ v[i - 1] # "HIGH") <=> (i - 1 \in 1 .. n => v[i - 1] # "HIGH"))
  <2>1. (i = n <=> i + 1 \notin 1 .. n) /\ (i = 1 <=> i - 1 \notin 1 .. n)
    BY <1>2
  <2> QED
    BY <2>1, Zenon
<1>3. n \in Nat /\ DOMAIN v = 1 .. n
  BY <1>1 DEF n
<1> QED
  BY <1>2, <1>3, Zenon DEF Malformed, Lone, n

\* What the script demands of a recorded git ref, in its three cases.
LEMMA RefVectorIs ==
  ASSUME NEW v, NEW max, NEW result,
         Has(v, NUL) => result.code = "ERR_NUL_BYTE",
         ~Has(v, NUL) /\ (v = <<>> \/ Lone(v)) => result.code = "ERR_INVALID_COMPONENT",
         ~Has(v, NUL) /\ v # <<>> /\ ~Lone(v) =>
           result = Ok(gitRefExpected(v, max)) /\ AssertCanonicalRelativePath(result.value, FALSE)
  PROVE  GitRefVector(v, max, result)
<1>1. CASE Has(v, NUL)
  BY <1>1, Zenon DEF GitRefVector
<1>2. CASE ~Has(v, NUL) /\ (v = <<>> \/ Lone(v))
  BY <1>2, Zenon DEF GitRefVector, Lone
<1>3. CASE ~Has(v, NUL) /\ v # <<>> /\ ~Lone(v)
  BY <1>3, Zenon DEF GitRefVector, Lone
<1> QED
  BY <1>1, <1>2, <1>3

\* A name of plain symbols extends every identity by itself.
LEMMA PlainAppended ==
  ASSUME NEW kind, NEW prefix, RootAt(kind, prefix), NEW ps \in Seq(NamesOf(kind)),
         NEW name \in Seq(Plain), name \notin DotNames
  PROVE  /\ name \in NamesOf(kind)
         /\ JoinPath(Whole(kind, prefix, ps), name) = Ok(Whole(kind, prefix, Append(ps, name)))
<1>1. name \in NamesOf(kind) /\ MarkRelative(Joined(<<name>>)) = name
  BY PlainNames, PlainIsRelative
<1> DEFINE T == NamesOf(kind)
           more == <<name>>
<1>2. more \in Seq(T) /\ ps \in Seq(T) /\ ps \o more = Append(ps, name)
  <2>1. name \in T /\ ps \in Seq(T)
    BY <1>1
  <2> HIDE DEF T
  <2> QED
    BY <2>1
<1>3. MarkRelative(Joined(more)) = name
  BY <1>1
<1> HIDE DEF more
<1>4. JoinPath(Whole(kind, prefix, ps), MarkRelative(Joined(more))) = Ok(Whole(kind, prefix, ps \o more))
  BY <1>2, JoinRelative
<1> QED
  BY <1>1, <1>2, <1>3, <1>4, Zenon

\* A git ref extends the identity by the name that the script computes for it.
LEMMA GitRefVectorHolds ==
  ASSUME NEW r, NEW p, NEW o, Below(r, p, o), NEW ref \in Refs, ref \in Seq(Symbols)
  PROVE  LET result == Extended(p, encodeGitRef(ref))
             q == IF IsOk(result) THEN result.value ELSE p
         IN GitRefVector(ref, MaxSlug, [code |-> result.code, value |-> Last(Split(q))])
<1> DEFINE c == encodeGitRef(ref)
           result == Extended(p, c)
           q == IF IsOk(result) THEN result.value ELSE p
           recorded == [code |-> result.code, value |-> Last(Split(q))]
           name == gitRefExpected(ref, MaxSlug)
<1>1. \A x : Err(x).code = x /\ (x # "ok" => ~IsOk(Err(x)))
  BY DEF Err, IsOk
<1>2. recorded.code = result.code /\ recorded.value = Last(Split(q))
  OBVIOUS
<1>3. Malformed(ref) <=> Lone(ref)
  BY MalformedIsLone
<1>4. \A x : x # "ok" /\ c = Err(x) => result.code = x
  <2> HIDE DEF c
  <2> QED
    BY <1>1, Zenon DEF Extended, Then
<1>5. Has(ref, NUL) => recorded.code = "ERR_NUL_BYTE"
  <2> SUFFICES ASSUME Has(ref, NUL) PROVE recorded.code = "ERR_NUL_BYTE"
    OBVIOUS
  <2>1. ref # <<>>
    <3>1. \E i \in 1 .. Len(ref) : ref[i] = NUL
      BY HasMeans
    <3>2. Len(<<>>) = 0
      OBVIOUS
    <3> QED
      BY <3>1, <3>2
  <2>2. c = Err("ERR_NUL_BYTE")
    BY <2>1, Zenon DEF encodeGitRef, Unless
  <2> HIDE DEF c, recorded, result
  <2> QED
    BY <1>2, <1>4, <2>2
<1>6. ASSUME ~Has(ref, NUL) PROVE name \in Seq(Plain) /\ name \notin DotNames
                             /\ c = Unless(ref = <<>>, "ERR_INVALID_COMPONENT",
                                      Unless(Malformed(ref), "ERR_INVALID_COMPONENT", Ok(name)))
  BY <1>6, RefName
<1>7. ~Has(ref, NUL) /\ (ref = <<>> \/ Lone(ref)) => recorded.code = "ERR_INVALID_COMPONENT"
  <2> SUFFICES ASSUME ~Has(ref, NUL), ref = <<>> \/ Lone(ref) PROVE recorded.code = "ERR_INVALID_COMPONENT"
    OBVIOUS
  <2> HIDE DEF c, recorded, result, name
  <2>1. c = Err("ERR_INVALID_COMPONENT")
    BY <1>3, <1>6, Zenon DEF Unless
  <2> QED
    BY <1>2, <1>4, <2>1
<1>8. ASSUME ~Has(ref, NUL), ref # <<>>, ~Lone(ref)
      PROVE  recorded = Ok(name) /\ AssertCanonicalRelativePath(recorded.value, FALSE)
  <2> HIDE DEF name
  <2>1. name \in Seq(Plain) /\ name \notin DotNames
    BY <1>6, <1>8
  <2>2. c = Ok(name)
    <3> HIDE DEF c
    <3> QED
      BY <1>3, <1>6, <1>8, Zenon DEF Unless
  <2>3. result = JoinPath(p, name)
    <3>1. IsOk(Ok(name)) /\ Ok(name).value = name
      BY Outcomes
    <3> HIDE DEF c
    <3> QED
      BY <2>2, <3>1, Zenon DEF Extended, Then
  <2>4. PICK kind, prefix : \E ps \in Seq(NamesOf(kind)) : RootAt(kind, prefix) /\ p = Whole(kind, prefix, ps)
    BY BelowIsText, Zenon DEF Below
  <2>5. PICK ps \in Seq(NamesOf(kind)) :
           /\ RootAt(kind, prefix) /\ name \in NamesOf(kind)
           /\ JoinPath(p, name) = Ok(Whole(kind, prefix, Append(ps, name)))
    BY <2>1, <2>4, PlainAppended
  <2> DEFINE w == Whole(kind, prefix, Append(ps, name))
  <2>6. Last(Split(w)) = name
    BY <2>5, LastName
  <2>7. result = Ok(w)
    BY <2>3, <2>5
  <2> HIDE DEF w, result
  <2>8. result.code = "ok" /\ q = w
    BY <2>7, Outcomes DEF Ok
  <2>9. recorded = Ok(name)
    <3> DEFINE y == Last(Split(q))
    <3>1. y = name
      BY <2>6, <2>8
    <3> HIDE DEF y, q
    <3>2. [code |-> result.code, value |-> y] = Ok(name)
      BY <2>8, <3>1 DEF Ok
    <3> QED
      BY <3>2 DEF y
  <2> HIDE DEF recorded
  <2>10. recorded.value = name
    BY <2>9, Outcomes
  <2>11. AssertCanonicalRelativePath(name, FALSE)
    <3>1. name \in NamesOf("relative") /\ MarkRelative(Joined(<<name>>)) = name
      BY <2>1, PlainNames, PlainIsRelative
    <3> DEFINE more == <<name>>
    <3>2. more \in Seq(NamesOf("relative")) /\ MarkRelative(Joined(more)) = name
      BY <3>1
    <3> HIDE DEF more
    <3>3. AssertCanonicalRelativePath(Whole("relative", <<>>, more), FALSE)
      BY <3>2, RelativeIsAccepted
    <3>4. Whole("relative", <<>>, more) = MarkRelative(Joined(more))
      BY Zenon DEF Whole
    <3> QED
      BY <3>2, <3>3, <3>4, Zenon
  <2> QED
    BY <2>9, <2>10, <2>11, Zenon
<1> HIDE DEF recorded, name
<1>9. GitRefVector(ref, MaxSlug, recorded)
  BY <1>5, <1>7, <1>8, RefVectorIs, Zenon DEF name
<1> QED
  BY <1>9 DEF recorded

\* What makes a name of plain symbols a device.
LEMMA DeviceMeans ==
  ASSUME NEW v \in Seq(Plain)
  PROVE  LET base == SubSeq(v, 1, IndexFrom(v, 1, ".") - 1)
         IN /\ Device(v) <=> Mapped(base, Upper) \in DeviceNames
            /\ Mapped(base, Upper) \in DeviceNames => Len(base) = 1
            /\ Device(v) => Len(v) >= 1 /\ Upper(v[1]) = "CON" /\ (Len(v) = 1 \/ v[2] = ".")
<1> DEFINE k == IndexFrom(v, 1, ".")
           n == Len(v)
           base == SubSeq(v, 1, k - 1)
           dotted == Mapped(v, LAMBDA x : IF x = ":" THEN "." ELSE x)
<1>1. n \in Nat /\ k \in 1 .. n + 1 /\ (k = n + 1 \/ v[k] = ".")
  <2>1. 1 \in 1 .. Len(v) + 1 /\ Len(v) \in Nat
    OBVIOUS
  <2>2. k \in 1 .. Len(v) + 1 /\ (k = Len(v) + 1 \/ v[k] = ".")
    BY <2>1, IndexMeans
  <2> QED
    BY <2>1, <2>2
<1>2. dotted = v
  <2>1. \A i \in DOMAIN v : v[i] # ":"
    <3>1. ":" \notin Plain
      BY DEF Plain, Separators
    <3> QED
      BY <3>1
  <2> DEFINE T == Plain
             g == [i \in 1 .. Len(v) |-> v[i]]
  <2>2. v \in Seq(T) /\ Len(v) \in Nat /\ DOMAIN v = 1 .. Len(v)
    OBVIOUS
  <2>3. \A i \in DOMAIN v : (IF v[i] = ":" THEN "." ELSE v[i]) = v[i]
    BY <2>1
  <2>4. dotted = g
    <3>1. dotted = [i \in 1 .. Len(v) |-> IF v[i] = ":" THEN "." ELSE v[i]]
      BY <2>2, Zenon DEF Mapped
    <3>2. \A i \in 1 .. Len(v) : (IF v[i] = ":" THEN "." ELSE v[i]) = v[i]
      BY <2>2, <2>3
    <3> HIDE DEF dotted
    <3> QED
      BY <3>1, <3>2
  <2>5. g = v
    <3> HIDE DEF T
    <3>1. g \in Seq(T) /\ Len(g) = Len(v) /\ \A i \in 1 .. Len(v) : g[i] = v[i]
      BY <2>2
    <3> HIDE DEF g
    <3> QED
      BY <2>2, <3>1, SeqEqual
  <2> HIDE DEF dotted, g
  <2> QED
    BY <2>4, <2>5
<1>3. Device(v) <=> Mapped(base, Upper) \in DeviceNames
  <2> HIDE DEF dotted
  <2>1. Device(v) <=> Mapped(SubSeq(v, 1, IndexFrom(dotted, 1, ".") - 1), Upper) \in DeviceNames
    BY Zenon DEF Device, dotted
  <2> QED
    BY <1>2, <2>1, Zenon
<1> HIDE DEF k, n, dotted
<1>4. base \in Seq(Plain) /\ Len(base) = k - 1 /\ \A i \in 1 .. k - 1 : base[i] = v[i]
  <2>1. 1 \in Nat \ {0} /\ k - 1 \in Nat /\ k - 1 <= Len(v)
    BY <1>1 DEF n
  <2>2. /\ base \in Seq(Plain) /\ Len(base) = (IF 1 <= k - 1 THEN k - 1 - 1 + 1 ELSE 0)
        /\ \A i \in 1 .. k - 1 - 1 + 1 : base[i] = v[1 + i - 1]
    BY <2>1, PartType
  <2> HIDE DEF base
  <2>3. Len(base) = k - 1
    BY <1>1, <2>2
  <2>4. \A i \in 1 .. k - 1 : base[i] = v[i]
    BY <1>1, <2>2
  <2> QED
    BY <2>2, <2>3, <2>4
<1> HIDE DEF base
<1>5. ASSUME Mapped(base, Upper) \in DeviceNames PROVE Len(base) = 1 /\ Upper(base[1]) = "CON"
  <2>1. Mapped(base, Upper) = <<"CON">>
    BY <1>5 DEF DeviceNames
  <2>2. DOMAIN base = DOMAIN <<"CON">> /\ \A i \in DOMAIN base : Upper(base[i]) = <<"CON">>[i]
    BY <2>1 DEF Mapped
  <2>3. DOMAIN base = 1 .. Len(base) /\ Len(base) \in Nat /\ DOMAIN <<"CON">> = 1 .. 1
    BY <1>4
  <2>4. Len(base) = 1
    <3> DEFINE m == Len(base)
    <3>1. 1 .. m = 1 .. 1 /\ m \in Nat
      BY <2>2, <2>3
    <3> HIDE DEF m
    <3>2. 1 \in 1 .. m /\ (m \in 1 .. m => m \in 1 .. 1)
      <4>1. 1 \in 1 .. 1
        OBVIOUS
      <4> QED
        BY <3>1, <4>1
    <3>3. m = 1
      BY <3>1, <3>2
    <3> QED
      BY <3>3 DEF m
  <2>5. Upper(base[1]) = <<"CON">>[1]
    BY <2>2, <2>3, <2>4
  <2> QED
    BY <2>4, <2>5
<1>6. ASSUME Device(v) PROVE n >= 1 /\ Upper(v[1]) = "CON" /\ (n = 1 \/ v[2] = ".")
  <2>1. Len(base) = 1 /\ Upper(base[1]) = "CON"
    BY <1>3, <1>5, <1>6
  <2>2. k = 2
    <3> DEFINE m == Len(base)
    <3>0. m = k - 1 /\ m = 1
      BY <1>4, <2>1, Zenon
    <3> HIDE DEF m
    <3>1. k \in Nat
      BY <1>1
    <3> QED
      BY <3>0, <3>1
  <2>3. base[1] = v[1]
    BY <1>4, <2>2
  <2>4. n >= 1 /\ (n = 1 \/ v[2] = ".")
    BY <1>1, <2>2
  <2>5. Upper(v[1]) = "CON"
    BY <2>1, <2>3, Zenon
  <2> QED
    BY <2>4, <2>5
<1> QED
  BY <1>3, <1>5, <1>6 DEF base, k, n

\* A name that starts with a sign that is no device is no device.
LEMMA NoDevice ==
  ASSUME NEW v \in Seq(Plain), v[1] = "v2"
  PROVE  ~Device(v)
<1>1. Upper("v2") # "CON"
  BY DEF Upper
<1> QED
  BY <1>1, DeviceMeans

\* Escaping makes a name that is no device, and still a name.
LEMMA EscapedIsNoDevice ==
  ASSUME NEW v \in Seq(Plain), v \notin DotNames
  PROVE  LET u == escapeReservedWin32Component(v)
         IN u \in Seq(Plain) /\ u \notin DotNames /\ ~Device(u)
<1> DEFINE dot == IndexFrom(v, 1, ".")
           base == SubSeq(v, 1, dot - 1)
           rest == From(v, dot)
           longer == Append(base, "-") \o rest
           u == escapeReservedWin32Component(v)
           device == Mapped(base, Upper) \in DeviceNames
<1>1. dot \in 1 .. Len(v) + 1 /\ Len(v) \in Nat
  <2>1. 1 \in 1 .. Len(v) + 1 /\ Len(v) \in Nat
    OBVIOUS
  <2> QED
    BY <2>1, IndexMeans
<1>2. u = IF device THEN longer ELSE v
  BY Zenon DEF escapeReservedWin32Component
<1>3. (Device(v) <=> device) /\ (device => Len(base) = 1)
  BY DeviceMeans
<1> HIDE DEF dot
<1>4. base \in Seq(Plain) /\ rest \in Seq(Plain)
  <2>1. 1 \in Nat \ {0} /\ dot - 1 \in Nat /\ dot - 1 <= Len(v) /\ dot \in Nat \ {0}
    BY <1>1
  <2> QED
    BY <2>1, PartType, FromType
<1> HIDE DEF base, rest
<1>5. CASE ~device
  <2> HIDE DEF device, u, longer
  <2>1. u = v /\ ~Device(v)
    BY <1>2, <1>3, <1>5
  <2> QED
    BY <2>1, Zenon DEF u
<1>6. CASE device
  <2>1. Len(base) = 1
    BY <1>3, <1>6
  <2>2. Append(base, "-") \in Seq(Plain) /\ Len(Append(base, "-")) = 2 /\ Append(base, "-")[2] = "-"
    <3> DEFINE m == Len(base)
               w == Append(base, "-")
    <3>1. "-" \in Plain
      BY PlainSigns
    <3>2. w \in Seq(Plain) /\ Len(w) = m + 1 /\ w[m + 1] = "-"
      BY <1>4, <3>1, AppendProperties
    <3>3. m = 1
      BY <2>1
    <3> HIDE DEF m, w
    <3>4. Len(w) = 2 /\ w[2] = "-"
      BY <3>2, <3>3
    <3> QED
      BY <3>2, <3>4 DEF w
  <2> DEFINE head == Append(base, "-")
  <2> HIDE DEF head
  <2>3. head \in Seq(Plain) /\ Len(head) = 2 /\ head[2] = "-"
    BY <2>2 DEF head
  <2>4. /\ head \o rest \in Seq(Plain) /\ Len(head \o rest) = Len(head) + Len(rest) /\ Len(rest) \in Nat
        /\ \A i \in 1 .. Len(head) : (head \o rest)[i] = head[i]
    <3>1. head \in Seq(Plain) /\ rest \in Seq(Plain)
      BY <1>4, <2>3
    <3> QED
      BY <3>1, ConcatAt
  <2> DEFINE w == head \o rest
  <2>5. w \in Seq(Plain) /\ Len(w) >= 2 /\ w[2] = "-"
    BY <2>3, <2>4
  <2> HIDE DEF w
  <2>6. ~Device(w)
    <3>1. Device(w) => Len(w) = 1 \/ w[2] = "."
      BY <2>5, DeviceMeans
    <3> QED
      BY <2>5, <3>1
  <2>7. w \notin DotNames
    BY <2>5 DEF DotNames
  <2>8. u = w
    BY <1>2, <1>6, Zenon DEF w, head
  <2> HIDE DEF u
  <2> QED
    BY <2>5, <2>6, <2>7, <2>8, Zenon DEF u
<1> QED
  BY <1>5, <1>6

\* What is left of a trimmed text starts with a symbol that is not trimmed.
LEMMA TrimmedStarts ==
  ASSUME NEW S, NEW s \in Seq(S), NEW set, Trimmed(s, set, TRUE) # <<>>
  PROVE  Trimmed(s, set, TRUE)[1] \notin set
<1> DEFINE kept == {i \in DOMAIN s : s[i] \notin set}
           lo == CHOOSE i \in kept : \A j \in kept : i <= j
           hi == CHOOSE i \in kept : \A j \in kept : j <= i
<1>1. kept # {} /\ kept \subseteq 1 .. Len(s) /\ Len(s) \in Nat
  <2>1. kept = {} => Trimmed(s, set, TRUE) = <<>>
    BY Zenon DEF Trimmed
  <2>2. kept \subseteq 1 .. Len(s) /\ Len(s) \in Nat
    OBVIOUS
  <2> HIDE DEF kept
  <2> QED
    BY <2>1, <2>2
<1>2. lo \in kept
  <2>1. kept \subseteq Nat /\ kept # {}
    BY <1>1
  <2> HIDE DEF kept
  <2>2. \E i \in kept : \A j \in kept : i <= j
    BY <2>1, LeastNatural
  <2> QED
    BY <2>2
<1>3. Trimmed(s, set, TRUE) = SubSeq(s, lo, hi)
  BY <1>1, Zenon DEF Trimmed
<1>4. s[lo] \notin set /\ lo \in 1 .. Len(s)
  <2>1. \A i \in kept : s[i] \notin set
    OBVIOUS
  <2> HIDE DEF kept
  <2> QED
    BY <1>1, <1>2, <2>1
<1>5. hi \in kept
  <2>1. kept \subseteq 1 .. Len(s) /\ kept # {} /\ Len(s) \in Nat
    BY <1>1
  <2> HIDE DEF kept
  <2>2. \E i \in kept : \A j \in kept : j <= i
    BY <2>1, GreatestOf
  <2> QED
    BY <2>2
<1>6. hi \in Nat /\ hi <= Len(s)
  <2> HIDE DEF kept, hi
  <2> QED
    BY <1>1, <1>5
<1> HIDE DEF kept, lo, hi
<1> DEFINE t == SubSeq(s, lo, hi)
<1>7. t \in Seq(S) /\ Len(t) = (IF lo <= hi THEN hi - lo + 1 ELSE 0) /\ \A i \in 1 .. hi - lo + 1 : t[i] = s[lo + i - 1]
  <2>1. lo \in Nat \ {0}
    BY <1>4
  <2> QED
    BY <1>6, <2>1, PartType
<1>8. t # <<>>
  BY <1>3
<1> HIDE DEF t
<1>9. lo <= hi
  BY <1>4, <1>6, <1>7, <1>8
<1>10. t[1] = s[lo + 1 - 1] /\ lo + 1 - 1 = lo
  BY <1>4, <1>6, <1>7, <1>9
<1> QED
  BY <1>3, <1>4, <1>10 DEF t

\* sanitizeComponent makes one component, and no device for a Windows host.
LEMMA SanitizedName ==
  ASSUME NEW name \in Seq(Symbols), NEW profile
  PROVE  LET c == sanitizeComponent(name, profile)
         IN \/ c \in {Err("ERR_INVALID_COMPONENT"), Err("ERR_NUL_BYTE")}
            \/ \E v \in Seq(Plain) : c = Ok(v) /\ v \notin DotNames /\ (profile = "win32" => ~Device(v))
<1> DEFINE c == sanitizeComponent(name, profile)
           dashed == Dashed(name, Separators)
           trimmed == Trimmed(dashed, Trimmable, TRUE)
           value == IF trimmed = <<>> THEN <<"component">> ELSE trimmed
           made == IF profile = "win32" THEN escapeReservedWin32Component(value) ELSE value
<1>1. c = Unless(name = <<>>, "ERR_INVALID_COMPONENT", Unless(Has(name, NUL), "ERR_NUL_BYTE", Ok(made)))
  BY Zenon DEF sanitizeComponent
<1>2. CASE name = <<>> \/ Has(name, NUL)
  <2> HIDE DEF c, made
  <2> QED
    BY <1>1, <1>2, Zenon DEF Unless, c
<1>3. CASE name # <<>> /\ ~Has(name, NUL)
  <2>1. dashed \in Seq(Plain)
    <3> DEFINE S == Symbols \ {NUL}
    <3>1. name \in Seq(S)
      BY <1>3, HasMeans
    <3>2. "-" \in Plain /\ S \ Separators \subseteq Plain
      BY PlainSigns DEF Plain
    <3> HIDE DEF S
    <3> QED
      BY <3>1, <3>2, DashedType
  <2> HIDE DEF dashed
  <2>2. trimmed \in Seq(Plain) /\ (trimmed # <<>> => trimmed[1] \notin Trimmable)
    <3>1. TRUE \in BOOLEAN
      OBVIOUS
    <3> QED
      BY <2>1, <3>1, TrimmedType, TrimmedStarts
  <2> HIDE DEF trimmed
  <2>3. value \in Seq(Plain) /\ value \notin DotNames
    <3>1. CASE trimmed = <<>>
      <4>1. <<"component">> \in Seq(Plain) /\ <<"component">> \notin DotNames
        BY PlainSigns DEF DotNames
      <4> QED
        BY <3>1, <4>1
    <3>2. CASE trimmed # <<>>
      <4>1. trimmed \notin DotNames
        <5>1. <<".">>[1] \in Trimmable /\ <<".", ".">>[1] \in Trimmable
          BY DEF Trimmable
        <5> QED
          BY <2>2, <3>2, <5>1, Zenon DEF DotNames
      <4> QED
        BY <2>2, <3>2, <4>1
    <3> QED
      BY <3>1, <3>2
  <2> HIDE DEF value
  <2>4. made \in Seq(Plain) /\ made \notin DotNames /\ (profile = "win32" => ~Device(made))
    <3>1. CASE profile = "win32"
      <4> DEFINE u == escapeReservedWin32Component(value)
      <4>1. u \in Seq(Plain) /\ u \notin DotNames /\ ~Device(u)
        BY <2>3, EscapedIsNoDevice
      <4> HIDE DEF u
      <4> QED
        BY <3>1, <4>1, Zenon DEF u
    <3>2. CASE profile # "win32"
      BY <2>3, <3>2, Zenon
    <3> QED
      BY <3>1, <3>2
  <2> HIDE DEF made, c
  <2>5. c = Ok(made)
    BY <1>1, <1>3, Zenon DEF Unless
  <2> QED
    BY <2>4, <2>5, Zenon DEF c
<1> QED
  BY <1>2, <1>3

\* encodeGitRef makes one component that is no device.
LEMMA GitRefName ==
  ASSUME NEW ref \in Refs, ref \in Seq(Symbols)
  PROVE  LET c == encodeGitRef(ref)
         IN \/ c \in {Err("ERR_INVALID_COMPONENT"), Err("ERR_NUL_BYTE")}
            \/ \E v \in Seq(Plain) : c = Ok(v) /\ v \notin DotNames /\ ~Device(v)
<1> DEFINE c == encodeGitRef(ref)
           v == gitRefExpected(ref, MaxSlug)
<1>1. CASE Has(ref, NUL)
  <2>1. c = Err("ERR_INVALID_COMPONENT") \/ c = Err("ERR_NUL_BYTE")
    BY <1>1, Zenon DEF encodeGitRef, Unless
  <2> HIDE DEF c
  <2> QED
    BY <2>1, Zenon DEF c
<1>2. CASE ~Has(ref, NUL)
  <2>1. /\ v \in Seq(Plain) /\ v \notin DotNames /\ v[1] = "v2"
        /\ c = Unless(ref = <<>>, "ERR_INVALID_COMPONENT", Unless(Malformed(ref), "ERR_INVALID_COMPONENT", Ok(v)))
    BY <1>2, RefName
  <2> HIDE DEF c, v
  <2>2. ~Device(v)
    BY <2>1, NoDevice
  <2>3. c = Err("ERR_INVALID_COMPONENT") \/ c = Ok(v)
    BY <2>1, Zenon DEF Unless
  <2> QED
    BY <2>1, <2>2, <2>3, Zenon DEF c
<1> QED
  BY <1>1, <1>2

\* The policy of the guarded mode accepts texts of every root.
LEMMA GuardedMode ==
  /\ ~Guarded.trimOuterWhitespace /\ Guarded.trimOuterWhitespace \in BOOLEAN
  /\ Guarded.mountRoot \in Seq(Symbols) /\ Guarded.sourceHost = "canonical"
  /\ IsOk(NormalizeMountRoot(Guarded.mountRoot))
  /\ \A k : Accepts(Guarded.targetProfile, k)
<1>1. Guarded.mountRoot = <<>> /\ <<>> \in Seq(Symbols) /\ Guarded.targetProfile = "portable"
  BY DEF Guarded, CanonicalHost
<1>2. IsOk(NormalizeMountRoot(<<>>))
  BY NoMount
<1>3. \A k : Accepts(Guarded.targetProfile, k)
  BY <1>1 DEF Accepts
<1> QED
  BY <1>1, <1>2, <1>3 DEF Guarded, CanonicalHost

\* A path that the guarded mode accepts is not changed by it.
LEMMA GuardedKeeps ==
  ASSUME NEW r, NEW p, NEW o, Below(r, p, o), IsOk(Normalize(p, Guarded))
  PROVE  Normalize(p, Guarded) = Ok(p) /\ p \in Seq(Symbols)
<1>1. PICK kind, prefix : \E ps \in Seq(NamesOf(kind)) : RootAt(kind, prefix) /\ p = Whole(kind, prefix, ps)
  BY BelowIsText, Zenon DEF Below
<1>2. PICK ps \in Seq(NamesOf(kind)) : RootAt(kind, prefix) /\ p = Whole(kind, prefix, ps)
  BY <1>1
<1>3. Normalize(p, Guarded) = Ok(p) \/ Normalize(p, Guarded).code \in PolicyErrors
  <2> DEFINE g == Guarded
  <2>1. /\ ~g.trimOuterWhitespace /\ g.sourceHost = "canonical" /\ IsOk(NormalizeMountRoot(g.mountRoot))
        /\ Accepts(g.targetProfile, kind)
    BY GuardedMode
  <2> HIDE DEF g
  <2>2. Normalize(p, g) = Ok(p) \/ Normalize(p, g).code \in PolicyErrors
    BY <1>2, <2>1, ReadAgain
  <2> QED
    BY <2>2 DEF g
<1>4. p \in Seq(Symbols)
  BY <1>2, WholeText
<1> QED
  BY <1>3, <1>4 DEF PolicyErrors, IsOk

\* A name of plain symbols extends a path of allowed names to one of allowed names.
LEMMA GuardedExtends ==
  ASSUME NEW r, NEW p, NEW o, Below(r, p, o), NEW name \in Seq(Plain), name \notin DotNames, ~Device(name),
         IsOk(Normalize(p, Guarded)), NEW q, JoinPath(p, name) = Ok(q)
  PROVE  Normalize(q, Guarded) = Ok(q)
<1> DEFINE g == Guarded
<1>1. /\ ~g.trimOuterWhitespace /\ g.trimOuterWhitespace \in BOOLEAN
      /\ g.mountRoot \in Seq(Symbols) /\ g.sourceHost = "canonical"
      /\ IsOk(NormalizeMountRoot(g.mountRoot))
  BY GuardedMode
<1>2. \A k : Accepts(g.targetProfile, k)
  BY GuardedMode
<1>3. Normalize(p, g) = Ok(p) /\ p \in Seq(Symbols)
  BY GuardedKeeps
<1> HIDE DEF g
<1>4. PICK kind, prefix, kept : Made(kind, prefix, kept, g) /\ Normalize(p, g) = Ok(Whole(kind, prefix, kept))
  BY <1>1, <1>3, NormalizeGives, Outcomes
<1>5. RootAt(kind, prefix) /\ kept \in Seq(NamesOf(kind)) /\ AllowedNames(kept, g) /\ p = Whole(kind, prefix, kept)
  <2>1. RootAt(kind, prefix) /\ kept \in Seq(NamesOf(kind)) /\ AllowedNames(kept, g)
    BY <1>4, Zenon DEF Made
  <2> DEFINE w == Whole(kind, prefix, kept)
  <2>2. Ok(p) = Ok(w)
    BY <1>3, <1>4
  <2> HIDE DEF w
  <2>3. p = w
    BY <2>2, Outcomes
  <2> QED
    BY <2>1, <2>3 DEF w
<1> DEFINE more == Append(kept, name)
<1>6. /\ name \in NamesOf(kind) /\ more \in Seq(NamesOf(kind))
      /\ JoinPath(p, name) = Ok(Whole(kind, prefix, more))
  <2>1. name \in NamesOf(kind) /\ JoinPath(Whole(kind, prefix, kept), name) = Ok(Whole(kind, prefix, Append(kept, name)))
    BY <1>5, PlainAppended
  <2> QED
    BY <1>5, <2>1, AppendProperties
<1>7. q = Whole(kind, prefix, more)
  <2> DEFINE w == Whole(kind, prefix, more)
  <2>1. Ok(q) = Ok(w)
    BY <1>6
  <2> HIDE DEF w
  <2> QED
    BY <2>1, Outcomes DEF w
<1>8. AllowedNames(more, g)
  <2>1. /\ \A i \in 1 .. Len(kept) : (g.rejectADS => ~Has(kept[i], ":")) /\ (g.rejectDeviceNames => ~Device(kept[i]))
    BY <1>5, Zenon DEF AllowedNames
  <2>2. ~Has(name, ":") /\ ~Device(name)
    <3>1. ":" \notin Plain
      BY DEF Plain, Separators
    <3> QED
      BY <3>1, HasMeans
  <2>3. \A i \in 1 .. Len(more) : more[i] = name \/ (i \in 1 .. Len(kept) /\ more[i] = kept[i])
    <3> DEFINE T == NamesOf(kind)
    <3>1. kept \in Seq(T) /\ name \in T
      BY <1>5, <1>6
    <3> HIDE DEF T
    <3>2. Len(more) = Len(kept) + 1 /\ (\A i \in 1 .. Len(kept) : more[i] = kept[i]) /\ more[Len(kept) + 1] = name
          /\ Len(kept) \in Nat
      BY <3>1, AppendProperties
    <3> HIDE DEF more
    <3> QED
      BY <3>2
  <2> HIDE DEF more
  <2>4. \A i \in 1 .. Len(more) : (g.rejectADS => ~Has(more[i], ":")) /\ (g.rejectDeviceNames => ~Device(more[i]))
    BY <2>1, <2>2, <2>3, Zenon
  <2> QED
    BY <2>4, Zenon DEF AllowedNames
<1> HIDE DEF more
<1>9. LET w == Whole(kind, prefix, more)
      IN AllowedNames(more, g) => Normalize(w, g) = Ok(w)
  BY <1>1, <1>2, <1>5, <1>6, ReadAgain
<1> QED
  BY <1>7, <1>8, <1>9 DEF g

\* A name of plain symbols is what relative returns for the path that it extends.
LEMMA PlainIsBelow ==
  ASSUME NEW r, NEW p, NEW o, Below(r, p, o), NEW name \in Seq(Plain), name \notin DotNames,
         IsOk(CanonicalParts(p)), NEW q, JoinPath(p, name) = Ok(q)
  PROVE  Relative(p, q) = Ok(name)
<1>1. PICK kind, prefix : \E ps \in Seq(NamesOf(kind)) : RootAt(kind, prefix) /\ p = Whole(kind, prefix, ps)
  BY BelowIsText, Zenon DEF Below
<1>2. PICK ps \in Seq(NamesOf(kind)) : RootAt(kind, prefix) /\ p = Whole(kind, prefix, ps)
  BY <1>1
<1>3. name \in NamesOf(kind) /\ JoinPath(p, name) = Ok(Whole(kind, prefix, Append(ps, name)))
  BY <1>2, PlainAppended
<1> DEFINE more == <<name>>
           w == Whole(kind, prefix, ps \o more)
<1>4. more \in Seq(NamesOf(kind)) /\ MarkRelative(Joined(more)) = name
  BY <1>3, PlainIsRelative
<1>5. ps \o more = Append(ps, name)
  <2> DEFINE T == NamesOf(kind)
  <2>1. ps \in Seq(T) /\ name \in T
    BY <1>3
  <2> HIDE DEF T
  <2> QED
    BY <2>1
<1>6. q = w
  <2>1. Ok(q) = Ok(w)
    BY <1>3, <1>5, Zenon
  <2> HIDE DEF w
  <2> QED
    BY <2>1, Outcomes
<1>7. kind # "relative"
  BY <1>2, WholeIsCanonical
<1> HIDE DEF more
<1>8. Relative(Whole(kind, prefix, ps), w) = Ok(MarkRelative(Joined(more)))
  BY <1>2, <1>4, <1>7, RelativeOf
<1> QED
  BY <1>2, <1>4, <1>6, <1>8, Zenon

(***************************************************************************)
(* The invariant and the theorems                                          *)
(***************************************************************************)
\* The inductive invariant.
Sound ==
  /\ raw \in Seq(Symbols) /\ opts \in Options
  /\ last \notin {"type", "normalize"} => path # <<>>
  /\ Named => Below(root, path, opts)

\* The constants are texts, and the options have their fields.
LEMMA Strings ==
  /\ Seq(STRING) \subseteq Seq(Symbols)
  /\ \A text \in Starts \cup Names \cup Relatives \cup RawNames \cup Refs : text \in Seq(Symbols)
  /\ \A o \in Options : o \in OptionRecords /\ o.mountRoot \in Seq(Symbols) /\ o.trimOuterWhitespace \in BOOLEAN
<1>1. Seq(STRING) \subseteq Seq(Symbols)
  <2>1. STRING \subseteq Symbols
    BY DEF Symbols
  <2> QED
    BY <2>1, SeqMonotonic
<1>2. Starts \cup Names \cup Relatives \cup RawNames \cup Refs \subseteq Seq(STRING) /\ Options \subseteq OptionRecords
  BY IdentityAssumption
<1>3. \A o \in OptionRecords : o.mountRoot \in Seq(STRING) /\ o.trimOuterWhitespace \in BOOLEAN
  BY DEF OptionRecords
<1> QED
  BY <1>1, <1>2, <1>3, Zenon

\* Typing makes text.
LEMMA TypedText ==
  ASSUME NEW text \in Seq(Symbols), NEW name \in Seq(Symbols), NEW n
  PROVE  text \o (IF n = 0 THEN <<>> ELSE <<"/">>) \o name \in Seq(Symbols)
<1> DEFINE mark == IF n = 0 THEN <<>> ELSE <<"/">>
<1>1. mark \in Seq(Symbols)
  BY TextSigns
<1> HIDE DEF mark
<1>2. text \o mark \in Seq(Symbols)
  BY <1>1, ConcatProperties
<1>3. text \o mark \o name \in Seq(Symbols)
  BY <1>2, ConcatProperties
<1> QED
  BY <1>3 DEF mark

\* An outcome that is an identity below the root keeps the invariant, and so does an error.
LEMMA BecameKeeps ==
  ASSUME NEW operation, NEW text \in Seq(Symbols), NEW result, Sound, Named, operation # "type",
         IsOk(result) => Below(root, result.value, opts),
         BecameBy(operation, text, result)
  PROVE  Sound'
<1>1. /\ path' = IF IsOk(result) THEN result.value ELSE path
      /\ raw' = text /\ opts' = opts /\ root' = root /\ last' = operation
  BY DEF BecameBy
<1>2. Below(root, path, opts)
  BY DEF Sound
<1>3. Below(root, path', opts)
  BY <1>1, <1>2, Zenon
<1>4. Below(root', path', opts')
  BY <1>1, <1>3, Zenon
<1>5. (Named => Below(root, path, opts))'
  BY <1>4
<1>6. opts \in Options
  BY DEF Sound
<1>7. path' # <<>>
  BY <1>3, BelowIsAccepted
<1> QED
  BY <1>1, <1>5, <1>6, <1>7 DEF Sound

\* Every reading from storage finds the identity, or an operand a policy refuses.
LEMMA Reread ==
  ASSUME Below(root, path, opts), opts \in OptionRecords, NEW o \in ReloadOptions
  PROVE  Normalize(path, o) = Ok(path) \/ (path # root /\ Normalize(path, o).code \in PolicyErrors)
<1>1. CASE o = CanonicalHost
  BY <1>1, BelowCanonical
<1>2. CASE o # CanonicalHost
  <2>1. opts.sourceHost \in {"canonical", "posix"} /\ o = [opts EXCEPT !.trimOuterWhitespace = FALSE]
    BY <1>2 DEF ReloadOptions
  <2> QED
    BY <2>1, BelowReload
<1> QED
  BY <1>1, <1>2

\* Every trip to a host and back brings the identity again.
LEMMA HostTrip ==
  ASSUME Below(root, path, opts), opts.mountRoot \in Seq(Symbols), ViaWin32 \/ ViaPOSIX \/ ViaWSL
  PROVE  BecameBy("host", <<>>, Ok(path))
<1>1. CASE ViaWin32
  <2>1. IsOk(ToWin32(path)) /\ BecameBy("host", <<>>, Normalize(ToWin32(path).value, Win32Host))
    BY <1>1 DEF ViaWin32, Became, Standalone_toWin32
  <2> QED
    BY <2>1, BelowWin32
<1>2. CASE ViaPOSIX
  <2>1. IsOk(ToPOSIX(path)) /\ BecameBy("host", <<>>, Normalize(ToPOSIX(path).value, PosixHost))
    BY <1>2 DEF ViaPOSIX, Became, Standalone_toPOSIX
  <2> QED
    BY <2>1, BelowPOSIX
<1>3. CASE ViaWSL
  <2>1. /\ HasDriveRoot(path) /\ IsOk(ToWSL(path, opts.mountRoot))
        /\ BecameBy("host", <<>>, Normalize(ToWSL(path, opts.mountRoot).value, WSLHost(opts.mountRoot)))
    BY <1>3 DEF ViaWSL, Became, Standalone_normalize
  <2> QED
    BY <2>1, BelowWSL
<1> QED
  BY <1>1, <1>2, <1>3

\* An operation whose outcome is the identity itself.
LEMMA KeptBy ==
  ASSUME NEW operation, BecameBy(operation, <<>>, Ok(path))
  PROVE  code' = "ok" /\ path' = path
BY Outcomes DEF BecameBy, Ok

\* The invariant holds before anything is typed.
LEMMA StartIsSound == Init => Sound
<1> SUFFICES ASSUME Init PROVE Sound
  OBVIOUS
<1>1. raw \in Starts /\ opts \in Options /\ last = "type"
  BY DEF Init
<1> QED
  BY <1>1, Strings DEF Sound, Named, Typing

\* Every operation keeps the invariant.
LEMMA StepsAreSound == Sound /\ [Next]_vars => Sound'
<1> SUFFICES ASSUME Sound, [Next]_vars PROVE Sound'
  OBVIOUS
<1>0. /\ opts \in Options /\ opts \in OptionRecords /\ raw \in Seq(Symbols)
      /\ opts.mountRoot \in Seq(Symbols) /\ opts.trimOuterWhitespace \in BOOLEAN
  BY Strings DEF Sound
<1>00. Named => Below(root, path, opts)
  BY DEF Sound
<1>01. <<>> \in Seq(Symbols)
  OBVIOUS
<1>1. ASSUME NEW name \in Names, Type(name) PROVE Sound'
  <2>1. name \in Seq(Symbols)
    BY Strings
  <2>2. raw' \in Seq(Symbols)
    BY <1>0, <1>1, <2>1, TypedText DEF Type
  <2>3. opts' = opts /\ last' = "type"
    BY <1>1 DEF Type, Typing
  <2> QED
    BY <1>0, <2>2, <2>3 DEF Sound, Named, Typing
<1>2. ASSUME NormalizeRaw PROVE Sound'
  <2> DEFINE result == Normalize(raw, opts)
  <2>1. /\ path' = IF IsOk(result) THEN result.value ELSE <<>>
        /\ root' = path' /\ raw' = raw /\ opts' = opts /\ last' = "normalize"
    BY <1>2 DEF NormalizeRaw
  <2> HIDE DEF result
  <2>2. ASSUME path' # <<>> PROVE Below(root', path', opts')
    <3>1. IsOk(result) /\ path' = result.value
      BY <2>1, <2>2
    <3>2. PICK kind, prefix, kept : Made(kind, prefix, kept, opts) /\ result = Ok(Whole(kind, prefix, kept))
      BY <1>0, <3>1, NormalizeGives DEF result
    <3>3. path' = Whole(kind, prefix, kept)
      BY <3>1, <3>2, Outcomes
    <3>4. Below(Whole(kind, prefix, kept), Whole(kind, prefix, kept), opts)
      BY <3>2, NormalizedIsBelow
    <3> QED
      BY <2>1, <3>3, <3>4, Zenon
  <2>3. (Named => Below(root, path, opts))'
    BY <2>2 DEF Named
  <2> QED
    BY <1>0, <2>1, <2>3 DEF Sound
<1>3. ASSUME NEW rel \in Relatives, Descend(rel) PROVE Sound'
  <2> DEFINE result == JoinPath(path, rel)
  <2>1. Named /\ BecameBy("join", <<>>, result)
    BY <1>3 DEF Descend, Became
  <2>2. rel \in Seq(Symbols)
    BY Strings
  <2>3. IsOk(result) => Below(root, result.value, opts)
    BY <1>00, <2>1, <2>2, BelowJoin
  <2> HIDE DEF result
  <2>4. "join" # "type"
    OBVIOUS
  <2> QED
    BY <1>01, <2>1, <2>3, <2>4, BecameKeeps
<1>4. ASSUME NEW rel \in Relatives, DescendChecked(rel) PROVE Sound'
  <2>1. PICK checked \in {Standalone_normalizeRelative(rel), validateRelativePath(rel)} :
          IsOk(checked) /\ Became("join", JoinPath(path, checked.value))
    BY <1>4 DEF DescendChecked
  <2>2. rel \in Seq(Symbols)
    BY Strings
  <2>3. checked = NormalizeRelative(rel) \/ checked = validateRelativePath(rel)
    BY DEF Standalone_normalizeRelative
  <2>4. checked.value \in Seq(Symbols)
    <3>1. Textual(checked)
      BY <2>2, <2>3, OperandText
    <3> QED
      BY <2>1, <3>1 DEF Textual
  <2> DEFINE result == JoinPath(path, checked.value)
  <2>5. Named
    BY <1>4 DEF DescendChecked
  <2>6. IsOk(result) => Below(root, result.value, opts)
    BY <1>00, <2>4, <2>5, BelowJoin
  <2>7. BecameBy("join", <<>>, result)
    BY <2>1 DEF Became
  <2> HIDE DEF result
  <2>8. "join" # "type"
    OBVIOUS
  <2> QED
    BY <1>01, <2>5, <2>6, <2>7, <2>8, BecameKeeps
<1>5. ASSUME NEW name \in RawNames, NEW profile \in {"portable", "win32"}, DescendNamed(name, profile) PROVE Sound'
  <2>1. PICK component \in {sanitizeComponent(name, profile), Standalone_sanitizeComponent(name, profile)} :
          BecameBy(profile, name, Then(component, LAMBDA c : JoinPath(path, c)))
    BY <1>5 DEF DescendNamed
  <2>2. name \in Seq(Symbols)
    BY Strings
  <2>3. component = sanitizeComponent(name, profile)
    BY DEF Standalone_sanitizeComponent
  <2>4. Textual(component)
    BY <2>2, <2>3, ComponentText
  <2> DEFINE result == Extended(path, component)
  <2>5. Named
    BY <1>5 DEF DescendNamed
  <2>6. IsOk(result) => Below(root, result.value, opts)
    BY <1>00, <2>4, <2>5, BelowNamed
  <2>7. profile # "type"
    OBVIOUS
  <2>8. BecameBy(profile, name, result)
    BY <2>1, Zenon DEF Extended
  <2> HIDE DEF result
  <2> QED
    BY <2>2, <2>5, <2>6, <2>7, <2>8, BecameKeeps
<1>6. ASSUME NEW ref \in Refs, DescendGitRef(ref) PROVE Sound'
  <2>1. PICK component \in {encodeGitRef(ref), Standalone_encodeGitRef(ref)} :
          BecameBy("git-ref", ref, Then(component, LAMBDA c : JoinPath(path, c)))
    BY <1>6 DEF DescendGitRef
  <2>2. ref \in Seq(Symbols) /\ MaxSlug \in Nat
    BY Strings, IdentityAssumption
  <2>3. component = encodeGitRef(ref)
    BY DEF Standalone_encodeGitRef
  <2>4. Textual(component)
    BY <2>2, <2>3, GitRefText
  <2> DEFINE result == Extended(path, component)
  <2>5. Named
    BY <1>6 DEF DescendGitRef
  <2>6. IsOk(result) => Below(root, result.value, opts)
    BY <1>00, <2>4, <2>5, BelowNamed
  <2>7. "git-ref" # "type"
    OBVIOUS
  <2>8. BecameBy("git-ref", ref, result)
    BY <2>1, Zenon DEF Extended
  <2> HIDE DEF result
  <2> QED
    BY <2>2, <2>5, <2>6, <2>7, <2>8, BecameKeeps
<1>7. ASSUME Rebuild PROVE Sound'
  <2>1. Named /\ Below(root, path, opts)
    BY <1>00, <1>7 DEF Rebuild
  <2>2. IsOk(Relative(root, path)) /\ BecameBy("rebuild", <<>>, JoinPath(root, Relative(root, path).value))
    BY <1>7 DEF Rebuild, Became, Standalone_join, Standalone_relative
  <2>3. JoinPath(root, Relative(root, path).value) = Ok(path)
    BY <2>1, <2>2, BelowRelative
  <2>4. BecameBy("rebuild", <<>>, Ok(path)) /\ Ok(path).value = path /\ "rebuild" # "type"
    BY <2>2, <2>3, Outcomes
  <2> DEFINE result == Ok(path)
  <2>5. BecameBy("rebuild", <<>>, result) /\ (IsOk(result) => Below(root, result.value, opts))
    BY <2>1, <2>4
  <2> HIDE DEF result
  <2> QED
    BY <1>01, <2>1, <2>4, <2>5, BecameKeeps
<1>8. ASSUME Reload PROVE Sound'
  <2>1. Named /\ Below(root, path, opts)
    BY <1>00, <1>8 DEF Reload
  <2>2. PICK o \in ReloadOptions : BecameBy("reload", <<>>, Normalize(path, o))
    BY <1>8 DEF Reload, Became, Standalone_normalize
  <2>3. Normalize(path, o) = Ok(path) \/ (path # root /\ Normalize(path, o).code \in PolicyErrors)
    BY <1>0, <2>1, Reread
  <2> DEFINE result == Normalize(path, o)
  <2>4. IsOk(result) => Below(root, result.value, opts)
    BY <2>1, <2>3, Outcomes DEF PolicyErrors, IsOk
  <2>5. BecameBy("reload", <<>>, result) /\ "reload" # "type"
    BY <2>2
  <2> HIDE DEF result
  <2> QED
    BY <1>01, <2>1, <2>4, <2>5, BecameKeeps
<1>9. ASSUME ViaWin32 \/ ViaPOSIX \/ ViaWSL PROVE Sound'
  <2>1. Named /\ Below(root, path, opts)
    BY <1>00, <1>9 DEF ViaWin32, ViaPOSIX, ViaWSL
  <2>2. BecameBy("host", <<>>, Ok(path))
    BY <1>0, <1>9, <2>1, HostTrip
  <2>3. IsOk(Ok(path)) /\ Ok(path).value = path /\ "host" # "type"
    BY Outcomes
  <2> DEFINE result == Ok(path)
  <2>4. BecameBy("host", <<>>, result) /\ (IsOk(result) => Below(root, result.value, opts))
    BY <2>1, <2>2, <2>3
  <2> HIDE DEF result
  <2> QED
    BY <1>01, <2>1, <2>3, <2>4, BecameKeeps
<1>10. ASSUME UNCHANGED vars PROVE Sound'
  <2>1. raw' = raw /\ opts' = opts /\ root' = root /\ path' = path /\ last' = last
    BY <1>10 DEF vars
  <2> QED
    BY <1>0, <1>00, <2>1 DEF Sound, Named, Typing
<1> QED
  BY <1>1, <1>2, <1>3, <1>4, <1>5, <1>6, <1>7, <1>8, <1>9, <1>10, Zenon DEF Next

\* The operations by which each action is recorded.
LEMMA Recorded ==
  ASSUME Next
  PROVE  /\ last' = "normalize" => NormalizeRaw
         /\ last' \in {"portable", "win32"} => \E name \in RawNames : DescendNamed(name, last')
         /\ last' = "git-ref" => \E ref \in Refs : DescendGitRef(ref)
         /\ last' = "rebuild" => Rebuild
         /\ last' = "reload" => Reload
         /\ last' = "host" => ViaWin32 \/ ViaPOSIX \/ ViaWSL
<1>1. \A name \in Names : Type(name) => last' = "type"
  BY DEF Type, Typing
<1>2. NormalizeRaw => last' = "normalize"
  BY DEF NormalizeRaw
<1>3. \A rel \in Relatives : Descend(rel) \/ DescendChecked(rel) => last' = "join"
  BY DEF Descend, DescendChecked, Became, BecameBy
<1>4. \A name \in RawNames, profile \in {"portable", "win32"} :
        DescendNamed(name, profile) => last' = profile
  BY DEF DescendNamed, BecameBy
<1>5. \A ref \in Refs : DescendGitRef(ref) => last' = "git-ref"
  BY DEF DescendGitRef, BecameBy
<1>6. Rebuild => last' = "rebuild"
  BY DEF Rebuild, Became, BecameBy
<1>7. Reload => last' = "reload"
  BY DEF Reload, Became, BecameBy
<1>8. ViaWin32 \/ ViaPOSIX \/ ViaWSL => last' = "host"
  BY DEF ViaWin32, ViaPOSIX, ViaWSL, Became, BecameBy
<1> QED
  BY <1>1, <1>2, <1>3, <1>4, <1>5, <1>6, <1>7, <1>8 DEF Next

\* What the last typed text or git ref became is what the script accepts for it.
VectorsHold ==
  /\ last = "git-ref" => GitRefVector(raw, MaxSlug, [code |-> code, value |-> Last(Split(path))])
  /\ last = "normalize" => NormalizeVector(raw, [code |-> code, value |-> path])

\* Every operation leaves a text and an outcome that the script accepts together.
LEMMA StepsKeepVectors == Sound /\ VectorsHold /\ [Next]_vars => VectorsHold'
<1> SUFFICES ASSUME Sound, VectorsHold, [Next]_vars PROVE VectorsHold'
  OBVIOUS
<1>1. ASSUME NormalizeRaw PROVE VectorsHold'
  <2> DEFINE result == Normalize(raw, opts)
             value == IF IsOk(result) THEN result.value ELSE <<>>
  <2>1. path' = value /\ code' = result.code /\ raw' = raw /\ last' = "normalize"
    BY <1>1 DEF NormalizeRaw
  <2>2. raw \in Seq(Symbols) /\ opts.mountRoot \in Seq(Symbols) /\ opts.trimOuterWhitespace \in BOOLEAN
    BY Strings DEF Sound
  <2>3. NormalizeVector(raw, [code |-> result.code, value |-> value])
    BY <2>2, NormalizeVectorHolds
  <2> HIDE DEF result, value
  <2>4. NormalizeVector(raw', [code |-> code', value |-> path'])
    BY <2>1, <2>3
  <2> QED
    BY <2>1, <2>4 DEF VectorsHold
<1>2. ASSUME NEW ref \in Refs, DescendGitRef(ref) PROVE VectorsHold'
  <2>1. PICK component \in {encodeGitRef(ref), Standalone_encodeGitRef(ref)} :
          BecameBy("git-ref", ref, Then(component, LAMBDA c : JoinPath(path, c)))
    BY <1>2 DEF DescendGitRef
  <2>2. component = encodeGitRef(ref)
    BY DEF Standalone_encodeGitRef
  <2> DEFINE result == Extended(path, encodeGitRef(ref))
             q == IF IsOk(result) THEN result.value ELSE path
  <2>3. BecameBy("git-ref", ref, result)
    BY <2>1, <2>2, Zenon DEF Extended
  <2>4. Below(root, path, opts) /\ ref \in Seq(Symbols)
    BY <1>2, Strings DEF DescendGitRef, Sound
  <2>5. GitRefVector(ref, MaxSlug, [code |-> result.code, value |-> Last(Split(q))])
    BY <2>4, GitRefVectorHolds
  <2> HIDE DEF result
  <2>6. path' = q /\ code' = result.code /\ raw' = ref /\ last' = "git-ref"
    BY <2>3 DEF BecameBy
  <2> HIDE DEF q
  <2>7. GitRefVector(raw', MaxSlug, [code |-> code', value |-> Last(Split(path'))])
    BY <2>5, <2>6
  <2> QED
    BY <2>6, <2>7 DEF VectorsHold
<1>3. ASSUME Next, last' \notin {"normalize", "git-ref"} PROVE VectorsHold'
  BY <1>3 DEF VectorsHold
<1>4. ASSUME UNCHANGED vars PROVE VectorsHold'
  <2>1. raw' = raw /\ path' = path /\ last' = last /\ code' = code
    BY <1>4 DEF vars
  <2> QED
    BY <2>1 DEF VectorsHold
<1> QED
  BY <1>1, <1>2, <1>3, <1>4, Recorded

\* Every state of every behaviour is sound: each identity is an
\* identity made by normalize, with names of the same root appended to it.
THEOREM Soundness == Spec => []Sound
<1> QED
  BY StartIsSound, StepsAreSound, PTL DEF Spec

\* Below an absolute root relative always succeeds: no chain of
\* operations (join with any operand, validated operands, sanitized names, git
\* refs, reloads, trips to a host) leaves the identity that normalize returned.
THEOREM DescendingStaysBelowRoot == Spec => []StaysBelowRoot
<1>1. Sound => StaysBelowRoot
  BY BelowRelative DEF Sound, StaysBelowRoot
<1> QED
  BY Soundness, <1>1, PTL

\* Every identity that normalize or any chain of operations produces is
\* canonical to validate-spec.mjs, a definition that shares no code with the
\* implementations; so is what relative and join return for it, and a git ref
\* becomes the name that the script computes.
THEOREM AcceptedByTheScript == Spec => []AcceptedBySpec
<1>1. Init => VectorsHold
  BY DEF Init, VectorsHold
<1>2. Sound /\ VectorsHold => AcceptedBySpec
  <2> SUFFICES ASSUME Sound, VectorsHold PROVE AcceptedBySpec
    OBVIOUS
  <2>1. ASSUME Named PROVE AssertCanonicalPath(path)
    BY <2>1, BelowIsAccepted DEF Sound
  <2>2. ASSUME last = "join"
        PROVE  /\ RelativeVector(root, path, Relative(root, path))
               /\ \A rel \in Relatives : JoinVector(path, rel, JoinPath(path, rel))
    <3>1. Below(root, path, opts)
      BY <2>2 DEF Sound, Named, Typing
    <3>2. \A rel \in Relatives : rel \in Seq(Symbols)
      BY Strings
    <3> QED
      BY <3>1, <3>2, RelativeVectorHolds, JoinVectorHolds
  <2> QED
    BY <2>1, <2>2, Zenon DEF AcceptedBySpec, VectorsHold
<1> QED
  BY Soundness, StepsKeepVectors, <1>1, <1>2, PTL DEF Spec

\* join(root, relative(root, path)) never fails and is exactly path,
\* whichever distribution computes which of the two.
THEOREM RebuildingIsExact == Spec => RebuildExact
<1>1. Sound /\ [Next]_vars => [last' = "rebuild" => code' = "ok" /\ path' = path]_vars
  <2> SUFFICES ASSUME Sound, Next, last' = "rebuild" PROVE code' = "ok" /\ path' = path
    OBVIOUS
  <2>1. Rebuild
    BY Recorded
  <2>2. IsOk(Relative(root, path)) /\ BecameBy("rebuild", <<>>, JoinPath(root, Relative(root, path).value))
    BY <2>1 DEF Rebuild, Became, Standalone_join, Standalone_relative
  <2>3. Below(root, path, opts)
    BY <2>1 DEF Rebuild, Sound
  <2>4. BecameBy("rebuild", <<>>, Ok(path))
    BY <2>2, <2>3, BelowRelative
  <2> QED
    BY <2>4, KeptBy
<1> QED
  BY Soundness, <1>1, PTL DEF Spec, RebuildExact

\* An identity that is read again, in canonical mode or in the mode it
\* was made with, is the same identity; only a component policy may refuse one
\* that join extended with a name the policy never saw.
THEOREM ReloadingIsExact == Spec => ReloadExact
<1>1. Sound /\ [Next]_vars =>
        [last' = "reload" =>
           path' = path /\ (code' = "ok" \/ (path # root /\ code' \in PolicyErrors))]_vars
  <2> SUFFICES ASSUME Sound, Next, last' = "reload"
               PROVE  path' = path /\ (code' = "ok" \/ (path # root /\ code' \in PolicyErrors))
    OBVIOUS
  <2>1. Reload
    BY Recorded
  <2>2. PICK o \in ReloadOptions : BecameBy("reload", <<>>, Normalize(path, o))
    BY <2>1 DEF Reload, Became, Standalone_normalize
  <2>3. Below(root, path, opts) /\ opts \in OptionRecords
    BY <2>1, Strings DEF Reload, Sound
  <2>4. Normalize(path, o) = Ok(path) \/ (path # root /\ Normalize(path, o).code \in PolicyErrors)
    BY <2>3, Reread
  <2>5. CASE Normalize(path, o) = Ok(path)
    BY <2>2, <2>5, KeptBy
  <2>6. CASE path # root /\ Normalize(path, o).code \in PolicyErrors
    <3> DEFINE result == Normalize(path, o)
    <3>1. ~IsOk(result)
      BY <2>6 DEF PolicyErrors, IsOk
    <3>2. BecameBy("reload", <<>>, result) /\ result.code \in PolicyErrors
      BY <2>2, <2>6
    <3> HIDE DEF result
    <3>3. path' = path /\ code' = result.code
      BY <3>1, <3>2 DEF BecameBy
    <3> QED
      BY <2>6, <3>2, <3>3
  <2> QED
    BY <2>4, <2>5, <2>6
<1> QED
  BY Soundness, <1>1, PTL DEF Spec, ReloadExact

\* Every identity that toWin32, toPOSIX or toWSL accepts comes back from
\* that host as the same identity, for every mount root.
THEOREM HostTripsAreExact == Spec => HostTripExact
<1>1. Sound /\ [Next]_vars => [last' = "host" => code' = "ok" /\ path' = path]_vars
  <2> SUFFICES ASSUME Sound, Next, last' = "host" PROVE code' = "ok" /\ path' = path
    OBVIOUS
  <2>1. ViaWin32 \/ ViaPOSIX \/ ViaWSL
    BY Recorded
  <2>2. Below(root, path, opts) /\ opts.mountRoot \in Seq(Symbols)
    BY <2>1, Strings DEF ViaWin32, ViaPOSIX, ViaWSL, Sound
  <2> QED
    BY <2>1, <2>2, HostTrip, KeptBy
<1> QED
  BY Soundness, <1>1, PTL DEF Spec, HostTripExact

\* A component that a text or a git ref becomes: an error, or a name of plain
\* symbols that is no device when it is made for Windows or from a ref.
Component(c, operation) ==
  \/ c \in {Err("ERR_INVALID_COMPONENT"), Err("ERR_NUL_BYTE")}
  \/ \E v \in Seq(Plain) : c = Ok(v) /\ v \notin DotNames /\ (operation \in {"win32", "git-ref"} => ~Device(v))

\* What an operation that extends the path by a name does to it.
LEMMA NamedStep ==
  ASSUME Sound, Next, last' \in {"portable", "win32", "git-ref"}
  PROVE  /\ Below(root, path, opts)
         /\ \E c : /\ Component(c, last') /\ code' = Extended(path, c).code
                   /\ path' = IF IsOk(Extended(path, c)) THEN Extended(path, c).value ELSE path
<1>1. CASE last' = "git-ref"
  <2>1. PICK ref \in Refs : DescendGitRef(ref)
    BY <1>1, Recorded
  <2>2. BecameBy("git-ref", ref, Extended(path, encodeGitRef(ref)))
    <3>1. PICK component \in {encodeGitRef(ref), Standalone_encodeGitRef(ref)} :
            BecameBy("git-ref", ref, Then(component, LAMBDA c : JoinPath(path, c)))
      BY <2>1 DEF DescendGitRef
    <3>2. component = encodeGitRef(ref)
      BY DEF Standalone_encodeGitRef
    <3> QED
      BY <3>1, <3>2, Zenon DEF Extended
  <2>3. Below(root, path, opts) /\ ref \in Seq(Symbols)
    BY <2>1, Strings DEF DescendGitRef, Sound
  <2> DEFINE c == encodeGitRef(ref)
  <2>4. \/ c \in {Err("ERR_INVALID_COMPONENT"), Err("ERR_NUL_BYTE")}
        \/ \E v \in Seq(Plain) : c = Ok(v) /\ v \notin DotNames /\ ~Device(v)
    BY <2>3, GitRefName
  <2> HIDE DEF c
  <2>5. Component(c, last')
    BY <2>4, Zenon DEF Component
  <2>6. code' = Extended(path, c).code /\ path' = IF IsOk(Extended(path, c)) THEN Extended(path, c).value ELSE path
    BY <2>2, Zenon DEF BecameBy, c
  <2> QED
    BY <2>3, <2>5, <2>6, Zenon
<1>2. CASE last' \in {"portable", "win32"}
  <2> DEFINE profile == last'
  <2>1. PICK name \in RawNames : DescendNamed(name, profile)
    BY <1>2, Recorded
  <2>2. BecameBy(profile, name, Extended(path, sanitizeComponent(name, profile)))
    <3>1. PICK component \in {sanitizeComponent(name, profile), Standalone_sanitizeComponent(name, profile)} :
            BecameBy(profile, name, Then(component, LAMBDA c : JoinPath(path, c)))
      BY <2>1, Zenon DEF DescendNamed
    <3>2. component = sanitizeComponent(name, profile)
      BY Zenon DEF Standalone_sanitizeComponent
    <3> HIDE DEF profile
    <3> QED
      BY <3>1, <3>2, Zenon DEF Extended
  <2>3. Below(root, path, opts) /\ name \in Seq(Symbols)
    BY <2>1, Strings DEF DescendNamed, Sound
  <2> DEFINE c == sanitizeComponent(name, profile)
  <2>4. \/ c \in {Err("ERR_INVALID_COMPONENT"), Err("ERR_NUL_BYTE")}
        \/ \E v \in Seq(Plain) : c = Ok(v) /\ v \notin DotNames /\ (profile = "win32" => ~Device(v))
    BY <2>3, SanitizedName
  <2>5. profile # "git-ref"
    BY <1>2
  <2> HIDE DEF c, profile
  <2>6. Component(c, profile)
    BY <2>4, <2>5, Zenon DEF Component
  <2>7. code' = Extended(path, c).code /\ path' = IF IsOk(Extended(path, c)) THEN Extended(path, c).value ELSE path
    BY <2>2, Zenon DEF BecameBy, c
  <2> QED
    BY <2>3, <2>6, <2>7, Zenon DEF profile
<1> QED
  BY <1>1, <1>2

\* A name made from any text or git ref extends the path by exactly one
\* component without separators; it is never refused once it was made, and a name
\* made for Windows or from a ref keeps a path within the policy that allowed it.
THEOREM NamesAreOneComponent == Spec => NamesOneComponent
<1> DEFINE Safe == /\ code' \in {"ok", "ERR_INVALID_COMPONENT", "ERR_NUL_BYTE"}
                   /\ code' = "ok" /\ IsOk(CanonicalParts(path)) =>
                        LET name == Relative(path, path')
                        IN IsOk(name) /\ ToSet(name.value) \cap Separators = {} /\ name.value # <<".">>
                   /\ last' \in {"win32", "git-ref"} /\ IsOk(Normalize(path, Guarded)) =>
                        Normalize(path', Guarded) = Ok(path')
<1>1. Sound /\ [Next]_vars => [last' \in {"portable", "win32", "git-ref"} => Safe]_vars
  <2> SUFFICES ASSUME Sound, Next, last' \in {"portable", "win32", "git-ref"} PROVE Safe
    BY Zenon
  <2>1. Below(root, path, opts)
    BY NamedStep
  <2>2. PICK c : /\ Component(c, last') /\ code' = Extended(path, c).code
                 /\ path' = IF IsOk(Extended(path, c)) THEN Extended(path, c).value ELSE path
    BY NamedStep
  <2>3. CASE c \in {Err("ERR_INVALID_COMPONENT"), Err("ERR_NUL_BYTE")}
    <3>1. ~IsOk(c) /\ c.code \in {"ERR_INVALID_COMPONENT", "ERR_NUL_BYTE"}
      BY <2>3 DEF Err, IsOk
    <3>2. Extended(path, c) = c
      BY <3>1, Zenon DEF Extended, Then
    <3>3. code' \in {"ERR_INVALID_COMPONENT", "ERR_NUL_BYTE"} /\ path' = path
      BY <2>2, <3>1, <3>2, Zenon
    <3>4. IsOk(Normalize(path, Guarded)) => Normalize(path', Guarded) = Ok(path')
      BY <2>1, <3>3, GuardedKeeps
    <3>5. code' \in {"ok", "ERR_INVALID_COMPONENT", "ERR_NUL_BYTE"} /\ code' # "ok"
      BY <3>3
    <3> QED
      BY <3>4, <3>5, Zenon
  <2>4. CASE \E v \in Seq(Plain) : c = Ok(v) /\ v \notin DotNames /\ (last' \in {"win32", "git-ref"} => ~Device(v))
    <3>1. PICK v \in Seq(Plain) : c = Ok(v) /\ v \notin DotNames /\ (last' \in {"win32", "git-ref"} => ~Device(v))
      BY <2>4
    <3>2. PICK q : JoinPath(path, v) = Ok(q)
      <4>1. PICK kind, prefix : \E ps \in Seq(NamesOf(kind)) : RootAt(kind, prefix) /\ path = Whole(kind, prefix, ps)
        BY <2>1, BelowIsText, Zenon DEF Below
      <4> QED
        BY <3>1, <4>1, PlainAppended
    <3>3. Extended(path, c) = Ok(q)
      <4>1. IsOk(Ok(v)) /\ Ok(v).value = v
        BY Outcomes
      <4> QED
        BY <3>1, <3>2, <4>1, Zenon DEF Extended, Then
    <3>4. code' = "ok" /\ path' = q
      <4>1. Ok(q).code = "ok" /\ IsOk(Ok(q)) /\ Ok(q).value = q
        BY Outcomes DEF Ok
      <4> QED
        BY <2>2, <3>3, <4>1, Zenon
    <3>5. ASSUME IsOk(CanonicalParts(path))
          PROVE  LET name == Relative(path, path')
                 IN IsOk(name) /\ ToSet(name.value) \cap Separators = {} /\ name.value # <<".">>
      <4>1. Relative(path, q) = Ok(v)
        BY <2>1, <3>1, <3>2, <3>5, PlainIsBelow
      <4>2. IsOk(Ok(v)) /\ Ok(v).value = v
        BY Outcomes
      <4>3. ToSet(v) \cap Separators = {} /\ v # <<".">>
        BY <3>1 DEF ToSet, Plain, DotNames
      <4> QED
        BY <3>4, <4>1, <4>2, <4>3, Zenon
    <3>6. ASSUME last' \in {"win32", "git-ref"}, IsOk(Normalize(path, Guarded))
          PROVE  Normalize(path', Guarded) = Ok(path')
      <4>1. Normalize(q, Guarded) = Ok(q)
        BY <2>1, <3>1, <3>2, <3>6, GuardedExtends
      <4> QED
        BY <3>4, <4>1, Zenon
    <3>7. code' \in {"ok", "ERR_INVALID_COMPONENT", "ERR_NUL_BYTE"}
      BY <3>4
    <3> QED
      BY <3>5, <3>6, <3>7, Zenon
  <2> QED
    BY <2>2, <2>3, <2>4, Zenon DEF Component
<1> QED
  BY Soundness, <1>1, PTL DEF Spec, NamesOneComponent
=============================================================================
