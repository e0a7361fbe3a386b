------------------------ MODULE StructuralMergeProofs ------------------------
(***************************************************************************)
(* Proofs about the merge of a conflict block, for any lines and conflicts.*)
(***************************************************************************)
EXTENDS StructuralMerge, TLAPS, SequenceTheorems, WellFoundedInduction

-----------------------------------------------------------------------------
(* How a file is cut into blocks. *)

\* A set of positions that is not empty has a first one.
LEMMA Least ==
  ASSUME NEW S, S \subseteq Nat, S # {}
  PROVE  \E p \in S : \A r \in S : p <= r
<1>0. \E p \in S : \A r \in S : ~ (<<r, p>> \in OpToRel(<, Nat))
  BY WFMin, NatLessThanWellFounded, Zenon
<1>1. PICK p \in S : \A r \in S : ~ (<<r, p>> \in OpToRel(<, Nat))
  BY <1>0
<1>2. ASSUME NEW r \in S PROVE p <= r
  <2>1. <<r, p>> \in OpToRel(<, Nat) <=> r < p
    BY DEF OpToRel
  <2>2. ~ (r < p)
    BY <1>1, <2>1, Zenon
  <2> QED BY <2>2
<1> QED BY <1>2

LEMMA FirstAfterIs ==
  ASSUME NEW f, Len(f) \in Nat, NEW p \in 0..Len(f), NEW kinds
  PROVE  /\ FirstAfter(f, p, kinds) \in (p + 1)..(Len(f) + 1)
         /\ FirstAfter(f, p, kinds) <= Len(f) => f[FirstAfter(f, p, kinds)] \in kinds
         /\ \A l \in (p + 1)..(FirstAfter(f, p, kinds) - 1) : f[l] \notin kinds
<1> DEFINE there == {k \in (p + 1)..Len(f) : f[k] \in kinds}
<1>1. FirstAfter(f, p, kinds) = IF there = {} THEN Len(f) + 1
                                ELSE CHOOSE k \in there : \A l \in there : k <= l
  BY DEF FirstAfter
<1>2. CASE there = {}
  BY <1>1, <1>2
<1>3. CASE there # {}
  <2>1. \E k \in there : \A l \in there : k <= l
    <3>1. there \subseteq Nat
      OBVIOUS
    <3> HIDE DEF there
    <3> QED BY <1>3, <3>1, Least
  <2>2. /\ FirstAfter(f, p, kinds) \in there
        /\ \A l \in there : FirstAfter(f, p, kinds) <= l
    BY <1>1, <1>3, <2>1
  <2> QED BY <2>2
<1> QED BY <1>2, <1>3

LEMMA FirstAfterAt ==
  ASSUME NEW f, Len(f) \in Nat, NEW p \in 0..Len(f), NEW kinds,
         NEW q \in (p + 1)..Len(f), f[q] \in kinds,
         \A l \in (p + 1)..(q - 1) : f[l] \notin kinds
  PROVE  FirstAfter(f, p, kinds) = q
<1> DEFINE r == FirstAfter(f, p, kinds)
<1>1. /\ r \in (p + 1)..(Len(f) + 1) /\ (r <= Len(f) => f[r] \in kinds)
      /\ \A l \in (p + 1)..(r - 1) : f[l] \notin kinds
  BY FirstAfterIs
<1> HIDE DEF r
<1>2. ~ (r < q)
  BY <1>1
<1>3. ~ (q < r)
  BY <1>1
<1> QED BY <1>1, <1>2, <1>3 DEF r

\* Markers are told apart from each other and from an empty line.
LEMMA MarkersDiffer ==
  /\ OpenMark # BaseMark /\ OpenMark # Divider /\ OpenMark # CloseMark
  /\ BaseMark # Divider /\ BaseMark # CloseMark /\ Divider # CloseMark
  /\ Blank \notin {OpenMark, BaseMark, Divider, CloseMark}
  BY DEF OpenMark, BaseMark, Divider, CloseMark, Blank

\* A line that is no blank is one of the file's.
LEMMA LineOfFile ==
  ASSUME NEW S, NEW f \in Seq(S), NEW p, LineAt(f, p) # Blank
  PROVE  p \in 1..Len(f) /\ f[p] = LineAt(f, p)
  BY DEF LineAt

\* Where the parts of a block are, and that it ends after it starts.
LEMMA BlockIs ==
  ASSUME NEW S, NEW f \in Seq(S), NEW s \in 1..Len(f), NEW block \in BlockAt(f, s)
  PROVE  \E div \in (s + 1)..Len(f) : \E one \in (s + 1)..div :
           /\ one = FirstAfter(f, s, {OpenMark, BaseMark, Divider})
           /\ one # div => f[one] = BaseMark /\ div = FirstAfter(f, one, {Divider})
           /\ f[div] = Divider
           /\ block.start = s /\ block.end = FirstAfter(f, div, {OpenMark, CloseMark})
           /\ block.end \in (div + 1)..Len(f) /\ f[block.end] = CloseMark
<1> DEFINE one == FirstAfter(f, s, {OpenMark, BaseMark, Divider})
           div == IF LineAt(f, one) = BaseMark THEN FirstAfter(f, one, {Divider}) ELSE one
           end == FirstAfter(f, div, {OpenMark, CloseMark})
<1> USE MarkersDiffer
<1>0. Len(f) \in Nat
  OBVIOUS
<1>1. /\ LineAt(f, div) = Divider /\ LineAt(f, end) = CloseMark
      /\ block.start = s /\ block.end = end
  BY DEF BlockAt
<1>2. one \in (s + 1)..(Len(f) + 1)
  BY <1>0, FirstAfterIs
<1>3. div \in 1..Len(f) /\ f[div] = Divider
  BY <1>1, LineOfFile
<1>4. CASE LineAt(f, one) = BaseMark
  <2>1. one \in (s + 1)..Len(f) /\ f[one] = BaseMark
    BY <1>2, <1>4, LineOfFile
  <2>2. div = FirstAfter(f, one, {Divider})
    BY <1>4
  <2>3. div \in (one + 1)..Len(f)
    BY <1>0, <1>3, <2>1, <2>2, FirstAfterIs
  <2>4. end \in (div + 1)..Len(f) /\ f[end] = CloseMark
    BY <1>0, <1>1, <1>3, FirstAfterIs, LineOfFile
  <2> HIDE DEF div, end
  <2>5. div \in (s + 1)..Len(f) /\ one \in (s + 1)..div
    BY <1>0, <2>1, <2>3
  <2> QED BY <1>1, <1>3, <2>1, <2>2, <2>4, <2>5 DEF end
<1>5. CASE LineAt(f, one) # BaseMark
  <2>1. div = one
    BY <1>5
  <2>2. end \in (div + 1)..Len(f) /\ f[end] = CloseMark
    BY <1>0, <1>1, <1>3, FirstAfterIs, LineOfFile
  <2> HIDE DEF div, end
  <2>3. div \in (s + 1)..Len(f) /\ one \in (s + 1)..div
    BY <1>0, <1>2, <1>3, <2>1
  <2> QED BY <1>1, <1>3, <2>1, <2>2, <2>3 DEF end
<1> QED BY <1>4, <1>5

\* The blocks after a position, from what is known of those after later ones.
Found(f, g, p) ==
  LET s == FirstAfter(f, p, {OpenMark})
  IN  IF s > Len(f) THEN {<<>>}
      ELSE UNION {{<<block>> \o rest : rest \in g[block.end]} : block \in BlockAt(f, s)}

Solves(f, k, g) == g = [p \in k..Len(f) |-> Found(f, g, p)]

LEMMA FoundLater ==
  ASSUME NEW S, NEW f \in Seq(S), NEW p \in 0..Len(f), NEW g, NEW h,
         \A q \in (p + 1)..Len(f) : g[q] = h[q]
  PROVE  Found(f, g, p) = Found(f, h, p)
<1> DEFINE s == FirstAfter(f, p, {OpenMark})
<1>0. Len(f) \in Nat
  OBVIOUS
<1>1. s \in (p + 1)..(Len(f) + 1)
  BY <1>0, FirstAfterIs
<1>2. CASE s > Len(f)
  BY <1>2 DEF Found
<1>3. CASE s \in 1..Len(f)
  <2>1. ASSUME NEW block \in BlockAt(f, s) PROVE g[block.end] = h[block.end]
    <3>1. block.end \in (p + 1)..Len(f)
      <4>1. PICK div \in (s + 1)..Len(f) : block.end \in (div + 1)..Len(f)
        BY <1>3, <2>1, BlockIs
      <4> HIDE DEF s
      <4> QED BY <1>0, <1>1, <4>1
    <3> QED BY <3>1
  <2> HIDE DEF s
  <2>2. {{<<block>> \o rest : rest \in g[block.end]} : block \in BlockAt(f, s)}
         = {{<<block>> \o rest : rest \in h[block.end]} : block \in BlockAt(f, s)}
    BY <2>1
  <2> QED BY <1>0, <1>3, <2>2 DEF Found, s
<1> QED BY <1>0, <1>1, <1>2, <1>3

\* The recursion runs down from the end of the file, so it has a solution.
LEMMA SolvedFrom ==
  ASSUME NEW S, NEW f \in Seq(S), NEW k \in 1..Len(f), NEW g, Solves(f, k, g)
  PROVE  \E h : Solves(f, k - 1, h)
<1> DEFINE h == [p \in (k - 1)..Len(f) |-> IF p = k - 1 THEN Found(f, g, p) ELSE g[p]]
<1>0. Len(f) \in Nat
  OBVIOUS
<1>1. ASSUME NEW p \in (k - 1)..Len(f) PROVE h[p] = Found(f, h, p)
  <2>1. p \in 0..Len(f) /\ \A q \in (p + 1)..Len(f) : q \in (k - 1)..Len(f) /\ q # k - 1
    BY <1>0
  <2>2. \A q \in (p + 1)..Len(f) : g[q] = h[q]
    BY <2>1
  <2>3. Found(f, g, p) = Found(f, h, p)
    BY <2>1, <2>2, FoundLater
  <2>4. h[p] = Found(f, g, p)
    <3>1. CASE p = k - 1
      BY <3>1
    <3>2. CASE p # k - 1
      <4>1. p \in k..Len(f)
        BY <1>0, <3>2
      <4> QED BY <3>2, <4>1 DEF Solves
    <3> QED BY <3>1, <3>2
  <2> QED BY <2>3, <2>4
<1>2. h = [p \in (k - 1)..Len(f) |-> h[p]]
  OBVIOUS
<1> HIDE DEF h
<1>3. h = [p \in (k - 1)..Len(f) |-> Found(f, h, p)]
  BY <1>1, <1>2
<1> QED BY <1>3 DEF Solves

LEMMA Solvable ==
  ASSUME NEW S, NEW f \in Seq(S)
  PROVE  \E g : Solves(f, 0, g)
<1> DEFINE solved == {k \in 0..Len(f) : \E g : Solves(f, k, g)}
<1>0. Len(f) \in Nat
  OBVIOUS
<1>1. Len(f) \in solved
  <2> DEFINE g == [p \in Len(f)..Len(f) |-> {<<>>}]
  <2>1. ASSUME NEW p \in Len(f)..Len(f) PROVE Found(f, g, p) = {<<>>}
    <3>1. p \in 0..Len(f) /\ p = Len(f)
      BY <1>0
    <3>2. FirstAfter(f, p, {OpenMark}) > Len(f)
      BY <1>0, <3>1, FirstAfterIs
    <3> QED BY <3>2 DEF Found
  <2>2. g = [p \in Len(f)..Len(f) |-> Found(f, g, p)]
    BY <2>1
  <2>3. Solves(f, Len(f), g)
    BY <2>2 DEF Solves
  <2> QED BY <1>0, <2>3
<1>2. PICK k \in solved : \A l \in solved : k <= l
  <2>1. solved \subseteq Nat
    BY <1>0
  <2> HIDE DEF solved
  <2> QED BY <1>1, <2>1, Least
<1>3. k \in 0..Len(f) /\ \E g : Solves(f, k, g)
  OBVIOUS
<1>4. k = 0
  <2> SUFFICES ASSUME k # 0 PROVE FALSE
    OBVIOUS
  <2>1. k \in 1..Len(f) /\ k - 1 \in 0..Len(f)
    BY <1>0, <1>3
  <2>2. \E h : Solves(f, k - 1, h)
    BY <1>3, <2>1, SolvedFrom
  <2>3. k - 1 \in solved
    BY <2>1, <2>2
  <2> HIDE DEF solved
  <2> QED BY <1>2, <1>3, <2>3
<1> QED BY <1>3, <1>4

LEMMA BlocksAfterIs ==
  ASSUME NEW S, NEW f \in Seq(S)
  PROVE  \A p \in 0..Len(f) : BlocksAfter(f)[p] = Found(f, BlocksAfter(f), p)
<1> DEFINE g == CHOOSE g : Solves(f, 0, g)
<1>1. Solves(f, 0, g)
  BY Solvable
<1>2. BlocksAfter(f) = g
  BY DEF BlocksAfter, Solves, Found
<1> HIDE DEF g
<1> QED BY <1>1, <1>2 DEF Solves

-----------------------------------------------------------------------------
(* The file git left in conflict, line by line. *)

FileLines ==
  Lines \union {"above", "between", "p", "q", Blank, OpenMark, BaseMark, Divider, CloseMark}

DividerOf(c) == Len(c.current) + Len(c.base) + 4
CloserOf(c)  == DividerOf(c) + Len(c.replayed) + 1

LEMMA LinesDiffer ==
  /\ {"above", "between", "p", "q", Blank} \intersect Markers = {}
  /\ OpenMark # BaseMark /\ OpenMark # Divider /\ OpenMark # CloseMark
  /\ BaseMark # Divider /\ BaseMark # CloseMark /\ Divider # CloseMark
  BY DEF OpenMark, BaseMark, Divider, CloseMark, Blank, Markers

LEMMA ConflictTexts ==
  ASSUME NEW c \in Conflicts
  PROVE  c.current \in Seq(Lines) /\ c.base \in Seq(Lines) /\ c.replayed \in Seq(Lines)
  BY MergeAssumption DEF Text

LEMMA LongerSeq ==
  ASSUME NEW S, NEW x \in Seq(S), NEW y \in Seq(S)
  PROVE  /\ x \o y \in Seq(S) /\ Len(x \o y) = Len(x) + Len(y)
         /\ \A i \in 1..Len(x) : (x \o y)[i] = x[i]
         /\ \A i \in 1..Len(y) : (x \o y)[Len(x) + i] = y[i]
  BY ConcatProperties

LEMMA WiderSeq ==
  ASSUME NEW S, NEW T, S \subseteq T, NEW x \in Seq(S)
  PROVE  x \in Seq(T) /\ \A i \in 1..Len(x) : x[i] \in S
  OBVIOUS

LEMMA Layout ==
  ASSUME NEW c \in Conflicts, CloseMark \notin Lines
  PROVE  LET f == Materialised(c)
             D == DividerOf(c)
             E == CloserOf(c)
         IN  /\ D \in Nat /\ E \in Nat /\ 4 <= D /\ D < E
             /\ f \in Seq(FileLines) /\ Len(f) = E + 8
             /\ f[1] = "above" /\ f[2] = OpenMark /\ f[D] = Divider
             /\ \E b \in 3..(D - 1) : f[b] = BaseMark
             /\ \A i \in 3..(E - 1) : f[i] # CloseMark
             /\ f[E] = CloseMark /\ f[E + 1] = "between" /\ f[E + 2] = OpenMark
             /\ f[E + 3] = "p" /\ f[E + 4] = BaseMark /\ f[E + 5] = Divider
             /\ f[E + 6] = "q" /\ f[E + 7] = CloseMark /\ f[E + 8] = Blank
<1> DEFINE cur == c.current  base == c.base  rep == c.replayed
           head == <<"above", OpenMark>>
           tail == <<CloseMark, "between", OpenMark, "p", BaseMark, Divider,
                     "q", CloseMark, Blank>>
           x1 == head \o cur
           x2 == x1 \o <<BaseMark>>
           x3 == x2 \o base
           x4 == x3 \o <<Divider>>
           x5 == x4 \o rep
           f == x5 \o tail
           D == DividerOf(c)
           E == CloserOf(c)
<1>1. /\ cur \in Seq(FileLines) /\ base \in Seq(FileLines) /\ rep \in Seq(FileLines)
      /\ \A i \in 1..Len(cur) : cur[i] # CloseMark
      /\ \A i \in 1..Len(base) : base[i] # CloseMark
      /\ \A i \in 1..Len(rep) : rep[i] # CloseMark
  <2>1. Lines \subseteq FileLines
    BY DEF FileLines
  <2> QED BY <2>1, ConflictTexts, WiderSeq
<1>2. /\ head \in Seq(FileLines) /\ tail \in Seq(FileLines)
      /\ <<BaseMark>> \in Seq(FileLines) /\ <<Divider>> \in Seq(FileLines)
      /\ Len(head) = 2 /\ Len(tail) = 9 /\ Len(<<BaseMark>>) = 1 /\ Len(<<Divider>>) = 1
      /\ head[1] = "above" /\ head[2] = OpenMark
      /\ <<BaseMark>>[1] = BaseMark /\ <<Divider>>[1] = Divider
      /\ tail[1] = CloseMark /\ tail[2] = "between" /\ tail[3] = OpenMark /\ tail[4] = "p"
      /\ tail[5] = BaseMark /\ tail[6] = Divider /\ tail[7] = "q" /\ tail[8] = CloseMark
      /\ tail[9] = Blank
  BY DEF FileLines
<1>3. Materialised(c) = f
  BY DEF Materialised
<1>4. D = Len(cur) + Len(base) + 4 /\ E = D + Len(rep) + 1
  BY DEF DividerOf, CloserOf
<1>5. Len(cur) \in Nat /\ Len(base) \in Nat /\ Len(rep) \in Nat
  BY <1>1
<1> HIDE DEF cur, base, rep, head, tail, D, E
<1>6. /\ x1 \in Seq(FileLines) /\ Len(x1) = Len(cur) + 2
      /\ x1[1] = "above" /\ x1[2] = OpenMark
      /\ \A i \in 3..Len(x1) : x1[i] # CloseMark
  <2>0. head \in Seq(FileLines) /\ cur \in Seq(FileLines) /\ Len(head) = 2
    BY <1>1, <1>2
  <2>1. /\ \A i \in 1..Len(head) : x1[i] = head[i]
        /\ \A i \in 1..Len(cur) : x1[Len(head) + i] = cur[i]
        /\ x1 \in Seq(FileLines) /\ Len(x1) = Len(head) + Len(cur)
    BY <2>0, LongerSeq
  <2> HIDE DEF x1
  <2>2. ASSUME NEW i \in 3..(Len(cur) + 2) PROVE x1[i] # CloseMark
    <3>1. i - 2 \in 1..Len(cur) /\ 2 + (i - 2) = i
      BY <1>5
    <3>2. x1[Len(head) + (i - 2)] = cur[i - 2] /\ cur[i - 2] # CloseMark
      BY <3>1, <2>1, <1>1
    <3>3. x1[2 + (i - 2)] # CloseMark
      BY <3>2, <2>0
    <3> QED BY <3>1, <3>3
  <2> QED BY <1>2, <1>5, <2>0, <2>1, <2>2
<1> HIDE DEF x1
<1>7. /\ x2 \in Seq(FileLines) /\ Len(x2) = Len(cur) + 3
      /\ x2[1] = "above" /\ x2[2] = OpenMark /\ x2[Len(x2)] = BaseMark
      /\ \A i \in 3..Len(x2) : x2[i] # CloseMark
  <2>1. x2[Len(x1) + 1] = BaseMark /\ \A i \in 1..Len(x1) : x2[i] = x1[i]
    BY <1>2, <1>6, LongerSeq
  <2>2. x2 \in Seq(FileLines) /\ Len(x2) = Len(x1) + 1
    BY <1>2, <1>6, LongerSeq
  <2> HIDE DEF x2
  <2> QED BY <1>5, <1>6, <2>1, <2>2, LinesDiffer
<1> HIDE DEF x2
<1>8. /\ x3 \in Seq(FileLines) /\ Len(x3) = D - 1
      /\ x3[1] = "above" /\ x3[2] = OpenMark /\ x3[Len(x2)] = BaseMark
      /\ \A i \in 3..Len(x3) : x3[i] # CloseMark
  <2>1. /\ \A i \in 1..Len(x2) : x3[i] = x2[i]
        /\ \A i \in 1..Len(base) : x3[Len(x2) + i] = base[i]
        /\ x3 \in Seq(FileLines) /\ Len(x3) = Len(x2) + Len(base)
    <3>1. x2 \in Seq(FileLines) /\ base \in Seq(FileLines)
      BY <1>1, <1>7
    <3> QED BY <3>1, LongerSeq
  <2> HIDE DEF x3
  <2>2. ASSUME NEW i \in 3..Len(x3) PROVE x3[i] # CloseMark
    <3>1. CASE i <= Len(x2)
      BY <1>5, <1>7, <2>1, <3>1
    <3>2. CASE i > Len(x2)
      <4>1. i - Len(x2) \in 1..Len(base) /\ Len(x2) + (i - Len(x2)) = i
        BY <1>5, <1>7, <2>1, <3>2
      <4> QED BY <4>1, <2>1, <1>1
    <3> QED BY <3>1, <3>2, <1>5, <1>7
  <2> QED BY <1>4, <1>5, <1>7, <2>1, <2>2
<1> HIDE DEF x3
<1>9. /\ x4 \in Seq(FileLines) /\ Len(x4) = D /\ x4[D] = Divider
      /\ x4[1] = "above" /\ x4[2] = OpenMark /\ x4[Len(x2)] = BaseMark
      /\ \A i \in 3..Len(x4) : x4[i] # CloseMark
  <2>1. /\ x4[Len(x3) + 1] = Divider /\ \A i \in 1..Len(x3) : x4[i] = x3[i]
        /\ x4 \in Seq(FileLines) /\ Len(x4) = Len(x3) + 1
    BY <1>2, <1>8, LongerSeq
  <2> HIDE DEF x4
  <2> QED BY <1>4, <1>5, <1>7, <1>8, <2>1, LinesDiffer
<1> HIDE DEF x4
<1>10. /\ x5 \in Seq(FileLines) /\ Len(x5) = E - 1 /\ x5[D] = Divider
       /\ x5[1] = "above" /\ x5[2] = OpenMark /\ x5[Len(x2)] = BaseMark
       /\ \A i \in 3..Len(x5) : x5[i] # CloseMark
  <2>1. /\ \A i \in 1..Len(x4) : x5[i] = x4[i]
        /\ \A i \in 1..Len(rep) : x5[Len(x4) + i] = rep[i]
        /\ x5 \in Seq(FileLines) /\ Len(x5) = Len(x4) + Len(rep)
    <3>1. x4 \in Seq(FileLines) /\ rep \in Seq(FileLines)
      BY <1>1, <1>9
    <3> QED BY <3>1, LongerSeq
  <2> HIDE DEF x5
  <2>2. ASSUME NEW i \in 3..Len(x5) PROVE x5[i] # CloseMark
    <3>1. CASE i <= Len(x4)
      BY <1>4, <1>5, <1>9, <2>1, <3>1
    <3>2. CASE i > Len(x4)
      <4>1. i - Len(x4) \in 1..Len(rep) /\ Len(x4) + (i - Len(x4)) = i
        BY <1>4, <1>5, <1>9, <2>1, <3>2
      <4> QED BY <4>1, <2>1, <1>1
    <3> QED BY <3>1, <3>2, <1>4, <1>5, <1>9
  <2> QED BY <1>4, <1>5, <1>7, <1>9, <2>1, <2>2
<1> HIDE DEF x5
<1>11. /\ \A i \in 1..(E - 1) : f[i] = x5[i]
       /\ \A i \in 1..9 : f[(E - 1) + i] = tail[i]
       /\ f \in Seq(FileLines) /\ Len(f) = E + 8
  <2>1. /\ f \in Seq(FileLines) /\ Len(f) = Len(x5) + Len(tail)
        /\ \A i \in 1..Len(x5) : f[i] = x5[i]
        /\ \A i \in 1..Len(tail) : f[Len(x5) + i] = tail[i]
    <3>1. x5 \in Seq(FileLines) /\ tail \in Seq(FileLines)
      BY <1>2, <1>10
    <3> QED BY <3>1, LongerSeq
  <2> HIDE DEF f
  <2> QED BY <2>1, <1>2, <1>4, <1>5, <1>10
<1> HIDE DEF f
<1>12. /\ D \in Nat /\ E \in Nat /\ 4 <= D /\ D < E
       /\ Len(x2) \in 3..(D - 1)
  BY <1>4, <1>5, <1>7
<1>13. /\ f[E] = CloseMark /\ f[E + 1] = "between" /\ f[E + 2] = OpenMark
       /\ f[E + 3] = "p" /\ f[E + 4] = BaseMark /\ f[E + 5] = Divider
       /\ f[E + 6] = "q" /\ f[E + 7] = CloseMark /\ f[E + 8] = Blank
  <2>1. /\ (E - 1) + 1 = E /\ (E - 1) + 2 = E + 1 /\ (E - 1) + 3 = E + 2
        /\ (E - 1) + 4 = E + 3 /\ (E - 1) + 5 = E + 4 /\ (E - 1) + 6 = E + 5
        /\ (E - 1) + 7 = E + 6 /\ (E - 1) + 8 = E + 7 /\ (E - 1) + 9 = E + 8
    BY <1>12
  <2>2. /\ f[(E - 1) + 1] = tail[1] /\ f[(E - 1) + 2] = tail[2] /\ f[(E - 1) + 3] = tail[3]
        /\ f[(E - 1) + 4] = tail[4] /\ f[(E - 1) + 5] = tail[5] /\ f[(E - 1) + 6] = tail[6]
        /\ f[(E - 1) + 7] = tail[7] /\ f[(E - 1) + 8] = tail[8] /\ f[(E - 1) + 9] = tail[9]
    BY <1>11
  <2> QED BY <2>1, <2>2, <1>2
<1>14. /\ f[1] = "above" /\ f[2] = OpenMark /\ f[D] = Divider
       /\ \E b \in 3..(D - 1) : f[b] = BaseMark
       /\ \A i \in 3..(E - 1) : f[i] # CloseMark
  <2>1. {1, 2, D, Len(x2)} \subseteq 1..(E - 1) /\ Len(x5) = E - 1
    BY <1>10, <1>12
  <2>2. f[1] = x5[1] /\ f[2] = x5[2] /\ f[D] = x5[D] /\ f[Len(x2)] = x5[Len(x2)]
    BY <2>1, <1>11
  <2>3. ASSUME NEW i \in 3..(E - 1) PROVE f[i] # CloseMark
    <3>1. i \in 1..(E - 1) /\ i \in 3..Len(x5)
      BY <2>1, <1>12
    <3>2. f[i] = x5[i] /\ x5[i] # CloseMark
      BY <3>1, <1>10, <1>11
    <3> QED BY <3>2
  <2> QED BY <2>2, <2>3, <1>10, <1>12
<1> QED BY <1>3, <1>11, <1>12, <1>13, <1>14 DEF D, E

\* Whatever else is in the conflict, a closer ends its block: the parser sees the two
\* blocks git wrote, or gives the file up.
LEMMA FirstBlockEnds ==
  ASSUME NEW c \in Conflicts, CloseMark \notin Lines, NEW block \in BlockAt(Materialised(c), 2)
  PROVE  block.start = 2 /\ block.end = CloserOf(c)
<1> DEFINE f == Materialised(c)
           D == DividerOf(c)
           E == CloserOf(c)
           kinds == {OpenMark, BaseMark, Divider}
<1>1. /\ D \in Nat /\ E \in Nat /\ 4 <= D /\ D < E
      /\ f \in Seq(FileLines) /\ Len(f) = E + 8 /\ f[D] = Divider /\ f[E] = CloseMark
      /\ \A i \in 3..(E - 1) : f[i] # CloseMark
  BY Layout
<1>3. block \in BlockAt(f, 2)
  BY DEF f
<1> HIDE DEF f, D, E
<1>2. Len(f) \in Nat /\ 2 \in 1..Len(f) /\ 2 \in 0..Len(f) /\ 2 + 1 = 3
  BY <1>1
<1>4. \E div \in (2 + 1)..Len(f) : \E one \in (2 + 1)..div :
        /\ one = FirstAfter(f, 2, {OpenMark, BaseMark, Divider})
        /\ one # div => f[one] = BaseMark /\ div = FirstAfter(f, one, {Divider})
        /\ f[div] = Divider
        /\ block.start = 2 /\ block.end = FirstAfter(f, div, {OpenMark, CloseMark})
        /\ block.end \in (div + 1)..Len(f) /\ f[block.end] = CloseMark
  <2> DEFINE s == 2
  <2>1. f \in Seq(FileLines) /\ s \in 1..Len(f) /\ block \in BlockAt(f, s)
    BY <1>1, <1>2, <1>3
  <2> HIDE DEF s
  <2>2. \E div \in (s + 1)..Len(f) : \E one \in (s + 1)..div :
          /\ one = FirstAfter(f, s, {OpenMark, BaseMark, Divider})
          /\ one # div => f[one] = BaseMark /\ div = FirstAfter(f, one, {Divider})
          /\ f[div] = Divider
          /\ block.start = s /\ block.end = FirstAfter(f, div, {OpenMark, CloseMark})
          /\ block.end \in (div + 1)..Len(f) /\ f[block.end] = CloseMark
    BY <2>1, BlockIs, Zenon
  <2> QED BY <2>2 DEF s
<1>5. PICK div \in 3..Len(f) : \E one \in 3..div :
        /\ one = FirstAfter(f, 2, kinds)
        /\ one # div => f[one] = BaseMark /\ div = FirstAfter(f, one, {Divider})
        /\ block.start = 2 /\ block.end = FirstAfter(f, div, {OpenMark, CloseMark})
        /\ block.end \in (div + 1)..Len(f) /\ f[block.end] = CloseMark
  BY <1>2, <1>4
<1>6. PICK one \in 3..div :
        /\ one = FirstAfter(f, 2, kinds)
        /\ one # div => f[one] = BaseMark /\ div = FirstAfter(f, one, {Divider})
        /\ block.start = 2 /\ block.end = FirstAfter(f, div, {OpenMark, CloseMark})
        /\ block.end \in (div + 1)..Len(f) /\ f[block.end] = CloseMark
  BY <1>5
<1>7. one <= D
  <2>1. \A l \in (2 + 1)..(one - 1) : f[l] \notin kinds
    BY <1>2, <1>6, FirstAfterIs
  <2>2. D \in (2 + 1)..(one - 1) => f[D] \notin kinds
    BY <2>1
  <2> QED BY <1>1, <2>2
<1>8. div <= D
  <2>1. CASE div = one
    BY <1>7, <2>1
  <2>2. CASE one # div
    <3>1. one # D
      BY <1>1, <1>6, <2>2, LinesDiffer
    <3>2. one \in 0..Len(f)
      BY <1>2
    <3>3. \A l \in (one + 1)..(div - 1) : f[l] \notin {Divider}
      BY <1>2, <1>6, <2>2, <3>2, FirstAfterIs
    <3>4. D \in (one + 1)..(div - 1) => f[D] \notin {Divider}
      BY <3>3
    <3> QED BY <1>1, <1>7, <3>1, <3>4
  <2> QED BY <2>1, <2>2
<1>9. block.end <= E
  <2>1. div \in 0..Len(f)
    BY <1>2
  <2>2. \A l \in (div + 1)..(block.end - 1) : f[l] \notin {OpenMark, CloseMark}
    BY <1>2, <1>6, <2>1, FirstAfterIs
  <2>3. E \in (div + 1)..(block.end - 1) => f[E] \notin {OpenMark, CloseMark}
    BY <2>2
  <2> QED BY <1>1, <1>6, <1>8, <2>3
<1>10. block.end = E
  <2>1. block.end \in 3..(E - 1) => f[block.end] # CloseMark
    BY <1>1
  <2> QED BY <1>1, <1>6, <1>9, <2>1
<1> QED BY <1>6, <1>10 DEF E

LEMMA SecondBlockEnds ==
  ASSUME NEW c \in Conflicts, CloseMark \notin Lines,
         NEW block \in BlockAt(Materialised(c), CloserOf(c) + 2)
  PROVE  block.start = CloserOf(c) + 2 /\ block.end = CloserOf(c) + 7
<1> DEFINE f == Materialised(c)
           E == CloserOf(c)
           s == E + 2
           b == E + 4
           d == E + 5
           e == E + 7
           kinds == {OpenMark, BaseMark, Divider}
           ends == {OpenMark, CloseMark}
<1>1. /\ E \in Nat /\ f \in Seq(FileLines) /\ Len(f) = E + 8
      /\ f[E + 2] = OpenMark /\ f[E + 3] = "p" /\ f[E + 4] = BaseMark /\ f[E + 5] = Divider
      /\ f[E + 6] = "q" /\ f[E + 7] = CloseMark
  BY Layout
<1>6. block \in BlockAt(f, s)
  BY DEF f, E
<1> HIDE DEF f, E
<1>0. f[E + 3] \notin Markers /\ f[E + 6] \notin Markers
  BY <1>1, LinesDiffer
<1>2. /\ Len(f) \in Nat /\ s \in 0..Len(f) /\ s \in 1..Len(f)
      /\ b \in 0..Len(f) /\ d \in 0..Len(f)
      /\ b \in (s + 1)..Len(f) /\ d \in (b + 1)..Len(f) /\ e \in (d + 1)..Len(f)
      /\ f[b] \in kinds /\ f[d] \in {Divider} /\ f[e] \in ends
      /\ b # d /\ f[b] # Divider /\ f[d] = Divider
  BY <1>1, LinesDiffer
<1>3. /\ \A l \in (s + 1)..(b - 1) : f[l] \notin kinds
      /\ \A l \in (b + 1)..(d - 1) : f[l] \notin {Divider}
      /\ \A l \in (d + 1)..(e - 1) : f[l] \notin ends
  <2>1. ASSUME NEW l \in (s + 1)..(b - 1) PROVE f[l] \notin kinds
    <3>1. l = E + 3
      BY <1>1
    <3> QED BY <3>1, <1>0 DEF Markers
  <2>2. ASSUME NEW l \in (b + 1)..(d - 1) PROVE f[l] \notin {Divider}
    BY <1>1
  <2>3. ASSUME NEW l \in (d + 1)..(e - 1) PROVE f[l] \notin ends
    <3>1. l = E + 6
      BY <1>1
    <3> QED BY <3>1, <1>0 DEF Markers
  <2> QED BY <2>1, <2>2, <2>3
<1>4. \E div \in (s + 1)..Len(f) : \E one \in (s + 1)..div :
        /\ one = FirstAfter(f, s, kinds)
        /\ one # div => f[one] = BaseMark /\ div = FirstAfter(f, one, {Divider})
        /\ f[div] = Divider
        /\ block.start = s /\ block.end = FirstAfter(f, div, ends)
  <2>1. f \in Seq(FileLines) /\ s \in 1..Len(f) /\ block \in BlockAt(f, s)
    BY <1>1, <1>2, <1>6
  <2> HIDE DEF s
  <2>2. \E div \in (s + 1)..Len(f) : \E one \in (s + 1)..div :
          /\ one = FirstAfter(f, s, {OpenMark, BaseMark, Divider})
          /\ one # div => f[one] = BaseMark /\ div = FirstAfter(f, one, {Divider})
          /\ f[div] = Divider
          /\ block.start = s /\ block.end = FirstAfter(f, div, {OpenMark, CloseMark})
          /\ block.end \in (div + 1)..Len(f) /\ f[block.end] = CloseMark
    BY <2>1, BlockIs, Zenon
  <2> QED BY <2>2
<1> HIDE DEF s, b, d, e, kinds, ends
<1>5. /\ FirstAfter(f, s, kinds) = b /\ FirstAfter(f, b, {Divider}) = d
      /\ FirstAfter(f, d, ends) = e
  BY <1>2, <1>3, FirstAfterAt
<1>7. block.start = s /\ block.end = e
  BY <1>2, <1>4, <1>5
<1> QED BY <1>7 DEF E, s, e

LEMMA ReadAsTwo ==
  ASSUME NEW c \in Conflicts, CloseMark \notin Lines, NEW bs \in ParseBlocks(Materialised(c))
  PROVE  /\ Len(bs) = 2 /\ DOMAIN bs = 1..2
         /\ bs[1].start = 2 /\ bs[1].end = CloserOf(c)
         /\ bs[2].start = CloserOf(c) + 2 /\ bs[2].end = CloserOf(c) + 7
<1> DEFINE f == Materialised(c)
           E == CloserOf(c)
           From == BlocksAfter(f)
           s2 == E + 2
           e2 == E + 7
           open == {OpenMark}
           With(s) == UNION {{<<block>> \o rest : rest \in From[block.end]} :
                                  block \in BlockAt(f, s)}
<1>1. /\ E \in Nat /\ f \in Seq(FileLines) /\ Len(f) = E + 8
      /\ f[1] = "above" /\ f[2] = OpenMark /\ f[E + 1] = "between" /\ f[E + 2] = OpenMark
      /\ f[E + 8] = Blank
  BY Layout
<1>2. /\ From[0] = Found(f, From, 0) /\ From[E] = Found(f, From, E)
      /\ From[e2] = Found(f, From, e2)
  <2> HIDE DEF f, E
  <2>1. 0 \in 0..Len(f) /\ E \in 0..Len(f) /\ e2 \in 0..Len(f)
    BY <1>1
  <2> QED BY <1>1, <2>1, BlocksAfterIs
<1>3. bs \in From[0]
  BY DEF ParseBlocks
<1> HIDE DEF From
<1>9. /\ \A block \in BlockAt(f, 2) : block.start = 2 /\ block.end = E
      /\ \A block \in BlockAt(f, s2) : block.start = s2 /\ block.end = e2
  BY FirstBlockEnds, SecondBlockEnds
<1> HIDE DEF f, E
<1>4. f[1] \notin open /\ f[E + 1] \notin open /\ f[E + 8] \notin open
  BY <1>1, LinesDiffer DEF Markers
<1>5. /\ Len(f) \in Nat /\ 0 \in 0..Len(f) /\ E \in 0..Len(f) /\ e2 \in 0..Len(f)
      /\ 2 \in (0 + 1)..Len(f) /\ f[2] \in open
      /\ s2 \in (E + 1)..Len(f) /\ f[s2] \in open
      /\ \A l \in (0 + 1)..(2 - 1) : f[l] \notin open
      /\ \A l \in (E + 1)..(s2 - 1) : f[l] \notin open
      /\ \A l \in (e2 + 1)..Len(f) : f[l] \notin open
  <2>1. ASSUME NEW l \in (0 + 1)..(2 - 1) PROVE l = 1
    OBVIOUS
  <2>2. ASSUME NEW l \in (E + 1)..(s2 - 1) PROVE l = E + 1
    BY <1>1
  <2>3. ASSUME NEW l \in (e2 + 1)..Len(f) PROVE l = E + 8
    BY <1>1
  <2> QED BY <1>1, <1>4, <2>1, <2>2, <2>3
<1> HIDE DEF s2, e2
<1>6. FirstAfter(f, 0, {OpenMark}) = 2
  BY <1>5, FirstAfterAt
<1>7. FirstAfter(f, E, {OpenMark}) = s2
  BY <1>5, FirstAfterAt
<1>8. FirstAfter(f, e2, {OpenMark}) > Len(f)
  <2>1. /\ FirstAfter(f, e2, open) \in (e2 + 1)..(Len(f) + 1)
        /\ FirstAfter(f, e2, open) <= Len(f) => f[FirstAfter(f, e2, open)] \in open
    BY <1>5, FirstAfterIs
  <2> QED BY <1>5, <2>1
<1>10. From[0] = With(2) /\ From[E] = With(s2) /\ From[e2] = {<<>>}
  <2>1. ~ (2 > Len(f)) /\ ~ (s2 > Len(f))
    BY <1>5
  <2> QED BY <1>2, <1>6, <1>7, <1>8, <2>1 DEF Found
<1>11. PICK b1 \in BlockAt(f, 2) : \E rest \in From[b1.end] : bs = <<b1>> \o rest
  <2>1. bs \in With(2)
    BY <1>3, <1>10
  <2>2. PICK b \in BlockAt(f, 2) : bs \in {<<b>> \o rest : rest \in From[b.end]}
    BY <2>1
  <2> QED BY <2>2
<1>12. PICK rest \in From[E] : bs = <<b1>> \o rest
  BY <1>9, <1>11
<1>13. PICK b2 \in BlockAt(f, s2) : \E rest2 \in From[b2.end] : rest = <<b2>> \o rest2
  BY <1>10, <1>12
<1>14. rest = <<b2>> \o <<>>
  BY <1>9, <1>10, <1>13
<1>15. Len(bs) = 2 /\ DOMAIN bs = 1..2 /\ bs[1] = b1 /\ bs[2] = b2
  <2>1. <<b2>> \o <<>> = <<b2>>
    <3>1. <<b2>> \in Seq({b2})
      OBVIOUS
    <3> QED BY <3>1, ConcatEmptySeq
  <2>2. <<b1>> \in Seq({b1, b2}) /\ <<b2>> \in Seq({b1, b2})
    OBVIOUS
  <2> DEFINE x == <<b1>>
             y == <<b2>>
  <2>3. bs = x \o y
    BY <1>12, <1>14, <2>1
  <2>4. Len(x) = 1 /\ Len(y) = 1 /\ x[1] = b1 /\ y[1] = b2
    OBVIOUS
  <2>5. x \in Seq({b1, b2}) /\ y \in Seq({b1, b2})
    BY <2>2
  <2> HIDE DEF x, y
  <2>6. /\ x \o y \in Seq({b1, b2}) /\ Len(x \o y) = Len(x) + Len(y)
        /\ \A i \in 1..Len(x) : (x \o y)[i] = x[i]
        /\ \A i \in 1..Len(y) : (x \o y)[Len(x) + i] = y[i]
    BY <2>5, LongerSeq
  <2>7. Len(bs) = 2 /\ bs[1] = b1 /\ bs[1 + 1] = b2 /\ bs \in Seq({b1, b2})
    BY <2>3, <2>4, <2>6
  <2> QED BY <2>7
<1> QED BY <1>9, <1>11, <1>13, <1>15 DEF E, s2, e2

-----------------------------------------------------------------------------
(* The finished file. *)

LEMMA FlattenTwo ==
  ASSUME NEW seqs, Len(seqs) = 2, DOMAIN seqs = 1..2
  PROVE  FlattenSeq(seqs) = seqs[1] \o seqs[2]
<1> DEFINE Step(h, i) == IF i = 1 THEN seqs[i] ELSE h[i - 1] \o seqs[i]
           flatten == CHOOSE h : h = [i \in 1..Len(seqs) |-> Step(h, i)]
           g == [i \in 1..Len(seqs) |-> IF i = 1 THEN seqs[1] ELSE seqs[1] \o seqs[2]]
<1>1. g = [i \in 1..Len(seqs) |-> Step(g, i)]
  <2>1. ASSUME NEW i \in 1..Len(seqs) PROVE g[i] = Step(g, i)
    <3>1. i = 1 \/ i = 2
      OBVIOUS
    <3> QED BY <3>1
  <2>2. g = [i \in 1..Len(seqs) |-> g[i]]
    OBVIOUS
  <2> HIDE DEF g, Step
  <2> QED BY <2>1, <2>2
<1>2. flatten = [i \in 1..Len(seqs) |-> Step(flatten, i)]
  <2> HIDE DEF g
  <2> QED BY <1>1
<1>3. FlattenSeq(seqs) = flatten[2]
  BY DEF FlattenSeq
<1> HIDE DEF flatten
<1>4. 1 \in 1..Len(seqs) /\ 2 \in 1..Len(seqs) /\ 2 - 1 = 1 /\ 2 # 1
  OBVIOUS
<1>5. flatten[2] = flatten[1] \o seqs[2] /\ flatten[1] = seqs[1]
  BY <1>2, <1>4
<1> QED BY <1>3, <1>5

LEMMA OneLine ==
  ASSUME NEW S, NEW f \in Seq(S), NEW k \in 1..Len(f), NEW l, f[k] = l
  PROVE  SubSeq(f, k, k) = <<l>>
<1> DEFINE one == SubSeq(f, k, k)
<1>1. one \in Seq(S) /\ Len(one) = 1 /\ one[1] = f[k]
  OBVIOUS
<1> HIDE DEF one
<1>2. one = <<l>>
  BY <1>1
<1> QED BY <1>2 DEF one

\* What is spliced into the file git left: both texts, and the lines around the blocks.
LEMMA SplicedIs ==
  ASSUME NEW c \in Conflicts, CloseMark \notin Lines, NEW bs \in ParseBlocks(Materialised(c)),
         NEW t1, NEW t2,
         NEW t \in SpliceAll(Materialised(c), bs, [n \in DOMAIN bs |-> IF n = 1 THEN t1 ELSE t2])
  PROVE  t = <<"above">> \o t1 \o (<<"between">> \o t2) \o <<Blank>>
<1> DEFINE f == Materialised(c)
           E == CloserOf(c)
           texts == [n \in DOMAIN bs |-> IF n = 1 THEN t1 ELSE t2]
           ends(n) == IF n = 0 THEN 0 ELSE bs[n].end
           pieces == [n \in DOMAIN bs |->
                        SubSeq(f, ends(n - 1) + 1, bs[n].start - 1) \o texts[n]]
<1>1. /\ E \in Nat /\ 4 < E /\ f \in Seq(FileLines) /\ Len(f) = E + 8
      /\ f[1] = "above" /\ f[E + 1] = "between" /\ f[E + 8] = Blank
  <2>1. DividerOf(c) \in Nat /\ 4 <= DividerOf(c) /\ DividerOf(c) < E /\ E \in Nat
    BY Layout
  <2> QED BY <2>1, Layout
<1>2. /\ Len(bs) = 2 /\ DOMAIN bs = 1..2
      /\ bs[1].start = 2 /\ bs[1].end = E /\ bs[2].start = E + 2 /\ bs[2].end = E + 7
  BY ReadAsTwo
<1>3. t = FlattenSeq(pieces) \o SubSeq(f, ends(Len(bs)) + 1, Len(f))
  BY DEF SpliceAll
<1> HIDE DEF f, E
<1>4. /\ ends(0) + 1 = 1 /\ ends(1) + 1 = E + 1 /\ ends(2) + 1 = E + 8
      /\ bs[1].start - 1 = 1 /\ bs[2].start - 1 = E + 1
  BY <1>1, <1>2
<1>5. /\ SubSeq(f, 1, 1) = <<"above">> /\ SubSeq(f, E + 1, E + 1) = <<"between">>
      /\ SubSeq(f, E + 8, E + 8) = <<Blank>>
  <2>1. 1 \in 1..Len(f) /\ E + 1 \in 1..Len(f) /\ E + 8 \in 1..Len(f)
    BY <1>1
  <2> QED BY <1>1, <2>1, OneLine
<1>6. pieces[1] = <<"above">> \o t1 /\ pieces[2] = <<"between">> \o t2
  <2>1. /\ 1 \in DOMAIN bs /\ 2 \in DOMAIN bs /\ 1 - 1 = 0 /\ 2 - 1 = 1
        /\ texts[1] = t1 /\ texts[2] = t2
    BY <1>2
  <2>2. /\ pieces[1] = SubSeq(f, ends(0) + 1, bs[1].start - 1) \o texts[1]
        /\ pieces[2] = SubSeq(f, ends(1) + 1, bs[2].start - 1) \o texts[2]
    BY <2>1
  <2> QED BY <1>4, <1>5, <2>1, <2>2
<1>7. FlattenSeq(pieces) = pieces[1] \o pieces[2]
  <2>1. DOMAIN pieces = 1..2 /\ Len(pieces) = 2
    BY <1>2
  <2> HIDE DEF pieces
  <2> QED BY <2>1, FlattenTwo
<1>8. SubSeq(f, ends(Len(bs)) + 1, Len(f)) = <<Blank>>
  BY <1>1, <1>2, <1>4, <1>5
<1> QED BY <1>3, <1>6, <1>7, <1>8

\* Until the texts are spliced in the file is the one git left, and the blocks are its.
FileInv ==
  /\ pc # "done" => \E c \in Conflicts : file = Materialised(c)
  /\ pc \notin {"parse", "escalated", "done"} => blocks \in ParseBlocks(file)
  /\ FileIsWhole

LEMMA RulesLeaveTheFile ==
  ASSUME FileInv, pc \notin {"parse", "escalated", "done"}, pc' # "done",
         UNCHANGED <<file, blocks>>
  PROVE  FileInv'
  BY DEF FileInv, FileIsWhole

\* A finished file has the lines around the blocks, the resolved text of each block in its
\* place and nothing else of the conflict (splice_resolution, verify_resolved_text): both
\* blocks are found wherever their lines look like openers, base marks or dividers, as long
\* as no line of a side is a closer.
THEOREM TextsInTheirPlaces ==
  ASSUME CloseMark \notin Lines
  PROVE  Spec => []FileIsWhole
<1>1. Init => FileInv
  BY DEF Init, FileInv, FileIsWhole
<1>2. FileInv /\ [Next]_vars => FileInv'
  <2> SUFFICES ASSUME FileInv, [Next]_vars PROVE FileInv'
    OBVIOUS
  <2>1. CASE Parse
    <3>1. CASE ParseBlocks(file) = {}
      BY <2>1, <3>1 DEF Parse, FileInv, FileIsWhole
    <3>2. CASE ParseBlocks(file) # {}
      <4>1. blocks' \in ParseBlocks(file) /\ file' = file /\ pc' = "delete_side" /\ pc = "parse"
        BY <2>1, <3>2 DEF Parse
      <4> QED BY <4>1 DEF FileInv, FileIsWhole
    <3> QED BY <3>1, <3>2
  <2>2. ASSUME NEW rule \in {"delete_side", "identical_sides", "one_sided_change",
                             "disjoint_edits", "zealous_merge", "insertion_union",
                             "convergent_addition", "partial_disjoint", "mini_conflict"},
               NEW offers, NEW nextRule \in {"identical_sides", "one_sided_change",
                             "disjoint_edits", "zealous_merge", "insertion_union",
                             "convergent_addition", "partial_disjoint", "mini_conflict",
                             "outside"},
               Try(rule, offers, nextRule)
        PROVE  FileInv'
    <3>1. /\ pc \notin {"parse", "escalated", "done"} /\ pc' # "done"
          /\ UNCHANGED <<file, blocks>>
      BY <2>2 DEF Try
    <3> QED BY <3>1, RulesLeaveTheFile
  <2>3. CASE \/ DeleteSide \/ IdenticalSide \/ OneSide \/ DisjointEdits \/ Zealous
             \/ UnionOfInserts \/ Convergent \/ Partial \/ Mini
    BY <2>2, <2>3 DEF DeleteSide, IdenticalSide, OneSide, DisjointEdits, Zealous,
                      UnionOfInserts, Convergent, Partial, Mini
  <2>4. CASE Verify
    <3>1. pc = "verify" /\ pc' \in {"outside", "return", "delete_side"} /\ UNCHANGED <<file, blocks>>
      BY <2>4 DEF Verify, Reject
    <3> QED BY <3>1, RulesLeaveTheFile
  <2>5. CASE Outside
    <3>1. pc = "outside" /\ pc' = "return" /\ UNCHANGED <<file, blocks>>
      BY <2>5 DEF Outside
    <3> QED BY <3>1, RulesLeaveTheFile
  <2>6. CASE GiveUp
    <3>1. pc = "outside" /\ pc' \in {"escalated", "outside"} /\ UNCHANGED <<file, blocks>>
      BY <2>6 DEF GiveUp
    <3> QED BY <3>1, RulesLeaveTheFile
  <2>7. CASE ReturnCore
    <3>1. pc = "return" /\ pc' \in {"outside", "return"} /\ UNCHANGED <<file, blocks>>
      BY <2>7 DEF ReturnCore
    <3> QED BY <3>1, RulesLeaveTheFile
  <2>8. CASE Splice
    <3> DEFINE Texts(second) == [n \in DOMAIN blocks |-> IF n = 1 THEN got[1] ELSE second]
    <3>1. /\ pc = "return" /\ got' = got /\ blocks' = blocks
          /\ \E second \in Seconds :
               \/ pc' = "done" /\ file' \in SpliceAll(file, blocks, Texts(second))
               \/ pc' = "escalated" /\ file' = file
      BY <2>8 DEF Splice
    <3>2. PICK c \in Conflicts : file = Materialised(c)
      BY <3>1 DEF FileInv
    <3>3. blocks \in ParseBlocks(Materialised(c))
      BY <3>1, <3>2 DEF FileInv
    <3>4. CASE pc' = "escalated" /\ file' = file
      BY <3>2, <3>4 DEF FileInv, FileIsWhole
    <3>5. ASSUME NEW second \in Seconds, pc' = "done",
                 file' \in SpliceAll(file, blocks, Texts(second))
          PROVE  FileInv'
      <4>1. file' \in SpliceAll(Materialised(c), blocks, Texts(second))
        BY <3>2, <3>5
      <4>2. file' = <<"above">> \o got[1] \o (<<"between">> \o second) \o <<Blank>>
        BY <3>3, <4>1, SplicedIs
      <4>3. FileIsWhole'
        BY <3>1, <4>2 DEF FileIsWhole
      <4> QED BY <3>5, <4>3 DEF FileInv
    <3> QED BY <3>1, <3>4, <3>5
  <2>9. CASE OtherRule
    <3>1. pc \notin {"parse", "escalated", "done"} /\ pc' = "verify" /\ UNCHANGED <<file, blocks>>
      BY <2>9 DEF OtherRule
    <3> QED BY <3>1, RulesLeaveTheFile
  <2>10. CASE UNCHANGED vars
    BY <2>10 DEF vars, FileInv, FileIsWhole
  <2> QED BY <2>1, <2>3, <2>4, <2>5, <2>6, <2>7, <2>8, <2>9, <2>10 DEF Next
<1>3. FileInv => FileIsWhole
  BY DEF FileInv
<1> QED BY <1>1, <1>2, <1>3, PTL DEF Spec

-----------------------------------------------------------------------------
(* The line-by-line rules and the order of the sides. *)

\* One conflict with its sides the other way round.
Interchanged(u, v) ==
  v.base = u.base /\ v.current = u.replayed /\ v.replayed = u.current

LEMMA DiffsInterchange ==
  ASSUME NEW u, NEW v, Interchanged(u, v)
  PROVE  /\ Diffs(v).bl = Diffs(u).bl
         /\ Diffs(v).cl = Diffs(u).rl /\ Diffs(v).rl = Diffs(u).cl
         /\ Diffs(v).cur = Diffs(u).rep /\ Diffs(v).rep = Diffs(u).cur
  BY DEF Diffs, Interchanged

LEMMA NewlineInterchange ==
  ASSUME NEW u, NEW v, Interchanged(u, v), NEW t
  PROVE  RestoreNewline(t, v) = RestoreNewline(t, u)
<1>1. {u.base, u.current, u.replayed} = {v.base, v.current, v.replayed}
  BY DEF Interchanged
<1> QED BY <1>1 DEF RestoreNewline

LEMMA DisjointInterchange ==
  ASSUME NEW u, NEW v, Interchanged(u, v)
  PROVE  DisjointMerge(u) = DisjointMerge(v)
<1> DEFINE d == Diffs(u)
           e == Diffs(v)
           Both(x) == Regions(x.cur, x.cl) \union Regions(x.rep, x.rl)
<1>1. /\ e.bl = d.bl /\ e.cl = d.rl /\ e.rl = d.cl /\ e.cur = d.rep /\ e.rep = d.cur
  BY DiffsInterchange
<1>2. Disjoint(d) <=> Disjoint(e)
  <2> HIDE DEF d, e
  <2>1. Span(d.cur) \intersect Span(d.rep) = Span(d.rep) \intersect Span(d.cur)
    OBVIOUS
  <2> QED BY <1>1, <2>1 DEF Disjoint
<1>3. Both(d) = Both(e)
  <2> HIDE DEF d, e
  <2>1. Both(e) = Regions(d.rep, d.rl) \union Regions(d.cur, d.cl)
    BY <1>1
  <2> QED BY <2>1
<1>4. RestoreNewline(Rewritten(d.bl, Both(d)), u) = RestoreNewline(Rewritten(e.bl, Both(e)), v)
  <2> HIDE DEF d, e, Both
  <2>1. Rewritten(d.bl, Both(d)) = Rewritten(e.bl, Both(e))
    BY <1>1, <1>3
  <2> QED BY <2>1, NewlineInterchange
<1>5. /\ DisjointMerge(u) = IF Disjoint(d)
                            THEN {RestoreNewline(Rewritten(d.bl, Both(d)), u)} ELSE {}
      /\ DisjointMerge(v) = IF Disjoint(e)
                            THEN {RestoreNewline(Rewritten(e.bl, Both(e)), v)} ELSE {}
  BY DEF DisjointMerge
<1> HIDE DEF d, e, Both
<1> QED BY <1>2, <1>4, <1>5

LEMMA AgreedInterchange ==
  ASSUME NEW cur, NEW rep
  PROVE  Agreed(cur, rep) = Agreed(rep, cur)
<1>1. ASSUME NEW g PROVE g \in cur \union rep <=> g \in rep \union cur
  OBVIOUS
<1> QED BY <1>1 DEF Agreed

LEMMA NextToInterchange ==
  ASSUME NEW cur, NEW rep
  PROVE  DeletesNextToChange(cur, rep) <=> DeletesNextToChange(rep, cur)
  BY DEF DeletesNextToChange

LEMMA ZealousInterchange ==
  ASSUME NEW u, NEW v, Interchanged(u, v)
  PROVE  ZealousMerge(u) = ZealousMerge(v)
<1> DEFINE d == Diffs(u)
           e == Diffs(v)
           Declines(x) == \/ HasInsert(x.cur) \/ HasInsert(x.rep)
                          \/ Span(x.cur) = {} \/ Span(x.rep) = {}
                          \/ Len(x.cl) # Len(x.rl) /\ DeletesNextToChange(x.cur, x.rep)
           Walked(x) == Walk(x.bl, Regions(x.cur, x.cl) \union Regions(x.rep, x.rl),
                             Agreed(Regions(x.cur, x.cl), Regions(x.rep, x.rl)))
           Of(x) == IF Declines(x) THEN {} ELSE Walked(x)
<1>1. /\ e.bl = d.bl /\ e.cl = d.rl /\ e.rl = d.cl /\ e.cur = d.rep /\ e.rep = d.cur
  BY DiffsInterchange
<1>2. /\ ZealousMerge(u) = {RestoreNewline(Join(t), u) : t \in Of(d)}
      /\ ZealousMerge(v) = {RestoreNewline(Join(t), v) : t \in Of(e)}
  BY DEF ZealousMerge
<1> HIDE DEF d, e
<1>3. Declines(d) <=> Declines(e)
  BY <1>1, NextToInterchange
<1>4. Walked(d) = Walked(e)
  <2> DEFINE cur == Regions(d.cur, d.cl)
             rep == Regions(d.rep, d.rl)
  <2>1. Walked(e) = Walk(d.bl, rep \union cur, Agreed(rep, cur))
    BY <1>1
  <2>2. Walked(d) = Walk(d.bl, cur \union rep, Agreed(cur, rep))
    OBVIOUS
  <2>3. cur \union rep = rep \union cur /\ Agreed(cur, rep) = Agreed(rep, cur)
    BY AgreedInterchange
  <2> HIDE DEF cur, rep, Walked
  <2> QED BY <2>1, <2>2, <2>3
<1>5. Of(d) = Of(e)
  <2> HIDE DEF Declines, Walked
  <2> QED BY <1>3, <1>4
<1>6. \A t : RestoreNewline(Join(t), u) = RestoreNewline(Join(t), v)
  BY NewlineInterchange
<1> HIDE DEF Of
<1> QED BY <1>2, <1>5, <1>6

\* What lies on the stack are units, and while a rule is asked there is one.
IsUnit(u) ==
  u = [base |-> u.base, current |-> u.current, replayed |-> u.replayed,
       rule |-> u.rule, offer |-> u.offer]

Stacked == \E S : stack \in Seq(S) /\ \A u \in S : IsUnit(u)

StackInv ==
  /\ Stacked
  /\ pc \notin {"parse", "escalated"} => stack # <<>>

LEMMA TopIsUnit ==
  ASSUME Stacked, stack # <<>>
  PROVE  IsUnit(Top)
<1>1. PICK S : stack \in Seq(S) /\ \A u \in S : IsUnit(u)
  BY DEF Stacked
<1>2. Len(stack) \in 1..Len(stack)
  BY <1>1
<1> QED BY <1>1, <1>2 DEF Top, Last

LEMMA OneMoreUnit ==
  ASSUME Stacked, NEW u, IsUnit(u), stack' = Append(stack, u)
  PROVE  Stacked' /\ stack' # <<>>
<1>1. PICK S : stack \in Seq(S) /\ \A w \in S : IsUnit(w)
  BY DEF Stacked
<1> DEFINE T == S \union {u}
<1>2. stack' \in Seq(T) /\ \A w \in T : IsUnit(w)
  BY <1>1
<1>3. stack' # <<>>
  BY <1>1
<1> QED BY <1>2, <1>3 DEF Stacked

LEMMA OneUnitLess ==
  ASSUME Stacked, stack # <<>>, Depth # 0, stack' = Front(stack)
  PROVE  Stacked' /\ stack' # <<>>
<1>1. PICK S : stack \in Seq(S) /\ \A w \in S : IsUnit(w)
  BY DEF Stacked
<1>2. Len(stack) \in Nat /\ Len(stack) >= 2
  <2>1. Len(stack) \in Nat /\ Len(stack) # 0
    BY <1>1
  <2>2. Len(stack) - 1 # 0
    BY DEF Depth
  <2> DEFINE n == Len(stack)
  <2>3. n \in Nat /\ n # 0 /\ n - 1 # 0
    BY <2>1, <2>2
  <2> HIDE DEF n
  <2>4. n \in Nat /\ n >= 2
    BY <2>3
  <2> QED BY <2>4 DEF n
<1>3. stack' \in Seq(S) /\ Len(stack') = Len(stack) - 1
  BY <1>1, <1>2 DEF Front
<1>4. stack' # <<>>
  BY <1>2, <1>3
<1> QED BY <1>1, <1>3, <1>4 DEF Stacked

LEMMA OfferChanged ==
  ASSUME NEW w, IsUnit(w), NEW rule, NEW offer
  PROVE  [[w EXCEPT !.rule = rule] EXCEPT !.offer = offer]
         = [base |-> w.base, current |-> w.current, replayed |-> w.replayed,
            rule |-> rule, offer |-> offer]
<1>1. PICK b, c, r, k, o : w = [base |-> b, current |-> c, replayed |-> r, rule |-> k, offer |-> o]
  BY DEF IsUnit
<1>2. w.base = b /\ w.current = c /\ w.replayed = r
  BY <1>1
<1>3. [w EXCEPT !.rule = rule]
      = [base |-> b, current |-> c, replayed |-> r, rule |-> rule, offer |-> o]
  BY <1>1
<1>4. [[base |-> b, current |-> c, replayed |-> r, rule |-> rule, offer |-> o]
         EXCEPT !.offer = offer]
      = [base |-> b, current |-> c, replayed |-> r, rule |-> rule, offer |-> offer]
  OBVIOUS
<1> QED BY <1>2, <1>3, <1>4

LEMMA PutIs ==
  ASSUME Stacked, stack # <<>>, NEW rule, NEW o, Put(rule, o)
  PROVE  stack' = [stack EXCEPT ![Len(stack)] =
                     [base |-> Top.base, current |-> Top.current, replayed |-> Top.replayed,
                      rule |-> rule, offer |-> <<o>>]]
<1> DEFINE n == Len(stack)
           new == [base |-> Top.base, current |-> Top.current, replayed |-> Top.replayed,
                   rule |-> rule, offer |-> <<o>>]
           ruled == [stack EXCEPT ![n].rule = rule]
<1>1. PICK S : stack \in Seq(S) /\ \A w \in S : IsUnit(w)
  BY DEF Stacked
<1>2. n \in 1..Len(stack) /\ Top = stack[n]
  BY <1>1 DEF Top, Last
<1>3. IsUnit(Top)
  BY TopIsUnit
<1>4. stack' = [ruled EXCEPT ![n].offer = <<o>>]
  BY DEF Put
<1>5. DOMAIN ruled = DOMAIN stack /\ n \in DOMAIN stack
  BY <1>1, <1>2
<1>6. ruled = [stack EXCEPT ![n] = [Top EXCEPT !.rule = rule]]
  BY <1>2
<1>7. [[Top EXCEPT !.rule = rule] EXCEPT !.offer = <<o>>] = new
  BY <1>3, OfferChanged
<1> HIDE DEF new, ruled
<1>8. stack' = [ruled EXCEPT ![n] = new]
  BY <1>1, <1>4, <1>5, <1>6, <1>7
<1>9. stack' = [stack EXCEPT ![n] = new]
  <2> HIDE DEF n
  <2> QED BY <1>1, <1>5, <1>6, <1>8
<1> QED BY <1>9 DEF new

LEMMA OfferPut ==
  ASSUME Stacked, stack # <<>>, NEW rule, NEW o, Put(rule, o)
  PROVE  Stacked' /\ stack' # <<>>
<1> DEFINE n == Len(stack)
           new == [base |-> Top.base, current |-> Top.current, replayed |-> Top.replayed,
                   rule |-> rule, offer |-> <<o>>]
           T(S) == S \union {new}
<1>1. PICK S : stack \in Seq(S) /\ \A w \in S : IsUnit(w)
  BY DEF Stacked
<1>2. n \in 1..Len(stack) /\ IsUnit(new)
  BY <1>1 DEF IsUnit
<1>3. stack' = [stack EXCEPT ![n] = new]
  BY PutIs
<1> HIDE DEF new
<1>4. stack' \in Seq(T(S)) /\ (\A w \in T(S) : IsUnit(w)) /\ stack' # <<>>
  BY <1>1, <1>2, <1>3
<1> HIDE DEF T
<1> QED BY <1>4 DEF Stacked

LEMMA RuleKeepsUnits ==
  ASSUME StackInv, NEW rule, rule \notin {"parse", "escalated"},
         NEW offers, NEW nextRule, Try(rule, offers, nextRule)
  PROVE  StackInv'
<1>1. stack # <<>> /\ Stacked
  BY DEF StackInv, Try
<1>2. CASE offers = {}
  BY <1>1, <1>2 DEF Try, StackInv, Stacked
<1>3. CASE offers # {}
  <2>1. PICK o \in offers : Put(rule, o)
    BY <1>3 DEF Try
  <2> QED BY <1>1, <2>1, OfferPut DEF StackInv
<1> QED BY <1>2, <1>3

\* The disjoint and the zealous merge (_try_disjoint_edit_merge, _try_zealous_merge) give
\* the same text whichever of the two sides is called current, for every base and every
\* pair of sides.
THEOREM WhicheverIsCurrent == Spec => []SidesInterchange
<1>1. Init => StackInv
  <2>1. <<>> \in Seq({})
    OBVIOUS
  <2> QED BY <2>1 DEF Init, StackInv, Stacked
<1>2. StackInv /\ [Next]_vars => StackInv'
  <2> SUFFICES ASSUME StackInv, [Next]_vars PROVE StackInv'
    OBVIOUS
  <2>1. CASE Parse
    <3>1. CASE ParseBlocks(file) = {}
      BY <2>1, <3>1 DEF Parse, StackInv, Stacked
    <3>2. CASE ParseBlocks(file) # {}
      <4> DEFINE u == Unit(blocks'[1].base, blocks'[1].current, blocks'[1].replayed)
      <4>1. stack' = <<u>>
        BY <2>1, <3>2 DEF Parse
      <4>2. IsUnit(u)
        BY DEF Unit, IsUnit
      <4> HIDE DEF u
      <4>3. stack' \in Seq({u}) /\ stack' # <<>>
        BY <4>1
      <4> QED BY <4>2, <4>3 DEF StackInv, Stacked
    <3> QED BY <3>1, <3>2
  <2>2. CASE \/ DeleteSide \/ IdenticalSide \/ OneSide \/ DisjointEdits \/ Zealous
             \/ UnionOfInserts \/ Convergent \/ Partial \/ Mini
    <3>1. PICK rule \in {"delete_side", "identical_sides", "one_sided_change",
                          "disjoint_edits", "zealous_merge", "insertion_union",
                          "convergent_addition", "partial_disjoint", "mini_conflict"} :
            \E offers : \E nextRule \in {"identical_sides", "one_sided_change",
                          "disjoint_edits", "zealous_merge", "insertion_union",
                          "convergent_addition", "partial_disjoint", "mini_conflict",
                          "outside"} : Try(rule, offers, nextRule)
      BY <2>2 DEF DeleteSide, IdenticalSide, OneSide, DisjointEdits, Zealous,
                  UnionOfInserts, Convergent, Partial, Mini
    <3> QED BY <3>1, RuleKeepsUnits
  <2>3. CASE Verify
    <3>1. stack # <<>> /\ Stacked
      BY <2>3 DEF Verify, StackInv
    <3>2. CASE UNCHANGED stack
      BY <3>1, <3>2 DEF StackInv, Stacked
    <3>3. CASE \E b, c, r : stack' = Append(stack, Unit(b, c, r))
      <4>1. \A b, c, r : IsUnit(Unit(b, c, r))
        BY DEF Unit, IsUnit
      <4> QED BY <3>1, <3>3, <4>1, OneMoreUnit DEF StackInv
    <3> QED BY <2>3, <3>2, <3>3 DEF Verify, Reject
  <2>4. CASE Outside
    BY <2>4 DEF Outside, StackInv, Stacked
  <2>5. CASE GiveUp
    <3>1. stack # <<>> /\ Stacked
      BY <2>5 DEF GiveUp, StackInv
    <3>2. CASE Depth = 0
      BY <2>5, <3>1, <3>2 DEF GiveUp, StackInv, Stacked
    <3>3. CASE Depth # 0
      BY <2>5, <3>1, <3>3, OneUnitLess DEF GiveUp, StackInv
    <3> QED BY <3>2, <3>3
  <2>6. CASE ReturnCore
    <3>1. stack # <<>> /\ Stacked
      BY <2>6 DEF ReturnCore, StackInv
    <3>2. Depth # 0
      <4>1. Depth > 0
        BY <2>6 DEF ReturnCore
      <4> HIDE DEF Depth
      <4> QED BY <4>1
    <3>3. stack' = Front(stack)
      BY <2>6 DEF ReturnCore
    <3> QED BY <3>1, <3>2, <3>3, OneUnitLess DEF StackInv
  <2>7. CASE Splice
    <3>1. pc = "return" /\ UNCHANGED stack
      BY <2>7 DEF Splice
    <3> QED BY <3>1 DEF StackInv, Stacked
  <2>8. CASE OtherRule
    <3>1. stack # <<>> /\ Stacked
      BY <2>8 DEF OtherRule, StackInv
    <3>2. PICK t \in Answers(Top) : Put("other", Whole(t))
      BY <2>8 DEF OtherRule
    <3> QED BY <3>1, <3>2, OfferPut DEF StackInv
  <2>9. CASE UNCHANGED vars
    BY <2>9 DEF vars, StackInv, Stacked
  <2> QED BY <2>1, <2>2, <2>3, <2>4, <2>5, <2>6, <2>7, <2>8, <2>9 DEF Next
<1>3. StackInv => SidesInterchange
  <2> SUFFICES ASSUME StackInv PROVE SidesInterchange
    OBVIOUS
  <2> DEFINE swapped == [Top EXCEPT !.current = Top.replayed, !.replayed = Top.current]
  <2>1. ASSUME pc \in {"disjoint_edits", "zealous_merge"} PROVE Interchanged(Top, swapped)
    <3>1. IsUnit(Top)
      BY <2>1, TopIsUnit DEF StackInv
    <3> HIDE DEF Top
    <3> QED BY <3>1 DEF IsUnit, Interchanged
  <2> HIDE DEF swapped
  <2>2. pc = "disjoint_edits" => DisjointMerge(Top) = DisjointMerge(swapped)
    BY <2>1, DisjointInterchange
  <2>3. pc = "zealous_merge" => ZealousMerge(Top) = ZealousMerge(swapped)
    BY <2>1, ZealousInterchange
  <2> QED BY <2>2, <2>3 DEF SidesInterchange, swapped
<1> QED BY <1>1, <1>2, <1>3, PTL DEF Spec

-----------------------------------------------------------------------------
(* The units that wait for their cores. *)

\* A core is left open as three texts, or not at all.
NoneOrThree(core) == core = <<>> \/ core = <<core[1], core[2], core[3]>>

\* Which offers may leave a core open, and that the offer under check is there.
NestInv ==
  /\ StackInv
  /\ CoresNest
  /\ \A k \in 1..Len(stack) :
       stack[k].offer # <<>> =>
         /\ NoneOrThree(stack[k].offer[1].core)
         /\ stack[k].offer[1].core = <<>> \/ k <= 2
  /\ pc = "verify" => Top.offer # <<>>

LEMMA HeightIs ==
  ASSUME Stacked
  PROVE  /\ Len(stack) \in Nat /\ DOMAIN stack = 1..Len(stack)
         /\ stack # <<>> => Len(stack) \in 1..Len(stack) /\ Len(stack) >= 1
<1>1. PICK S : stack \in Seq(S)
  BY DEF Stacked
<1>2. stack # <<>> => Len(stack) # 0
  BY <1>1
<1>3. Len(stack) \in Nat /\ DOMAIN stack = 1..Len(stack)
  BY <1>1
<1> QED BY <1>2, <1>3

LEMMA SameStack ==
  ASSUME NestInv, UNCHANGED stack, pc' # "verify",
         pc' \notin {"parse", "escalated"} => stack # <<>>
  PROVE  NestInv'
  BY DEF NestInv, CoresNest, StackInv, Stacked

LEMMA OfferNests ==
  ASSUME NestInv, stack # <<>>, NEW rule, NEW o, Put(rule, o),
         NoneOrThree(o.core), o.core = <<>> \/ Len(stack) <= 2
  PROVE  NestInv'
<1> DEFINE n == Len(stack)
           new == [base |-> Top.base, current |-> Top.current, replayed |-> Top.replayed,
                   rule |-> rule, offer |-> <<o>>]
<1>1. Stacked
  BY DEF NestInv, StackInv
<1>2. stack' = [stack EXCEPT ![n] = new]
  BY <1>1, PutIs
<1>3. /\ n \in Nat /\ DOMAIN stack = 1..n /\ n \in 1..n
      /\ Top = stack[n]
  BY <1>1, HeightIs DEF Top, Last
<1>4. Len(stack') = n
  <2>1. PICK S : stack \in Seq(S)
    BY <1>1 DEF Stacked
  <2> QED BY <1>2, <2>1
<1>5. stack'[n] = new /\ \A k \in 1..(n - 1) : stack'[k] = stack[k]
  BY <1>2, <1>3
<1>6. /\ new.offer = <<o>> /\ <<o>> # <<>> /\ <<o>>[1] = o
      /\ new.base = stack[n].base /\ new.current = stack[n].current
      /\ new.replayed = stack[n].replayed
  BY <1>3
<1>7. StackInv'
  <2>1. Stacked' /\ stack' # <<>>
    BY <1>1, OfferPut
  <2> QED BY <2>1 DEF StackInv
<1> HIDE DEF new, n
<1>8. CoresNest'
  <2>1. n <= 3 /\ \A k \in 1..(n - 1) :
          /\ stack[k].offer # <<>>
          /\ stack[k].offer[1].core
               = <<stack[k + 1].base, stack[k + 1].current, stack[k + 1].replayed>>
    BY DEF NestInv, CoresNest, n
  <2>2. ASSUME NEW k \in 1..(n - 1)
        PROVE  /\ stack'[k].offer # <<>>
               /\ stack'[k].offer[1].core
                    = <<stack'[k + 1].base, stack'[k + 1].current, stack'[k + 1].replayed>>
    <3>1. stack'[k] = stack[k]
      BY <1>5
    <3>2. /\ stack'[k + 1].base = stack[k + 1].base
          /\ stack'[k + 1].current = stack[k + 1].current
          /\ stack'[k + 1].replayed = stack[k + 1].replayed
      <4>1. k + 1 = n \/ k + 1 \in 1..(n - 1)
        BY <1>3
      <4> QED BY <1>5, <1>6, <4>1
    <3> QED BY <2>1, <3>1, <3>2
  <2> QED BY <1>4, <2>1, <2>2 DEF CoresNest
<1>9. ASSUME NEW k \in 1..n, stack'[k].offer # <<>>
      PROVE  /\ NoneOrThree(stack'[k].offer[1].core)
             /\ stack'[k].offer[1].core = <<>> \/ k <= 2
  <2>1. CASE k = n
    BY <1>5, <1>6, <2>1 DEF n
  <2>2. CASE k # n
    <3>1. k \in 1..(n - 1)
      BY <1>3, <2>2
    <3>2. stack'[k] = stack[k]
      BY <1>5, <3>1
    <3> QED BY <1>9, <3>2 DEF NestInv, n
  <2> QED BY <2>1, <2>2
<1>10. Top' = new
  <2>1. Top' = stack'[Len(stack')]
    BY DEF Top, Last
  <2> QED BY <1>4, <1>5, <2>1
<1> QED BY <1>4, <1>6, <1>7, <1>8, <1>9, <1>10 DEF NestInv

LEMMA CoreNests ==
  ASSUME NestInv, stack # <<>>, pc' = "delete_side",
         Top.offer # <<>>, Top.offer[1].core # <<>>,
         NEW b, NEW c, NEW r, Top.offer[1].core = <<b, c, r>>,
         stack' = Append(stack, Unit(b, c, r))
  PROVE  NestInv'
<1> DEFINE n == Len(stack)
           u == Unit(b, c, r)
<1>1. Stacked
  BY DEF NestInv, StackInv
<1>2. /\ n \in Nat /\ n \in 1..n /\ Top = stack[n]
  BY <1>1, HeightIs DEF Top, Last
<1>3. n <= 2
  BY <1>2 DEF NestInv
<1>4. /\ Len(stack') = n + 1 /\ stack'[n + 1] = u
      /\ \A k \in 1..n : stack'[k] = stack[k]
  <2>1. PICK S : stack \in Seq(S)
    BY <1>1 DEF Stacked
  <2> QED BY <2>1
<1>5. u.offer = <<>> /\ u.base = b /\ u.current = c /\ u.replayed = r
  BY DEF Unit
<1>6. StackInv'
  <2>1. IsUnit(u)
    BY DEF Unit, IsUnit
  <2>2. Stacked' /\ stack' # <<>>
    BY <1>1, <2>1, OneMoreUnit
  <2> QED BY <2>2 DEF StackInv
<1> HIDE DEF n, u
<1>7. CoresNest'
  <2>1. \A k \in 1..(n - 1) :
          /\ stack[k].offer # <<>>
          /\ stack[k].offer[1].core
               = <<stack[k + 1].base, stack[k + 1].current, stack[k + 1].replayed>>
    BY DEF NestInv, CoresNest, n
  <2>2. ASSUME NEW k \in 1..n
        PROVE  /\ stack'[k].offer # <<>>
               /\ stack'[k].offer[1].core
                    = <<stack'[k + 1].base, stack'[k + 1].current, stack'[k + 1].replayed>>
    <3>1. stack'[k] = stack[k]
      BY <1>4
    <3>2. CASE k = n
      BY <1>2, <1>4, <1>5, <3>1, <3>2
    <3>3. CASE k # n
      <4>1. k \in 1..(n - 1) /\ k + 1 \in 1..n
        BY <1>2, <3>3
      <4> QED BY <1>4, <2>1, <3>1, <4>1
    <3> QED BY <3>2, <3>3
  <2>3. Len(stack') <= 3 /\ Len(stack') - 1 = n
    BY <1>2, <1>3, <1>4
  <2> QED BY <2>2, <2>3 DEF CoresNest
<1>8. ASSUME NEW k \in 1..(n + 1), stack'[k].offer # <<>>
      PROVE  /\ NoneOrThree(stack'[k].offer[1].core)
             /\ stack'[k].offer[1].core = <<>> \/ k <= 2
  <2>1. k # n + 1
    BY <1>4, <1>5, <1>8
  <2>2. k \in 1..n /\ stack'[k] = stack[k]
    BY <1>2, <1>4, <2>1
  <2> QED BY <1>8, <2>2 DEF NestInv, n
<1> QED BY <1>4, <1>6, <1>7, <1>8 DEF NestInv

LEMMA OneCoreLess ==
  ASSUME NestInv, stack # <<>>, Depth # 0, stack' = Front(stack), pc' # "verify"
  PROVE  NestInv'
<1> DEFINE n == Len(stack)
<1>1. Stacked
  BY DEF NestInv, StackInv
<1>2. n \in Nat /\ n >= 1
  BY <1>1, HeightIs
<1>3. Stacked' /\ stack' # <<>>
  BY <1>1, OneUnitLess
<1>4. Len(stack') = n - 1 /\ \A k \in 1..(n - 1) : stack'[k] = stack[k]
  <2>1. PICK S : stack \in Seq(S)
    BY <1>1 DEF Stacked
  <2>2. stack' = SubSeq(stack, 1, n - 1) /\ \A i \in 1..(n - 1) : stack[i] \in S
    BY <2>1 DEF Front
  <2> HIDE DEF n
  <2>3. /\ Len(stack') = IF 1 <= n - 1 THEN n - 1 - 1 + 1 ELSE 0
        /\ \A k \in 1..(n - 1 - 1 + 1) : stack'[k] = stack[1 + k - 1]
    BY <1>2, <2>2, SubSeqProperties
  <2>4. \A k \in 1..(n - 1) : 1 + k - 1 = k /\ k \in 1..(n - 1 - 1 + 1)
    BY <1>2
  <2>5. Len(stack') = n - 1
    BY <1>2, <2>3
  <2> QED BY <2>3, <2>4, <2>5
<1>5. CoresNest'
  <2>1. n <= 3 /\ \A k \in 1..(n - 1) :
          /\ stack[k].offer # <<>>
          /\ stack[k].offer[1].core
               = <<stack[k + 1].base, stack[k + 1].current, stack[k + 1].replayed>>
    BY DEF NestInv, CoresNest
  <2> HIDE DEF n
  <2>2. ASSUME NEW k \in 1..(n - 1 - 1)
        PROVE  /\ stack'[k].offer # <<>>
               /\ stack'[k].offer[1].core
                    = <<stack'[k + 1].base, stack'[k + 1].current, stack'[k + 1].replayed>>
    <3>1. k \in 1..(n - 1) /\ k + 1 \in 1..(n - 1)
      BY <1>2
    <3> QED BY <1>4, <2>1, <3>1
  <2> QED BY <1>2, <1>4, <2>1, <2>2 DEF CoresNest
<1>6. ASSUME NEW k \in 1..(n - 1), stack'[k].offer # <<>>
      PROVE  /\ NoneOrThree(stack'[k].offer[1].core)
             /\ stack'[k].offer[1].core = <<>> \/ k <= 2
  <2>1. k \in 1..n /\ stack'[k] = stack[k]
    BY <1>2, <1>4
  <2> QED BY <1>6, <2>1 DEF NestInv
<1> HIDE DEF n
<1> QED BY <1>3, <1>4, <1>5, <1>6 DEF NestInv, StackInv

\* A rule that settles the whole conflict leaves no core; the two that may leave one are
\* asked only where fewer than two are open.
LEMMA RuleNests ==
  ASSUME NestInv, NEW rule, rule \notin {"parse", "escalated"},
         NEW offers, NEW nextRule, nextRule # "verify", Try(rule, offers, nextRule),
         \A o \in offers : NoneOrThree(o.core) /\ (o.core = <<>> \/ Len(stack) <= 2)
  PROVE  NestInv'
<1>1. stack # <<>>
  BY DEF NestInv, StackInv, Try
<1>2. CASE offers = {}
  BY <1>1, <1>2, SameStack DEF Try
<1>3. CASE offers # {}
  <2>1. PICK o \in offers : Put(rule, o)
    BY <1>3 DEF Try
  <2> QED BY <1>1, <2>1, OfferNests
<1> QED BY <1>2, <1>3

LEMMA WholeHasNoCore ==
  /\ \A t : Whole(t).core = <<>>
  /\ \A texts : \A o \in Wholes(texts) : o.core = <<>>
  BY DEF Wholes, Whole

LEMMA ThreeTexts ==
  ASSUME NEW b, NEW c, NEW r
  PROVE  NoneOrThree(<<b, c, r>>)
  BY DEF NoneOrThree

LEMMA PartialCore ==
  ASSUME NEW u, NEW o \in PartialDisjointMerge(u)
  PROVE  NoneOrThree(o.core)
<1>1. \E pre, core, post, settled : o \in Assembled(pre, core, post, settled)
  BY DEF PartialDisjointMerge
<1>2. PICK pre, core, post, settled : o \in Assembled(pre, core, post, settled)
  BY <1>1
<1>3. \/ \E t : o = Whole(t)
      \/ o.core = <<core.base, core.current, core.replayed>>
  <2>1. CASE settled # {}
    BY <1>2, <2>1 DEF Assembled
  <2>2. CASE settled = {} /\ IsEmpty(core.current) /\ IsEmpty(core.replayed)
    <3>1. o = Whole(JoinParts(<<pre, post>>))
      BY <1>2, <2>2 DEF Assembled
    <3> QED BY <3>1
  <2>3. CASE settled = {} /\ ~ (IsEmpty(core.current) /\ IsEmpty(core.replayed))
    <3>1. o = [text |-> JoinParts(<<pre, core.current, post>>),
               core |-> <<core.base, core.current, core.replayed>>,
               at   |-> IF pre = <<Blank>> THEN 0 ELSE Len(pre)]
      BY <1>2, <2>3 DEF Assembled
    <3> QED BY <3>1
  <2> QED BY <2>1, <2>2, <2>3
<1> QED BY <1>3, WholeHasNoCore, ThreeTexts DEF NoneOrThree

LEMMA MiniCore ==
  ASSUME NEW u, NEW o \in MiniConflict(u)
  PROVE  NoneOrThree(o.core)
<1>1. o \in InPlace(u) \/ \E both : o \in Shrink(u, both)
  BY DEF MiniConflict
<1>2. CASE o \in InPlace(u)
  <2>1. \E t : o = Whole(t)
    BY <1>2 DEF InPlace
  <2> QED BY <2>1, WholeHasNoCore DEF NoneOrThree
<1>3. ASSUME NEW both, o \in Shrink(u, both) PROVE NoneOrThree(o.core)
  <2>1. (\E t : o = Whole(t)) \/ \E b, c, r : o.core = <<b, c, r>>
    BY <1>3 DEF Shrink
  <2> QED BY <2>1, WholeHasNoCore, ThreeTexts DEF NoneOrThree
<1> QED BY <1>1, <1>2, <1>3

\* At most two cores are open at a time, and what a core's unit stands for is what the offer
\* under it left open (the depth guard of _resolve_deferred_core and of the two rules that
\* defer), so that an answer is never put into a text it was not cut out of.
THEOREM CoresInCores == Spec => []CoresNest
<1>1. Init => NestInv
  <2>1. <<>> \in Seq({}) /\ Len(<<>>) = 0
    OBVIOUS
  <2> QED BY <2>1 DEF Init, NestInv, CoresNest, StackInv, Stacked
<1>2. NestInv /\ [Next]_vars => NestInv'
  <2> SUFFICES ASSUME NestInv, [Next]_vars PROVE NestInv'
    OBVIOUS
  <2>0. Stacked /\ Len(stack) \in Nat
    BY HeightIs DEF NestInv, StackInv
  <2>1. CASE Parse
    <3>1. CASE ParseBlocks(file) = {}
      <4>1. UNCHANGED stack /\ pc' = "escalated"
        BY <2>1, <3>1 DEF Parse
      <4> QED BY <4>1, SameStack
    <3>2. CASE ParseBlocks(file) # {}
      <4> DEFINE u == Unit(blocks'[1].base, blocks'[1].current, blocks'[1].replayed)
      <4>1. stack' = <<u>> /\ pc' = "delete_side"
        BY <2>1, <3>2 DEF Parse
      <4>2. IsUnit(u) /\ u.offer = <<>>
        BY DEF Unit, IsUnit
      <4> HIDE DEF u
      <4>3. stack' \in Seq({u}) /\ stack' # <<>> /\ Len(stack') = 1 /\ stack'[1] = u
        BY <4>1
      <4>4. StackInv'
        BY <4>2, <4>3 DEF StackInv, Stacked
      <4>5. CoresNest'
        BY <4>3 DEF CoresNest
      <4> QED BY <4>1, <4>2, <4>3, <4>4, <4>5 DEF NestInv
    <3> QED BY <3>1, <3>2
  <2>2. CASE \/ DeleteSide \/ IdenticalSide \/ OneSide \/ DisjointEdits \/ Zealous
             \/ UnionOfInserts \/ Convergent
    <3>1. PICK rule \in {"delete_side", "identical_sides", "one_sided_change",
                          "disjoint_edits", "zealous_merge", "insertion_union",
                          "convergent_addition"} :
            \E offers : \E nextRule \in {"identical_sides", "one_sided_change",
                          "disjoint_edits", "zealous_merge", "insertion_union",
                          "convergent_addition", "partial_disjoint"} :
              /\ Try(rule, offers, nextRule)
              /\ \E texts : offers \in {{}, Wholes(texts)}
      BY <2>2 DEF DeleteSide, IdenticalSide, OneSide, DisjointEdits, Zealous,
                  UnionOfInserts, Convergent
    <3>2. PICK offers : \E nextRule \in {"identical_sides", "one_sided_change",
                          "disjoint_edits", "zealous_merge", "insertion_union",
                          "convergent_addition", "partial_disjoint"} :
              /\ Try(rule, offers, nextRule)
              /\ \E texts : offers \in {{}, Wholes(texts)}
      BY <3>1
    <3>3. \A o \in offers : o.core = <<>>
      BY <3>2, WholeHasNoCore
    <3> QED BY <3>2, <3>3, RuleNests DEF NoneOrThree
  <2>3. CASE Partial \/ Mini
    <3>1. PICK rule \in {"partial_disjoint", "mini_conflict"} :
            \E offers : \E nextRule \in {"mini_conflict", "outside"} :
              /\ Try(rule, offers, nextRule) /\ (offers = {} \/ Depth < 2)
              /\ offers \in {{}, PartialDisjointMerge(Top), MiniConflict(Top)}
      BY <2>3 DEF Partial, Mini
    <3>2. PICK offers : \E nextRule \in {"mini_conflict", "outside"} :
              /\ Try(rule, offers, nextRule) /\ (offers = {} \/ Depth < 2)
              /\ offers \in {{}, PartialDisjointMerge(Top), MiniConflict(Top)}
      BY <3>1
    <3>3. \A o \in offers : NoneOrThree(o.core) /\ Len(stack) <= 2
      <4>1. \A o \in offers : NoneOrThree(o.core)
        BY <3>2, PartialCore, MiniCore
      <4>2. \A o \in offers : Len(stack) <= 2
        BY <2>0, <3>2 DEF Depth
      <4> QED BY <4>1, <4>2
    <3> QED BY <3>2, <3>3, RuleNests
  <2>4. CASE Verify
    <3> DEFINE core == Top.offer[1].core
    <3>1. stack # <<>> /\ Top.offer # <<>>
      BY <2>4 DEF Verify, NestInv, StackInv
    <3>2. \/ UNCHANGED stack /\ pc' \in {"outside", "return"}
          \/ /\ core # <<>> /\ pc' = "delete_side"
             /\ stack' = Append(stack, Unit(core[1], core[2], core[3]))
      BY <2>4 DEF Verify, Reject
    <3>3. CASE UNCHANGED stack /\ pc' \in {"outside", "return"}
      BY <3>1, <3>3, SameStack
    <3>4. CASE /\ core # <<>> /\ pc' = "delete_side"
               /\ stack' = Append(stack, Unit(core[1], core[2], core[3]))
      <4>1. core = <<core[1], core[2], core[3]>>
        <5>1. Len(stack) \in 1..Len(stack) /\ Top = stack[Len(stack)]
          BY <2>0, <3>1, HeightIs DEF Top, Last
        <5>2. NoneOrThree(core)
          BY <3>1, <5>1 DEF NestInv
        <5> HIDE DEF core
        <5> QED BY <3>4, <5>2 DEF NoneOrThree
      <4> QED BY <3>1, <3>4, <4>1, CoreNests
    <3> QED BY <3>2, <3>3, <3>4
  <2>5. CASE Outside
    BY <2>5, SameStack DEF Outside, NestInv, StackInv
  <2>6. CASE GiveUp
    <3>1. stack # <<>>
      BY <2>6 DEF GiveUp, NestInv, StackInv
    <3>2. CASE Depth = 0
      BY <2>6, <3>2, SameStack DEF GiveUp
    <3>3. CASE Depth # 0
      BY <2>6, <3>1, <3>3, OneCoreLess DEF GiveUp
    <3> QED BY <3>2, <3>3
  <2>7. CASE ReturnCore
    <3>1. stack # <<>>
      BY <2>7 DEF ReturnCore, NestInv, StackInv
    <3>2. Depth # 0
      <4>1. Depth > 0
        BY <2>7 DEF ReturnCore
      <4> HIDE DEF Depth
      <4> QED BY <4>1
    <3>3. stack' = Front(stack) /\ pc' \in {"outside", "return"}
      BY <2>7 DEF ReturnCore
    <3> QED BY <3>1, <3>2, <3>3, OneCoreLess
  <2>8. CASE Splice
    <3>1. pc = "return" /\ UNCHANGED stack /\ pc' \in {"done", "escalated"}
      BY <2>8 DEF Splice
    <3> QED BY <3>1, SameStack DEF NestInv, StackInv
  <2>9. CASE OtherRule
    <3>1. stack # <<>>
      BY <2>9 DEF OtherRule, NestInv, StackInv
    <3>2. PICK t \in Answers(Top) : Put("other", Whole(t))
      BY <2>9 DEF OtherRule
    <3>3. Whole(t).core = <<>>
      BY WholeHasNoCore
    <3> QED BY <3>1, <3>2, <3>3, OfferNests DEF NoneOrThree
  <2>10. CASE UNCHANGED vars
    <3>1. UNCHANGED <<stack, pc>>
      BY <2>10 DEF vars
    <3> QED BY <3>1 DEF NestInv, CoresNest, StackInv, Stacked, Top
  <2> QED BY <2>1, <2>2, <2>3, <2>4, <2>5, <2>6, <2>7, <2>8, <2>9, <2>10 DEF Next
<1>3. NestInv => CoresNest
  BY DEF NestInv
<1> QED BY <1>1, <1>2, <1>3, PTL DEF Spec
=============================================================================
