------------------------------ MODULE LineDiff ------------------------------
(***************************************************************************)
(* The line matcher every textual merge rule of capybase stands on         *)
(* (src/capybase/diff.py, with its C twin src/capybase/_cdiff.c): the      *)
(* common lines of two texts, found as a longest run of candidate pairs    *)
(* that increases on both sides, and the edit script read off it.          *)
(*                                                                         *)
(* A list of lines is a sequence, a match a pair of positions, and a step  *)
(* of the script a record [tag, i1, i2, j1, j2] that pairs the lines       *)
(* i1+1 .. i2 of the first list with the lines j1+1 .. j2 of the second,   *)
(* so i1 = i2 marks a place between two lines.                             *)
(***************************************************************************)
EXTENDS Naturals, Sequences, FiniteSets, SequencesExt

-----------------------------------------------------------------------------
(* The candidates: every pair of equal lines, first list upwards and, for  *)
(* one line of it, second list downwards, so that a later candidate of the *)
(* same line replaces the earlier one instead of following it.             *)
Candidates_Upwards(a, b) ==
  LET Of(i)    == SelectSeq([k \in DOMAIN b |-> k], LAMBDA j : b[j] = a[i])
      Pairs(i) == LET js == Of(i) IN [k \in DOMAIN js |-> <<i, js[k]>>]
  IN  FlattenSeq([i \in DOMAIN a |-> Pairs(i)])
Candidates(a, b) ==
  LET downwards == [k \in DOMAIN b |-> Len(b) + 1 - k]
      Of(i)     == SelectSeq(downwards, LAMBDA j : b[j] = a[i])
      Pairs(i)  == LET js == Of(i) IN [k \in DOMAIN js |-> <<i, js[k]>>]
  IN  FlattenSeq([i \in DOMAIN a |-> Pairs(i)])

(* Patience sorting: a candidate goes on the leftmost pile whose top is    *)
(* not below it and remembers the top of the pile to its left; the chain   *)
(* that leads back from the last pile is a longest increasing run.         *)
Patience(cands) ==
  LET Deal(s, k) ==
        LET below == Cardinality({p \in DOMAIN s.piles :
                                    cands[s.piles[p]][2] < cands[k][2]})
            grown == IF below = Len(s.piles) THEN Append(s.piles, k)
                                             ELSE s.piles
        IN  [piles |-> [grown EXCEPT ![below + 1] = k],
             pred  |-> Append(s.pred, IF below = 0 THEN 0 ELSE s.piles[below])]
      dealt == FoldLeft(Deal, [piles |-> <<>>, pred |-> <<>>],
                        [k \in DOMAIN cands |-> k])
      Chain[k \in 0..Len(cands)] ==
        IF k = 0 THEN <<>> ELSE Append(Chain[dealt.pred[k]], cands[k])
  IN  IF cands = <<>> THEN <<>> ELSE Chain[Last(dealt.piles)]

(* The matches, the gaps between them searched again: between the last     *)
(* match (or the start) and the next, and after the last one. A gap is a   *)
(* pair of lists of its own, a[alo .. ahi) and b[blo .. bhi), and what is  *)
(* found in it is counted from its start.                                  *)
Matching(a, b) ==
  LET Found[alo, ahi \in 0..Len(a), blo, bhi \in 0..Len(b)] ==
        LET Shifted(m, p) == [n \in DOMAIN m |-> <<p[1] + m[n][1], p[2] + m[n][2]>>]
            Between(p, q) == Shifted(Found[alo + p[1], alo + q[1] - 1,
                                           blo + p[2], blo + q[2] - 1], p)
            Step(s, q) == [at |-> q, found |-> s.found \o Between(s.at, q) \o <<q>>]
            Refined(anchors) ==
              Front(FoldLeft(Step, [at |-> <<0, 0>>, found |-> <<>>],
                       Append(anchors, <<ahi - alo + 1, bhi - blo + 1>>)).found)
            OfAnchors(anchors) == IF anchors = <<>> THEN <<>> ELSE Refined(anchors)
        IN  OfAnchors(Patience(Candidates(SubSeq(a, alo + 1, ahi),
                                          SubSeq(b, blo + 1, bhi))))
  IN  Found[0, Len(a), 0, Len(b)]

(* The C twin works on one pair of lists and a window of each. It leaves   *)
(* the lines after the last match alone, and hands a gap's window down     *)
(* counted from its own window together with its own offset.               *)
WindowMatching(a, b) ==
  LET Found[alo, ahi \in 0..Len(a), blo, bhi \in 0..Len(b), offa, offb \in Nat] ==
        LET Between(p, q) ==
              IF q[1] - 1 > p[1] /\ q[2] - 1 > p[2]
              THEN Found[p[1], q[1] - 1, p[2], q[2] - 1, alo + offa, blo + offb]
              ELSE <<>>
            Step(s, q) ==
              [at    |-> q,
               found |-> s.found \o Between(s.at, q)
                         \o <<<<q[1] + alo + offa, q[2] + blo + offb>>>>]
        IN  FoldLeft(Step, [at |-> <<0, 0>>, found |-> <<>>],
                     Patience(Candidates(SubSeq(a, alo + 1, ahi),
                                         SubSeq(b, blo + 1, bhi)))).found
  IN  Found

MatchingInC(a, b) == WindowMatching(a, b)[0, Len(a), 0, Len(b), 0, 0]

-----------------------------------------------------------------------------
(* The script: each run of adjacent matches is one "equal" step, and what  *)
(* lies between two runs a replace, a delete or an insert.                 *)
Gap(i1, i2, j1, j2) ==
  [tag |-> IF i1 = i2 THEN "insert"
           ELSE IF j1 = j2 THEN "delete" ELSE "replace",
   i1 |-> i1, i2 |-> i2, j1 |-> j1, j2 |-> j2]

RunLength(m, k) ==
  CHOOSE n \in 1..(Len(m) - k + 1) :
    /\ \A d \in 0..(n - 1) : m[k + d] = <<m[k][1] + d, m[k][2] + d>>
    /\ \/ k + n > Len(m)
       \/ m[k + n] # <<m[k][1] + n, m[k][2] + n>>

Script(a, b, m) ==
  LET Upto(i, j, p, q) == IF p > i \/ q > j THEN <<Gap(i, p, j, q)>> ELSE <<>>
      Equal(i, j, n) == [tag |-> "equal", i1 |-> i, i2 |-> i + n,
                         j1 |-> j, j2 |-> j + n]
      From[k \in 1..(Len(m) + 1), i \in 0..Len(a), j \in 0..Len(b)] ==
        LET Run(p, q, n) == Upto(i, j, p, q) \o <<Equal(p, q, n)>>
                            \o From[k + n, p + n, q + n]
        IN  IF k > Len(m) THEN Upto(i, j, Len(a), Len(b))
            ELSE Run(m[k][1] - 1, m[k][2] - 1, RunLength(m, k))
  IN  From[1, 0, 0]

Opcodes(a, b) == Script(a, b, Matching(a, b))

(* The changes of b against a: every step but the equal ones.              *)
Changes(a, b) == {op \in ToSet(Opcodes(a, b)) : op.tag # "equal"}

-----------------------------------------------------------------------------
(* Reference definitions, not code: what the matcher promises.             *)

(* The length of a longest common subsequence, by its textbook recurrence. *)
LcsLength(a, b) ==
  LET L[i \in 0..Len(a), j \in 0..Len(b)] ==
        IF i = 0 \/ j = 0 THEN 0
        ELSE IF a[i] = b[j] THEN L[i - 1, j - 1] + 1
        ELSE IF L[i - 1, j] > L[i, j - 1] THEN L[i - 1, j] ELSE L[i, j - 1]
  IN  L[Len(a), Len(b)]

IsCommon(a, b, m) ==
  /\ \A k \in DOMAIN m : a[m[k][1]] = b[m[k][2]]
  /\ \A k \in 1..(Len(m) - 1) : m[k][1] < m[k + 1][1] /\ m[k][2] < m[k + 1][2]

(* A script that reads both lists from end to end and whose equal steps    *)
(* are equal: replaying it on a gives b.                                   *)
Replays(a, b, ops) ==
  /\ b = FlattenSeq([k \in DOMAIN ops |->
           IF ops[k].tag = "equal" THEN SubSeq(a, ops[k].i1 + 1, ops[k].i2)
                                   ELSE SubSeq(b, ops[k].j1 + 1, ops[k].j2)])
  /\ a = FlattenSeq([k \in DOMAIN ops |->
           SubSeq(a, ops[k].i1 + 1, ops[k].i2)])
=============================================================================
