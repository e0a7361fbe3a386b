-------------------------- MODULE StructuralMerge --------------------------
(***************************************************************************)
(* The deterministic merge of one conflict block                           *)
(* (src/capybase/structural_resolver.py, resolve_structurally, with        *)
(* _try_structural_resolve and _resolve_deferred_core of orchestrator.py): *)
(* the textual rules in their order, the check of what a rule offers, the  *)
(* small conflict a rule may leave open, which is resolved as a unit of    *)
(* its own and put back into the text around it, and the file the texts    *)
(* are spliced into.                                                       *)
(*                                                                         *)
(* Lines are values: two lines the code holds equal up to horizontal space *)
(* are one value. Nine rules that go by whole lines are here. The others   *)
(* stand between them: the union of two grown prose texts, lint against    *)
(* refactoring, a block one side moved, lines inserted into a block the    *)
(* other side deleted, and those that read tokens, entities, brackets,     *)
(* lists, directives or numbers. Such a rule offers what may also be       *)
(* answered from outside, where the model is. An offer is a set: empty     *)
(* when the rule declines.                                                 *)
(***************************************************************************)
EXTENDS LineDiff, MarkerFile

CONSTANTS
  Lines,         \* the lines the two sides and the base are made of
  Noise,         \* lines of punctuation alone, which never count as shared
  Rivals,        \* pairs of lines that define one name in two ways
  SkipUnions,    \* the parent of this block has lost lines on one side
  Conflicts,     \* the conflicts git may write: [base, current, replayed]
  Seconds        \* what the second block of the file was resolved to

Text == Seq(Lines) \ {<<>>}

ASSUME MergeAssumption ==
  /\ SkipUnions \in BOOLEAN
  /\ Conflicts \subseteq [base : Text, current : Text, replayed : Text]
  /\ Seconds \subseteq Text

VARIABLES
  file,          \* the lines of the file in the worktree
  blocks,        \* its blocks, once it is parsed
  stack,         \* the units under work, the last one the innermost core
  pc,            \* the next rule, or what is done with its offer
  got            \* the text on its way out of a unit, or none

vars == <<file, blocks, stack, pc, got>>

-----------------------------------------------------------------------------
(* Texts and lists of lines. A text that ends in a newline ends in a Blank *)
(* line here; reading it line by line leaves that one out.                 *)
SplitLines(t) == IF Last(t) = Blank THEN Front(t) ELSE t
IsEmpty(t)    == \A k \in DOMAIN t : t[k] = Blank
LinesIn(t)    == {t[k] : k \in DOMAIN t} \ {Blank}
Count(t, l)   == Cardinality({k \in DOMAIN t : t[k] = l})
NonBlank(t)   == Cardinality({k \in DOMAIN t : t[k] # Blank})
Slice(s, i, j) == SubSeq(s, i + 1, j)

EndsInNewline(t) == Len(t) > 1 /\ Last(t) = Blank

RestoreNewline(t, u) ==
  IF /\ t # <<Blank>> /\ ~ EndsInNewline(t)
     /\ \A s \in {u.base, u.current, u.replayed} : EndsInNewline(s)
  THEN Append(t, Blank) ELSE t

Whole(t) == [text |-> t, core |-> <<>>, at |-> 0]

Unit(b, c, r) ==
  [base |-> b, current |-> c, replayed |-> r, rule |-> "none", offer |-> <<>>]

-----------------------------------------------------------------------------
(* What a side did, read off its script against the base.                  *)
Span(ops)       == UNION {op.i1 .. (op.i2 - 1) : op \in ops}
Deleted(ops)    == Span({op \in ops : op.tag = "delete"})
HasInsert_Never(ops) == FALSE
HasInsert(ops)  == \E op \in ops : op.tag = "insert"
Larger(m, n) == IF m < n THEN n ELSE m

ClassifySide(base, side) ==
  LET bl == SplitLines(base)
      sl == SplitLines(side)
      OfTags(tags) == IF tags = {"delete"} THEN "deleted"
                      ELSE IF tags = {"insert"} THEN "added" ELSE "modified"
  IN  CASE bl = sl -> "unchanged"
        [] bl # sl /\ NonBlank(bl) = 0 ->
             IF NonBlank(sl) > 0 THEN "added" ELSE "unchanged"
        [] bl # sl /\ NonBlank(bl) > 0 /\ NonBlank(sl) = 0 -> "deleted"
        [] OTHER -> OfTags({op.tag : op \in Changes(bl, sl)})

(* One side only took lines away, and the other left the base alone, or    *)
(* touched a line or two of a block of which five or more are gone.        *)
Altered(base, side) ==
  MapThenSumSet(LAMBDA op : Larger(op.i2 - op.i1, op.j2 - op.j1),
                Changes(SplitLines(base), SplitLines(side)))

AcceptDeletion(u) ==
  LET Gone(side) == Len(SplitLines(u.base)) - Len(SplitLines(side))
      Won(deleter, keeper, kind) ==
        \/ kind \in {"unchanged", "deleted"}
        \/ /\ kind = "modified"
           /\ Altered(u.base, keeper) <= 2
           /\ Gone(deleter) >= 5
      Offered(cur, rep) ==
        {t \in {u.current, u.replayed} :
           \/ /\ cur = "deleted" /\ rep # "deleted" /\ t = u.current
              /\ Won(u.current, u.replayed, rep)
           \/ /\ rep = "deleted" /\ cur # "deleted" /\ t = u.replayed
              /\ Won(u.replayed, u.current, cur)}
  IN  Offered(ClassifySide(u.base, u.current), ClassifySide(u.base, u.replayed))

IdenticalSides(u) ==
  IF u.current = u.replayed THEN {u.current} ELSE {}

OneSidedChange(u) ==
  {t \in {u.current, u.replayed} :
     \/ t = u.current  /\ u.replayed = u.base
     \/ t = u.replayed /\ u.current = u.base}

-----------------------------------------------------------------------------
(* Both sides changed lines, none of them the same one, and neither only   *)
(* inserted or deleted: the base with the changes of both.                 *)
Regions(ops, other) ==
  {[lo |-> op.i1, hi |-> op.i2, new |-> Slice(other, op.j1, op.j2)] :
     op \in {o \in ops : o.i1 < o.i2}}

Diffs(u) ==
  LET bl == SplitLines(u.base)
      cl == SplitLines(u.current)
      rl == SplitLines(u.replayed)
  IN  [bl |-> bl, cl |-> cl, rl |-> rl,
       cur |-> Changes(bl, cl), rep |-> Changes(bl, rl)]

Disjoint(d) ==
  /\ Span(d.cur) # {} /\ Span(d.rep) # {}
  /\ Span(d.cur) \intersect Span(d.rep) = {}
  /\ Deleted(d.cur) \subseteq Span(d.rep)
  /\ Deleted(d.rep) \subseteq Span(d.cur)
  /\ ~ HasInsert(d.cur) /\ ~ HasInsert(d.rep)

Rewritten(bl, regions) ==
  LET From[i \in 0..Len(bl)] ==
        IF i = Len(bl) THEN <<>>
        ELSE IF \E g \in regions : g.lo = i
        THEN LET g == CHOOSE h \in regions : h.lo = i
             IN  g.new \o From[g.hi]
        ELSE <<bl[i + 1]>> \o From[i + 1]
  IN  Join(From[0])

DisjointMerge(u) ==
  LET OfDiffs(d) ==
        IF Disjoint(d)
        THEN {RestoreNewline(Rewritten(d.bl, Regions(d.cur, d.cl)
                                            \union Regions(d.rep, d.rl)), u)}
        ELSE {}
  IN  OfDiffs(Diffs(u))

(* A region the walk jumps over is covered when the lines emitted for the  *)
(* wider one hold its replacement at its own offset, or, for a deletion,   *)
(* have run out before it.                                                 *)
Covered(wide, inner) ==
  LET offset == inner.lo - wide.lo
  IN  IF inner.new = <<>>
      THEN inner.hi <= wide.hi /\ offset >= Len(wide.new)
      ELSE /\ Len(wide.new) = wide.hi - wide.lo
           /\ offset + Len(inner.new) <= Len(wide.new)
           /\ Slice(wide.new, offset, offset + Len(inner.new)) = inner.new

(* A line one side deleted lies next to a line the other side changed.     *)
DeletesNextToChange_OneWay(cur, rep) ==
  \E i \in Deleted(cur) \ Deleted(rep) :
    i + 1 \in Span(rep) \/ (i > 0 /\ i - 1 \in Span(rep))
DeletesNextToChange(cur, rep) ==
  LET Adjacent(mine, theirs) ==
        \E i \in Deleted(mine) \ Deleted(theirs) :
          i + 1 \in Span(theirs) \/ (i > 0 /\ i - 1 \in Span(theirs))
  IN  Adjacent(cur, rep) \/ Adjacent(rep, cur)

(* Line by line: what one side alone changed is taken, what both changed   *)
(* must agree. The walk gives up at the first region that does not.        *)
Agreed(cur, rep) ==
  LET Starting(i, regions) == {h \in regions : h.lo = i}
      Inside(g, regions)   == {h \in regions : g.lo < h.lo /\ h.lo < g.hi}
      Alone(g, others) ==
        Starting(g.lo, others) = {} /\ \A h \in Inside(g, others) : Covered(g, h)
  IN  {g \in cur \union rep :
         Starting(g.lo, cur) = Starting(g.lo, rep) \/ Alone(g, cur) \/ Alone(g, rep)}

Walk(bl, regions, agreed) ==
  LET From[i \in 0..Len(bl)] ==
        IF i = Len(bl) THEN {<<>>}
        ELSE IF \A g \in regions : g.lo # i
        THEN {<<bl[i + 1]>> \o t : t \in From[i + 1]}
        ELSE UNION {{g.new \o t : t \in From[g.hi]} :
                      g \in {h \in agreed : h.lo = i}}
  IN  From[0]

ZealousMerge(u) ==
  LET OfDiffs(d) ==
        IF \/ HasInsert(d.cur) \/ HasInsert(d.rep)
           \/ Span(d.cur) = {} \/ Span(d.rep) = {}
           \/ Len(d.cl) # Len(d.rl) /\ DeletesNextToChange(d.cur, d.rep)
        THEN {}
        ELSE LET cur == Regions(d.cur, d.cl)
                 rep == Regions(d.rep, d.rl)
             IN  Walk(d.bl, cur \union rep, Agreed(cur, rep))
  IN  {RestoreNewline(Join(t), u) : t \in OfDiffs(Diffs(u))}

-----------------------------------------------------------------------------
(* Both sides only inserted lines: what each inserted before each line of  *)
(* the base, and after the last.                                           *)
OnlyInserts(base, side) ==
  \A op \in Changes(base, side) : op.tag = "insert"

Insertions(base, side) ==
  [i \in 0..Len(base) |->
     LET runs == {Slice(side, op.j1, op.j2) :
                    op \in {o \in Changes(base, side) : o.i1 = i}}
     IN  IF runs = {} THEN <<>> ELSE CHOOSE run \in runs : TRUE]

InsertedLines(ins) == UNION {LinesIn(ins[i]) : i \in DOMAIN ins}

(* The base with both insertions at each place, current's before the       *)
(* replayed one's. Declines when the two share a line that means something,*)
(* or a line would occur more often than in any of the three texts.        *)
InsertionUnion(u) ==
  LET Both(cur, rep) ==
        FlattenSeq([i \in DOMAIN u.base |->
                      cur[i - 1] \o rep[i - 1] \o <<u.base[i]>>])
        \o cur[Len(u.base)] \o rep[Len(u.base)]
      Explodes(t) ==
        \E l \in LinesIn(t) \ Noise :
          \A s \in {u.base, u.current, u.replayed} : Count(s, l) < Count(t, l)
      OfInsertions(cur, rep) ==
        IF (InsertedLines(cur) \intersect InsertedLines(rep)) \ Noise # {}
        THEN {} ELSE {t \in {Both(cur, rep)} : ~ Explodes(t)}
  IN  IF OnlyInserts(u.base, u.current) /\ OnlyInserts(u.base, u.replayed)
      THEN OfInsertions(Insertions(u.base, u.current),
                        Insertions(u.base, u.replayed))
      ELSE {}

(* Both sides inserted much the same: at least half of the smaller one's   *)
(* lines are shared. A shared line is written once, where it first comes.  *)
ConvergentAddition(u) ==
  LET \* the union of all insertions, each line marked as inserted or not
      Marked(lines, new) == [k \in DOMAIN lines |-> [line |-> lines[k], new |-> new]]
      All(cur, rep) ==
        FlattenSeq([i \in DOMAIN u.base |->
                      Marked(cur[i - 1] \o rep[i - 1], TRUE)
                      \o Marked(<<u.base[i]>>, FALSE)])
        \o Marked(cur[Len(u.base)] \o rep[Len(u.base)], TRUE)
      Once(all, shared) ==
        SelectSeq([k \in DOMAIN all |-> k], LAMBDA k :
          all[k].new /\ all[k].line \in shared =>
            \A n \in 1..(k - 1) : ~ (all[n].new /\ all[n].line = all[k].line))
      Written(all, kept) == [n \in DOMAIN kept |-> all[kept[n]].line]
      Converge(cl, rl) ==
        /\ cl # {} /\ rl # {}
        /\ \/ 2 * Cardinality(cl \intersect rl) >= Cardinality(cl)
           \/ 2 * Cardinality(cl \intersect rl) >= Cardinality(rl)
        /\ \A x \in cl, y \in rl : {x, y} \notin Rivals
      OfInsertions(cur, rep) ==
        IF Converge(InsertedLines(cur), InsertedLines(rep))
        THEN {Written(all, Once(all, InsertedLines(cur) \intersect InsertedLines(rep)))
                : all \in {All(cur, rep)}}
        ELSE {}
  IN  IF OnlyInserts(u.base, u.current) /\ OnlyInserts(u.base, u.replayed)
      THEN OfInsertions(Insertions(u.base, u.current),
                        Insertions(u.base, u.replayed))
      ELSE {}

-----------------------------------------------------------------------------
(* A few adjacent lines both sides changed, with tails around them that    *)
(* are merged at once: the lines of a side that belong to the base lines   *)
(* lo .. hi-1. A change reaching over the border makes the rule decline.   *)
ZoneText(base, side, lo, hi) ==
  LET From(op) == Larger(op.i1, lo)
      To(op)   == IF op.i2 < hi THEN op.i2 ELSE hi
      Taken(op) ==
        IF op.tag = "equal"
        THEN Slice(side, op.j1 + From(op) - op.i1, op.j1 + Larger(To(op), op.i1) - op.i1)
        ELSE IF op.i1 < hi /\ op.i2 > lo THEN Slice(side, op.j1, op.j2) ELSE <<>>
      OfOpcodes(ops) == FlattenSeq([k \in DOMAIN ops |-> Taken(ops[k])])
  IN  Join(OfOpcodes(Opcodes(base, side)))

Straddles(ops, lo, hi) ==
  \E op \in ops :
    /\ op.tag \in {"replace", "insert"}
    /\ op.i1 < hi /\ op.i2 > lo
    /\ op.i1 < lo \/ op.i2 > hi

Zone(u, lo, hi) ==
  Unit(Join(Slice(u.base, lo, hi)), ZoneText(u.base, u.current, lo, hi),
                                    ZoneText(u.base, u.replayed, lo, hi))

(* A tail is the side's that changed it; when both did, their disjoint     *)
(* merge, and current's when they have none.                               *)
ResolveTail(z) ==
  LET OrCurrent(merged) ==
        IF merged = {} THEN z.current ELSE CHOOSE t \in merged : TRUE
  IN  IF z.current = z.base THEN z.replayed
      ELSE IF z.replayed = z.base THEN z.current
      ELSE OrCurrent(DisjointMerge(z))

(* The core when it needs no model: what one side left alone is the        *)
(* other's, what both changed alike is theirs.                             *)
SettledCore(z) ==
  IF z.current = z.base THEN {z.replayed}
  ELSE IF z.replayed \in {z.base, z.current} THEN {z.current}
  ELSE ZealousMerge(z)

(* Parts of no characters are left out when the zones are joined.          *)
JoinParts(parts) ==
  Join(FlattenSeq(SelectSeq(parts, LAMBDA t : t # <<Blank>>)))

Assembled(pre, core, post, settled) ==
  IF settled # {} THEN {Whole(JoinParts(<<pre, t, post>>)) : t \in settled}
  ELSE IF IsEmpty(pre) /\ IsEmpty(post) THEN {}
  ELSE IF IsEmpty(core.current) /\ IsEmpty(core.replayed)
  THEN {Whole(JoinParts(<<pre, post>>))}
  ELSE {[text |-> JoinParts(<<pre, core.current, post>>),
         core |-> <<core.base, core.current, core.replayed>>,
         at   |-> IF pre = <<Blank>> THEN 0 ELSE Len(pre)]}

PartialDisjointMerge(u) ==
  LET n == Len(u.base)
      Around(lo, hi, core) ==
        Assembled(ResolveTail(Zone(u, 0, lo)), core, ResolveTail(Zone(u, hi, n)),
                  SettledCore(core))
      OfOverlap(overlap, ops) ==
        LET Adjoining(lo) ==
              {hi \in {k + 1 : k \in overlap} :
                 /\ lo..(hi - 1) = overlap
                 /\ ~ Straddles(ops, 0, lo) /\ ~ Straddles(ops, lo, hi)
                 /\ ~ Straddles(ops, hi, n)}
        IN  UNION {UNION {Around(lo, hi, Zone(u, lo, hi)) : hi \in Adjoining(lo)}
                   : lo \in overlap}
      OfChanges(cur, rep) ==
        IF Cardinality(Span(cur) \intersect Span(rep)) \in 1..5
        THEN OfOverlap(Span(cur) \intersect Span(rep), cur \union rep) ELSE {}
  IN  OfChanges(Changes(u.base, u.current), Changes(u.base, u.replayed))

-----------------------------------------------------------------------------
(* What is left of a conflict of ten lines or more. Without a line both    *)
(* sides changed, the changes of both are applied in place; a line only    *)
(* one side deleted, or a run replaced by another number of lines, makes   *)
(* the rule decline. (A disjoint merge, tried first here, was taken by its *)
(* own rule long before.)                                                  *)
HalfIn(t, added) ==
  2 * Cardinality(added \intersect t) >= Cardinality(added)

Coverage(t, base, side) == HalfIn(t, LinesIn(side) \ LinesIn(base))

InPlace(u) ==
  LET Inserted(ops, side, i) ==
        FlattenSeq(SetToSeq({Slice(side, op.j1, op.j2) :
                     op \in {o \in ops : o.tag = "insert" /\ o.i1 = i}}))
      Before(d, i) == Inserted(d.cur, d.cl, i) \o Inserted(d.rep, d.rl, i)
      Replaced(ops, side, i) ==
        {side[op.j1 + (i - op.i1) + 1] :
           op \in {o \in ops : o.i1 <= i /\ i < o.i2}}
      OrBase(new, line) == IF new = {} THEN line ELSE CHOOSE l \in new : TRUE
      LineNow(d, i) == OrBase(Replaced(d.cur, d.cl, i)
                                \union Replaced(d.rep, d.rl, i), d.bl[i + 1])
      Merged(d) == Join(FlattenSeq([k \in DOMAIN d.bl |->
                          Append(Before(d, k - 1), LineNow(d, k - 1))])
                        \o Before(d, Len(d.bl)))
      InStep(op) == /\ op.tag # "delete"
                    /\ op.tag = "replace" => op.i2 - op.i1 = op.j2 - op.j1
      Covers(t) == /\ Coverage(LinesIn(t), u.base, u.current)
                   /\ Coverage(LinesIn(t), u.base, u.replayed)
      OfDiffs(d) == IF \A op \in d.cur \union d.rep : InStep(op)
                    THEN {t \in {Merged(d)} : Covers(t)} ELSE {}
  IN  {Whole(t) : t \in OfDiffs(Diffs(u))}

(* With such lines, each run of them goes into the core together with what *)
(* lies between two runs; the lines outside are decided by their number in *)
(* the base, current's line there if it is not the base's, else replayed's.*)
Smaller_Always(c, r, u) == TRUE
Smaller(c, r, u) ==
  NonBlank(c) + NonBlank(r) < NonBlank(u.current) + NonBlank(u.replayed)

Numbered(list, i) == IF i < Len(list) THEN list[i + 1] ELSE Blank

Shrink(u, both) ==
  LET bl == SplitLines(u.base)
      cl == SplitLines(u.current)
      rl == SplitLines(u.replayed)
      first == CHOOSE i \in both : \A j \in both : i <= j
      last  == CHOOSE i \in both : \A j \in both : j <= i
      Decided(i) == IF Numbered(cl, i) # bl[i + 1]
                    THEN Numbered(cl, i) ELSE Numbered(rl, i)
      RunEnd(i) == CHOOSE j \in both :
                     /\ i <= j /\ j + 1 \notin both /\ i..j \subseteq both
      Run(list, i, j) == IF j < Len(list) THEN Slice(list, i, j + 1)
                                          ELSE <<Blank>>
      CorePart(list, i) == IF i \notin both THEN <<Decided(i)>>
                           ELSE IF i = first \/ i - 1 \notin both
                           THEN Run(list, i, RunEnd(i)) ELSE <<>>
      Core(list) == FlattenSeq([k \in 1..(last - first + 1) |->
                                  CorePart(list, first + k - 1)])
      Full(core) == FlattenSeq([k \in DOMAIN bl |->
                      IF k - 1 = first THEN core
                      ELSE IF k - 1 \in both THEN <<>> ELSE <<Decided(k - 1)>>])
      tails == {Decided(i) : i \in (0..(Len(bl) - 1)) \ both}
      TailKept(side, core) ==
        HalfIn(tails, (LinesIn(side) \ LinesIn(u.base)) \ LinesIn(core))
      Left(full, core, other) ==
        IF IsEmpty(core) /\ IsEmpty(other) THEN {Whole(full)}
        ELSE IF Smaller(core, other, u)
        THEN {[text |-> full, core |-> <<Core(bl), core, other>>, at |-> first]}
        ELSE {}
      OfCores(core, other) ==
        IF /\ Cardinality(both) < Len(bl)
           /\ TailKept(u.current, core) /\ TailKept(u.replayed, other)
        THEN Left(Full(core), core, other) ELSE {}
  IN  OfCores(Core(cl), Core(rl))

MiniConflict(u) ==
  LET bl   == SplitLines(u.base)
      both == Span(Changes(bl, SplitLines(u.current)))
                \intersect Span(Changes(bl, SplitLines(u.replayed)))
  IN  IF \/ bl = <<>>
         \/ NonBlank(u.base) + NonBlank(u.current) + NonBlank(u.replayed) < 10
      THEN {}
      ELSE IF both = {} THEN InPlace(u) ELSE Shrink(u, both)

-----------------------------------------------------------------------------
(* A core goes back where its current side stood: as many lines from line  *)
(* `at' on, or, when the text ends before that, at the occurrence nearest  *)
(* the middle (of two equally near the first). Nothing when there is none. *)
MiddleMost(t, piece) ==
  LET starts == {i \in 0..Len(t) : /\ i + Len(piece) <= Len(t)
                                   /\ Slice(t, i, i + Len(piece)) = piece}
      Off(i) == LET d == 2 * i + Len(piece)
                IN  IF d < Len(t) THEN Len(t) - d ELSE d - Len(t)
  IN  {i \in starts : \A j \in starts :
         Off(i) < Off(j) \/ (Off(i) = Off(j) /\ i <= j)}

Patch(o, t) ==
  LET core   == o.core[2]
      starts == IF o.at < Len(o.text) THEN {o.at} ELSE MiddleMost(o.text, core)
  IN  {Slice(o.text, 0, i) \o t \o Slice(o.text, i + Len(core), Len(o.text)) :
         i \in {j \in starts : j + Len(core) <= Len(o.text)}}

(* Braces out of balance are set right when one edit does it: lines of     *)
(* nothing but a brace taken out, or one put in (_try_balance_braces).     *)
(* Which texts are out of balance is not told by lines that are values.    *)
Rebalanced(t) ==
  LET Without(ks) ==
        LET kept == SelectSeq([k \in DOMAIN t |-> k], LAMBDA k : k \notin ks)
        IN  Join([n \in DOMAIN kept |-> t[kept[n]]])
  IN  {Without(ks) : ks \in SUBSET {k \in DOMAIN t : t[k] \in Noise}}
      \union {InsertAt(t, k, brace) : k \in 1..(Len(t) + 1), brace \in Noise}

-----------------------------------------------------------------------------
(* A file git left in conflict: a plain line, the conflict, a plain line,  *)
(* a second block, and the end of the file.                                *)
Materialised(c) ==
  <<"above", OpenMark>> \o c.current \o <<BaseMark>> \o c.base \o <<Divider>>
  \o c.replayed \o <<CloseMark, "between", OpenMark, "p", BaseMark, Divider,
  "q", CloseMark, Blank>>

Init ==
  /\ file \in {Materialised(c) : c \in Conflicts}
  /\ blocks = <<>>
  /\ stack = <<>>
  /\ pc = "parse"
  /\ got = <<>>

Parse ==
  /\ pc = "parse"
  /\ UNCHANGED <<file, got>>
  /\ IF ParseBlocks(file) = {}
     THEN pc' = "escalated" /\ UNCHANGED <<blocks, stack>>
     ELSE /\ blocks' \in ParseBlocks(file)
          /\ stack' = <<Unit(blocks'[1].base, blocks'[1].current,
                             blocks'[1].replayed)>>
          /\ pc' = "delete_side"

Top     == Last(stack)
Depth   == Len(stack) - 1
Put(rule, o) == stack' = [stack EXCEPT ![Len(stack)].rule = rule,
                                       ![Len(stack)].offer = <<o>>]

(* A rule is tried: what it offers is checked next, or the next rule is    *)
(* asked.                                                                  *)
Try(rule, offers, nextRule) ==
  /\ pc = rule
  /\ UNCHANGED <<file, blocks, got>>
  /\ IF offers = {} THEN pc' = nextRule /\ UNCHANGED stack
     ELSE pc' = "verify" /\ \E o \in offers : Put(rule, o)

Wholes(texts) == {Whole(t) : t \in texts}

DeleteSide     == Try("delete_side", Wholes(AcceptDeletion(Top)), "identical_sides")
IdenticalSide  == Try("identical_sides", Wholes(IdenticalSides(Top)),
                      "one_sided_change")
OneSide        == Try("one_sided_change", Wholes(OneSidedChange(Top)),
                      "disjoint_edits")
DisjointEdits  == Try("disjoint_edits", Wholes(DisjointMerge(Top)), "zealous_merge")
Zealous        == Try("zealous_merge", Wholes(ZealousMerge(Top)),
                      "insertion_union")
UnionOfInserts == Try("insertion_union",
                      IF SkipUnions THEN {} ELSE Wholes(InsertionUnion(Top)),
                      "convergent_addition")
Convergent     == Try("convergent_addition",
                      IF SkipUnions THEN {} ELSE Wholes(ConvergentAddition(Top)),
                      "partial_disjoint")
Partial        == Try("partial_disjoint",
                      IF Depth < 2 THEN PartialDisjointMerge(Top) ELSE {},
                      "mini_conflict")
Mini           == Try("mini_conflict",
                      IF Depth < 2 THEN MiniConflict(Top) ELSE {}, "outside")

(* The answers of what is not here, the model first of all: one of the     *)
(* sides, or both, one after the other.                                    *)
Answers(u) == {u.current, u.replayed, u.current \o u.replayed}

(* A rule that is not here has its turn before the one named by pc. What   *)
(* it offers is checked like any other offer, and the rules after it are   *)
(* not asked.                                                              *)
OtherRule ==
  /\ pc \in {"one_sided_change", "disjoint_edits", "insertion_union",
              "partial_disjoint"}
  /\ pc' = "verify"
  /\ \E t \in Answers(Top) : Put("other", Whole(t))
  /\ UNCHANGED <<file, blocks, got>>

Reject == pc' = "outside" /\ UNCHANGED <<file, blocks, stack, got>>

(* The offer is checked; a text that holds a marker never passes. One with *)
(* an open core waits for the core, unless it has no line to resolve.      *)
Verify ==
  /\ pc = "verify"
  /\ LET o == Top.offer[1]
     IN  \/ Reject
         \/ /\ ~ ContainsMarkers(o.text)
            /\ IF o.core = <<>>
               THEN /\ pc' = "return" /\ got' = <<o.text>>
                    /\ UNCHANGED <<file, blocks, stack>>
               ELSE IF IsEmpty(o.core[2]) /\ IsEmpty(o.core[3]) THEN Reject
               ELSE /\ stack' = Append(stack, Unit(o.core[1], o.core[2], o.core[3]))
                    /\ pc' = "delete_side"
                    /\ UNCHANGED <<file, blocks, got>>

(* No rule's offer was good enough: something else answers.                *)
Outside ==
  /\ pc = "outside"
  /\ \E t \in Answers(Top) : ~ ContainsMarkers(t) /\ got' = <<t>>
  /\ pc' = "return"
  /\ UNCHANGED <<file, blocks, stack>>

(* Nobody has an answer: the unit is escalated, and a core takes the offer *)
(* it belongs to down with it.                                             *)
GiveUp ==
  /\ pc = "outside"
  /\ IF Depth = 0
     THEN pc' = "escalated" /\ UNCHANGED stack
     ELSE pc' = "outside" /\ stack' = Front(stack)
  /\ UNCHANGED <<file, blocks, got>>

(* The text of a core goes into the offer around it, which is accepted     *)
(* with it, its braces set right if need be. A core resolved to nothing at *)
(* all counts as unresolved.                                               *)
ReturnCore ==
  /\ pc = "return" /\ Depth > 0
  /\ stack' = Front(stack)
  /\ LET patched == IF got[1] = <<Blank>> THEN {}
                    ELSE Patch(Last(Front(stack)).offer[1], got[1])
     IN  IF patched = {} THEN pc' = "outside" /\ got' = <<>>
         ELSE /\ pc' = "return"
              /\ \E t \in patched : \E mended \in Rebalanced(t) : got' = <<mended>>
  /\ UNCHANGED <<file, blocks>>

(* The unit is resolved: its text and the second block's replace their     *)
(* blocks in the file, which must not hold a marker any more.              *)
Splice ==
  /\ pc = "return" /\ Depth = 0
  /\ \E second \in Seconds :
       LET texts == [n \in DOMAIN blocks |-> IF n = 1 THEN got[1] ELSE second]
           spliced == SpliceAll(file, blocks, texts)
       IN  IF \E t \in spliced : ~ ContainsMarkers(t)
           THEN pc' = "done" /\ file' \in spliced
           ELSE pc' = "escalated" /\ UNCHANGED file
  /\ UNCHANGED <<blocks, stack, got>>

Next ==
  \/ Parse \/ DeleteSide \/ IdenticalSide \/ OneSide \/ DisjointEdits \/ Zealous
  \/ UnionOfInserts \/ Convergent \/ Partial \/ Mini \/ OtherRule
  \/ Verify \/ Outside \/ GiveUp \/ ReturnCore \/ Splice

Spec == Init /\ [][Next]_vars

-----------------------------------------------------------------------------
(* Texts are never without a line, and a unit with a core under way has    *)
(* the offer it belongs to (the shapes of StructuralResolution and         *)
(* ConflictUnit).                                                          *)
TypeOK ==
  /\ \A k \in DOMAIN stack :
       /\ \A t \in {stack[k].base, stack[k].current, stack[k].replayed} : t # <<>>
       /\ Len(stack[k].offer) <= 1
       /\ stack[k].offer = <<>> => k = Len(stack)
  /\ pc \in {"return", "done"} => got # <<>> /\ got[1] # <<>>
  /\ pc \notin {"parse", "escalated"} => stack # <<>> /\ blocks # <<>>

(* The matcher finds a longest common subsequence, the same one in Python  *)
(* and in C ("both produce the same maximal monotone matching"), and its   *)
(* script turns the base into the side.                                    *)
MatcherIsExact ==
  pc = "delete_side" =>
    \A side \in {Top.current, Top.replayed} :
      LET m == Matching(Top.base, side)
      IN  /\ IsCommon(Top.base, side, m)
          /\ Len(m) = LcsLength(Top.base, side)
          /\ MatchingInC(Top.base, side) = m
          /\ Replays(Top.base, side, Opcodes(Top.base, side))

(* What the disjoint rule and the union of insertions offer holds the      *)
(* edits of both sides: every line as often as base plus both differences  *)
(* give, and each side in its order except for what the other changed.     *)
BothEditsLand ==
  pc = "verify" /\ Top.rule \in {"disjoint_edits", "insertion_union"} =>
    LET t == Top.offer[1].text
        Keeps(side, other) ==
          LcsLength(t, side) + Cardinality(Span(Changes(Top.base, other)))
            >= Len(side)
    IN  /\ \A l \in LinesIn(t) \union LinesIn(Top.base) :
             Count(t, l) + Count(Top.base, l)
               = Count(Top.current, l) + Count(Top.replayed, l)
        /\ Keeps(Top.current, Top.replayed)
        /\ Keeps(Top.replayed, Top.current)

(* The two line-by-line rules do not care which side is which.             *)
SidesInterchange ==
  LET swapped == [Top EXCEPT !.current = Top.replayed, !.replayed = Top.current]
  IN  /\ pc = "disjoint_edits" => DisjointMerge(Top) = DisjointMerge(swapped)
      /\ pc = "zealous_merge" => ZealousMerge(Top) = ZealousMerge(swapped)

(* The unit above another is the core of its offer, and a core of a core   *)
(* leaves none open any more.                                              *)
CoresNest ==
  /\ Len(stack) <= 3
  /\ \A k \in 1..(Len(stack) - 1) :
       /\ stack[k].offer # <<>>
       /\ stack[k].offer[1].core
            = <<stack[k + 1].base, stack[k + 1].current, stack[k + 1].replayed>>

(* An open core lies where the offer says, so putting an answer there      *)
(* leaves the merged tails as they are (as long as current has a line in   *)
(* it: a core current emptied has no place in the text); and it is smaller *)
(* than the conflict it was left by, so cores in cores come to an end.     *)
CoreInPlace(o) ==
  o.core # <<>> /\ o.core[2] # <<Blank>> =>
    Slice(o.text, o.at, o.at + Len(o.core[2])) = o.core[2]

CoresFit ==
  /\ TypeOK
  /\ \A k \in DOMAIN stack : \A n \in DOMAIN stack[k].offer :
       CoreInPlace(stack[k].offer[n])
  /\ \A k \in 2..Len(stack) :
       NonBlank(stack[k].current) + NonBlank(stack[k].replayed)
         < NonBlank(stack[k - 1].current) + NonBlank(stack[k - 1].replayed)
  /\ CoresNest

(* A finished file has the lines around the blocks, the text of each block *)
(* in its place, and no marker.                                            *)
FileIsWhole ==
  pc = "done" =>
    \E second \in Seconds :
      file = <<"above">> \o got[1] \o (<<"between">> \o second) \o <<Blank>>

(* Where the zealous rule merges, "at most one side actually changed the   *)
(* content": a line one side took away is gone, unless the other wrote it. *)
Wrote(base, side) ==
  UNION {LinesIn(Slice(side, op.j1, op.j2)) : op \in Changes(base, side)}

NothingRevived ==
  pc = "verify" /\ Top.rule = "zealous_merge" =>
    LET t == Top.offer[1].text
        Gone(side, other) ==
          \A l \in LinesIn(t) \ Wrote(Top.base, other) :
            Count(t, l) <= Count(side, l)
    IN  Gone(Top.current, Top.replayed) /\ Gone(Top.replayed, Top.current)
=============================================================================
