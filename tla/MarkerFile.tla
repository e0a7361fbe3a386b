----------------------------- MODULE MarkerFile -----------------------------
(***************************************************************************)
(* Files with conflict markers (src/capybase/adapters/parsers.py): how a   *)
(* file is cut into marker blocks, when a text still holds a marker, and   *)
(* how resolved texts are put back in place of their blocks.               *)
(*                                                                         *)
(* A file is a sequence of lines. A line is a marker, Blank, or any other  *)
(* string; a text of no characters is the one-line text <<Blank>>. What    *)
(* the code reads off the characters of a line is given by constants:      *)
(* Titles, the lines short and plain enough to head an underline,          *)
(* Sentences, those that would be but for the stop, comma or exclamation   *)
(* mark they end in, and Rules, the lines of seven or more "=".            *)
(***************************************************************************)
EXTENDS Naturals, Sequences, FiniteSets, SequencesExt

CONSTANTS Titles, Sentences, Rules

Blank      == ""
OpenMark   == "open marker"
BaseMark   == "base marker"
Divider    == "divider"
CloseMark  == "close marker"
Markers    == {OpenMark, BaseMark, Divider, CloseMark}

ASSUME LineKinds ==
  /\ (Titles \union Sentences) \intersect (Markers \union Rules \union {Blank}) = {}
  /\ Divider \in Rules

(* Joining no lines at all gives the text of no characters.                *)
Join(lines) == IF lines = <<>> THEN <<Blank>> ELSE lines

(* The first position after p with one of these lines, one past the end    *)
(* when there is none.                                                     *)
FirstAfter(file, p, kinds) ==
  LET found == {k \in (p + 1)..Len(file) : file[k] \in kinds}
  IN  IF found = {} THEN Len(file) + 1
      ELSE CHOOSE k \in found : \A l \in found : k <= l

LineAt(file, p) == IF p \in DOMAIN file THEN file[p] ELSE Blank

(* The block opened at position s, or nothing when it is malformed: a      *)
(* second opener in a side, a missing divider or a missing closer. Inside  *)
(* a base section only the divider is looked for.                          *)
BlockAt(file, s) ==
  LET one == FirstAfter(file, s, {OpenMark, BaseMark, Divider})
      div == IF LineAt(file, one) = BaseMark
             THEN FirstAfter(file, one, {Divider}) ELSE one
      end == FirstAfter(file, div, {OpenMark, CloseMark})
  IN  IF \/ LineAt(file, div) # Divider
         \/ LineAt(file, end) # CloseMark
      THEN {}
      ELSE {[start |-> s, end |-> end,
             current  |-> Join(SubSeq(file, s + 1, one - 1)),
             base     |-> Join(SubSeq(file, one + 1, div - 1)),
             replayed |-> Join(SubSeq(file, div + 1, end - 1))]}

(* All blocks after a position, from top to bottom; nothing when one of    *)
(* them is malformed.                                                      *)
BlocksAfter(file) ==
  LET From[p \in 0..Len(file)] ==
        LET s == FirstAfter(file, p, {OpenMark})
        IN  IF s > Len(file) THEN {<<>>}
            ELSE UNION {{<<block>> \o rest : rest \in From[block.end]}
                        : block \in BlockAt(file, s)}
  IN  From

ParseBlocks(file) == BlocksAfter(file)[0]

(* A divider alone, in a file without an opener, may be the underline of a *)
(* title above it, or the rule above a title that is underlined itself,    *)
(* which may then be a sentence as well.                                   *)
IsUnderline(file, p) ==
  /\ file[p] = Divider
  /\ \A k \in DOMAIN file : file[k] # OpenMark
  /\ \/ LineAt(file, p - 1) \in Titles
     \/ /\ LineAt(file, p - 1) = Blank
        /\ LineAt(file, p + 1) \in Titles \union Sentences
        /\ LineAt(file, p + 2) \in Rules

ContainsMarkers(file) ==
  \E p \in DOMAIN file : file[p] \in Markers /\ ~ IsUnderline(file, p)

(* Every text in place of its block, from top to bottom over the lines of  *)
(* the original; nothing when two blocks overlap or one lies outside.      *)
SpliceAll_OneOff(file, blocks, texts) ==
  LET ends(n) == IF n = 0 THEN 0 ELSE blocks[n].end
  IN  {FlattenSeq([n \in DOMAIN blocks |->
         SubSeq(file, ends(n - 1) + 2, blocks[n].start - 1) \o texts[n]])
       \o SubSeq(file, ends(Len(blocks)) + 1, Len(file))}
SpliceAll(file, blocks, texts) ==
  LET ends(n)  == IF n = 0 THEN 0 ELSE blocks[n].end
      rest     == SubSeq(file, ends(Len(blocks)) + 1, Len(file))
  IN  IF \E n \in DOMAIN blocks :
           \/ blocks[n].start <= ends(n - 1)
           \/ blocks[n].end > Len(file)
           \/ blocks[n].start > blocks[n].end
      THEN {}
      ELSE {FlattenSeq([n \in DOMAIN blocks |->
              SubSeq(file, ends(n - 1) + 1, blocks[n].start - 1) \o texts[n]])
            \o rest}
=============================================================================
