---------------------------- MODULE RepairLadder ----------------------------
(***************************************************************************)
(* The repair ladder of a merged file that failed the gate                 *)
(* (_whole_file_repair, orchestrator.py): some 25 deterministic rungs in a  *)
(* fixed order, then the model.  It is climbed once in each round of the    *)
(* file's repair loop, once more at the end, and for units that were        *)
(* deferred to it.                                                          *)
(*                                                                          *)
(* What the rungs do to a text is a choice; modelled is which rung is tried *)
(* when, what it remembers, whether its text is checked before it is        *)
(* returned, and what the list of accepted resolutions stands for after.    *)
(***************************************************************************)
EXTENDS Naturals, Sequences, FiniteSets

CONSTANTS
  Shapes,    \* the sets of failures a text may have; {} passes
  MaxMerges, \* bound: different merges of the file
  Budget,    \* bound: rounds of the repair loop
  Jobs       \* the files, callers and configurations considered

Langs == {"c", "python", "rust"}
Flags == {"absent", "dedup", "arbitration", "hunks", "linker"}

\* onesided: what _side_pick_churn_ok says.  flags: the future.enable_... switches;
\* tiered: max_whole_file_repair_seconds > 0.  fits: the whole file fits the model's
\* output.  modelround: a deferral may ask the model.  budget: the rounds granted.
\* shapes: what its texts may fail of.
Job == [lang : Langs, units : 1..2, onesided : {"yes", "no", "unknown"},
        flags : SUBSET Flags, guard : BOOLEAN, tiered : BOOLEAN, fits : BOOLEAN,
        deferred : BOOLEAN, modelround : BOOLEAN, budget : 0..Budget,
        shapes : SUBSET Shapes]

\* Kinds of failures, as far as the rungs tell them apart; those of a compiler.
Cc == {"redefined", "symbol", "type", "absent", "expected", "storage", "cc"}
Kinds == Cc \cup {"brace", "string", "indent", "paren", "mismatch", "quote", "preprocessor",
                  "dead", "prefix", "import", "build", "markers", "other"}

ASSUME LadderAssumption ==
  /\ MaxMerges \in Nat /\ Budget \in Nat
  /\ Shapes \subseteq SUBSET Kinds
  /\ Jobs \subseteq Job

Sides == {"current", "replayed"}
Ways == {"merge", "answer"} \cup Sides

\* A text of the file.  "region": the text of a single conflict where the file should
\* be; "marked": it has conflict markers again.
FileText == [of : Ways, extent : {"file", "region", "marked"}, no : 0..MaxMerges]

\* The list of accepted resolutions: of all units, of "one" of several, or a single
\* whole-file unit without a span.  Its sides are those of the unit it was made of.
Lists == [text : FileText, list : {"units", "one", "whole"}]

VARIABLES
  job,
  phase,
  accepted,  \* the caller's list
  wrong,     \* the failures of the texts that were checked
  merges,    \* how many merges there have been
  rounds,    \* wf_retries
  before,    \* the failures of the rounds so far (_wf_failure_history)
  climb,     \* the last climb: who asked for it, why, and the next rung
  tried,     \* _wf_repair_tried
  done       \* the rungs really tried, and whether one declined; for the properties

ladderVars == <<job, phase, accepted, wrong, merges, rounds, before, climb, tried, done>>

-----------------------------------------------------------------------------
(* The rungs.  for: the failures a rung is meant for.  key: when a rung is    *)
(* noted as tried.  ends: "unchecked", the text is returned as it is;         *)
(* "checked", only if verify_file passes it; "unbound", that too, but then    *)
(* the rung reads a variable without a value and its error is swallowed.      *)
(* gives: a whole-file unit, the list with one unit changed, that one unit    *)
(* alone, or a side.                                                          *)

Rung(name, for, langs, flag, key, ends, gives) ==
  [name |-> name, for |-> for, langs |-> langs, flag |-> flag, key |-> key,
   ends |-> ends, gives |-> gives]

C == {"c"}
Py == {"python"}
Brace      == Rung("brace", {"brace"}, Langs, "", "declined", "unchecked", "whole")
PyString   == Rung("pystring", {"string", "quote"}, Py, "", "declined", "unchecked", "whole")
BlockDedup == Rung("blockdedup", {"redefined"}, Langs, "dedup", "declined", "unchecked", "whole")
Inject     == Rung("inject", {"symbol", "type"}, Langs, "", "declined", "unchecked", "whole")
TreeAbsent ==
  Rung("treeabsent", {"absent", "symbol", "type"}, C, "absent", "before", "checked", "replayed")
Rename     == Rung("rename", {"absent", "symbol", "type"}, C, "absent", "before", "unbound", "whole")
ExpToken   == Rung("exptok", {"expected"}, C, "absent", "before", "unbound", "whole")
HunkSub    == Rung("hunksub", Cc, Langs, "hunks", "before", "unbound", "whole")
IndBlock   == Rung("indblock", {"indent"}, Py, "absent", "before", "unbound", "whole")
ParenClose == Rung("parenclose", {"paren"}, Py, "absent", "before", "unbound", "whole")
Mismatch   == Rung("mismatch", {"mismatch"}, Py, "absent", "before", "unbound", "whole")
TripQuote  == Rung("tripquote", {"quote"}, Py, "absent", "before", "unbound", "whole")
SidePick(s, key) == Rung("sidepick", Kinds, Langs, "", key, "checked", s)
Beam       == Rung("p6b", {"brace", "paren", "mismatch"}, Langs, "", "before", "checked", "units")
StorClass  == Rung("storclass", {"storage"}, Langs, "", "landed", "unchecked", "whole")
PreProc    == Rung("preprocessor", {"preprocessor"}, C, "", "never", "unchecked", "whole")
DeadCode   == Rung("deadcode", {"dead"}, Langs, "", "never", "unchecked", "units")
AltCollapse == Rung("altcol", Kinds, Langs, "", "before", "checked", "units")
Prefix     == Rung("prefix", {"prefix"}, Langs, "", "never", "unchecked", "units")
Echo       == Rung("echo", Kinds, Langs, "", "never", "unchecked", "one")
Linker     == Rung("linker", {"import", "redefined"}, Langs, "linker", "never", "unchecked", "whole")
GccFixit   == Rung("fixit", Cc, C, "", "never", "unchecked", "whole")
Eradication == Rung("eradication", {"redefined"}, C, "", "never", "unchecked", "whole")
CcRepair   == Rung("cc", {"cc", "expected"}, C, "", "never", "unchecked", "whole")
Consistency == Rung("consistency", Kinds, C, "", "never", "unchecked", "whole")
Consensus  == Rung("consensus", Kinds, C, "", "never", "unchecked", "whole")

\* Both sides are picked under one key, noted once, before current's is tried.
Ladder == <<Brace, PyString, BlockDedup, Inject, TreeAbsent, Rename, ExpToken, HunkSub,
            IndBlock, ParenClose, Mismatch, TripQuote,
            SidePick("current", "landed"), SidePick("replayed", "before"),
            Beam, StorClass, PreProc, DeadCode, AltCollapse, Prefix, Echo, Linker,
            GccFixit, Eradication, CcRepair, Consistency, Consensus>>

Rungs == 1..Len(Ladder)
Spanned == {"p6b", "altcol", "prefix", "echo"}

-----------------------------------------------------------------------------

NoClimb == [by |-> "nobody", failures |-> {}, skip |-> FALSE, placed |-> TRUE, at |-> 1]
TheMerge(extent, no) == [of |-> "merge", extent |-> extent, no |-> no]

LadderInit ==
  /\ job \in Jobs
  /\ phase = IF job.deferred THEN "deferral" ELSE "gate"
  /\ accepted = [text |-> TheMerge("file", 0), list |-> "units"]
  /\ wrong = <<>> /\ merges = 0 /\ rounds = 0 /\ before = {}
  /\ climb = NoClimb /\ tried = {} /\ done = {}

\* verify_file: what it says of a text does not change; it refuses markers.
Verdicts(t) ==
  IF t \in DOMAIN wrong THEN {wrong[t]}
  ELSE {w \in job.shapes : "markers" \in w <=> t.extent = "marked"}

Learn(t, w) == wrong' = [x \in DOMAIN wrong \cup {t} |-> IF x = t THEN w ELSE wrong[x]]

\* The text of a side: of the file while its units have their spans, of one conflict
\* when the list is a whole-file unit made of that conflict's.
SideText(s, list) ==
  [of |-> s, no |-> 0,
   extent |-> CASE list = "units" -> "file" [] list = "one" -> "marked" [] OTHER -> "region"]

Start(by, failures, skip) ==
  /\ phase' = "climb"
  /\ \E placed \in BOOLEAN :
       climb' = [by |-> by, failures |-> failures, skip |-> skip, placed |-> placed, at |-> 1]

\* The gate of the repair loop.  A round skips the rungs if the last one was all
\* deterministic and changed nothing; the loop ends for several reasons.
Gate ==
  /\ phase = "gate"
  /\ \E w \in Verdicts(accepted.text) :
       /\ Learn(accepted.text, w)
       /\ \/ w = {} /\ phase' = "passed" /\ UNCHANGED <<rounds, before, climb>>
          \/ /\ w # {} /\ rounds < job.budget
             /\ rounds' = rounds + 1 /\ before' = before \cup w
             /\ \E skip \in {FALSE, rounds > 0 /\ w = climb.failures} : Start("round", w, skip)
          \/ w # {} /\ Start("final", w, FALSE) /\ UNCHANGED <<rounds, before>>
  /\ UNCHANGED <<job, accepted, merges, tried, done>>

\* Units that were given up, with the failures of their own.
Deferral ==
  /\ phase = "deferral"
  /\ \E f \in job.shapes \ {{}} : Start("deferral", f, FALSE)
  /\ UNCHANGED <<job, accepted, wrong, merges, rounds, before, tried, done>>

Deterministic == climb.by \in {"final", "deferral"}

Fits(r) ==
  /\ job.lang \in r.langs /\ r.flag \in job.flags \cup {""}
  /\ \/ r.for = Kinds \/ r.for \cap climb.failures # {}
     \/ r.name = "treeabsent" /\ climb.by = "round" /\ r.for \cap before # {}
  /\ r.name \in Spanned => accepted.list # "whole"
  /\ r.name = "sidepick" => job.onesided # "no"
  /\ r.name = "inject" => ~("arbitration" \in job.flags /\ "symbol" \notin climb.failures)

\* Mutant: the key of a text is that of its failures.
Key_NoText(r) == [rung |-> r.name, failures |-> climb.failures, text |-> TheMerge("file", 0)]

Key(r) == [rung |-> r.name, failures |-> climb.failures, text |-> accepted.text]
Due(i) == ~climb.skip /\ Fits(Ladder[i]) /\ Key(Ladder[i]) \notin tried
NextRung(i) == Due(i) /\ i >= climb.at /\ \A j \in climb.at..(i - 1) : ~Due(j)
Exhausted == \A j \in Rungs : j >= climb.at => ~Due(j)

Did(i, how) == [rung |-> i, failures |-> climb.failures, text |-> accepted.text, how |-> how]

Noted(i, how) ==
  /\ tried' = tried \cup IF Ladder[i].key \in {how, "before"} THEN {Key(Ladder[i])} ELSE {}
  /\ done' = done \cup {Did(i, how)}
  /\ climb' = [climb EXCEPT !.at = i + 1]

\* What comes of a climb.  The guard of the rounds declines a text that upset the
\* delimiters; the list it hands back is the caller's own.
Returns(list) ==
  \/ accepted' = list /\ phase' = IF climb.by = "round" THEN "gate" ELSE "recheck"
  \/ job.guard /\ climb.by = "round" /\ phase' = "none" /\ UNCHANGED accepted

\* A new merge, or one there has been.
Merges(extent) ==
  {t \in DOMAIN wrong \ {accepted.text} : t.of = "merge" /\ t.extent = extent}
  \cup IF merges < MaxMerges THEN {TheMerge(extent, merges + 1)} ELSE {}

Counted(t) == merges' = IF t.of # "merge" \/ t \in DOMAIN wrong THEN merges
                        ELSE IF t.no > merges THEN t.no ELSE merges

\* The list a rung makes.  With one unit alone, the conflicts of the others are back.
Made(r) ==
  LET now == accepted.text.extent
  IN CASE r.gives \in Sides   -> {[text |-> SideText(r.gives, accepted.list), list |-> "whole"]}
       [] r.gives = "whole"   -> {[text |-> t, list |-> "whole"] : t \in Merges(now)}
       [] r.gives = "one" /\ accepted.list = "units" /\ job.units > 1 ->
            {[text |-> t, list |-> "one"] : t \in Merges("marked")}
       [] OTHER               -> {[text |-> t, list |-> accepted.list] : t \in Merges(now)}

Declines(i) == Noted(i, "declined") /\ UNCHANGED <<phase, accepted>>

\* One rung.  The first two do not count a text in which nothing is open.
Try(i) ==
  /\ phase = "climb" /\ NextRung(i)
  /\ LET r == Ladder[i] IN
     \/ Declines(i) /\ UNCHANGED <<wrong, merges>>
     \/ /\ r.name \in {"brace", "pystring"}
        /\ climb' = [climb EXCEPT !.at = i + 1]
        /\ UNCHANGED <<phase, accepted, wrong, merges, tried, done>>
     \/ /\ r.ends = "unchecked"
        /\ \E l \in Made(r) : Returns(l) /\ Counted(l.text)
        /\ Noted(i, "landed") /\ UNCHANGED wrong
     \/ /\ r.ends # "unchecked"
        /\ \E l \in Made(r) : \E w \in Verdicts(l.text) :
             /\ Learn(l.text, w) /\ Counted(l.text)
             /\ IF w = {} /\ r.ends = "checked" THEN Returns(l) /\ Noted(i, "landed")
                ELSE Declines(i)
  /\ UNCHANGED <<job, rounds, before>>

-----------------------------------------------------------------------------
(* The model, when the rungs are exhausted. *)

\* A failure of no unit in particular is not the model's if rounds are timed, unless it
\* is a directive's, the build's or an undeclared symbol's.
Untouched(exempt) ==
  /\ ~climb.placed /\ job.tiered
  /\ accepted.list = "units" /\ job.units > 1
  /\ climb.failures \cap exempt = {}

\* What a compiler says may come from the build or from a check of the syntax.
NoModel == Deterministic \/ Untouched({"preprocessor", "build", "symbol"})
AModel == ~Deterministic /\ ~Untouched({"preprocessor", "build"} \cup Cc)

\* What it answers for the unit at fault; for a whole-file unit, maybe no more than its
\* conflict.
Answers(list) ==
  {[of |-> "answer", no |-> rounds,
    extent |-> IF list = "units" THEN "file" ELSE IF list = "one" THEN "marked" ELSE e] :
     e \in {"file", "region"}}

\* The answer is put into the caller's list, whatever the guard says then.  Without
\* one, a prompt that was too long leaves a patch of a few lines, and a preprocessor
\* failure the model's version of the whole file.
Ask ==
  /\ phase = "climb" /\ Exhausted /\ AModel
  /\ \/ /\ \E t \in Answers(accepted.list) : accepted' = [accepted EXCEPT !.text = t]
        /\ \/ phase' = IF climb.by = "round" THEN "gate" ELSE "recheck"
           \/ job.guard /\ climb.by = "round" /\ phase' = "none"
        /\ UNCHANGED merges
     \/ /\ climb.failures \cap Cc # {}
        /\ \E t \in Merges(accepted.text.extent) :
             Returns([text |-> t, list |-> "whole"]) /\ Counted(t)
     \/ /\ "preprocessor" \in climb.failures /\ job.fits
        /\ \E t \in Answers("whole") : Returns([text |-> t, list |-> "whole"])
        /\ UNCHANGED merges
     \/ phase' = "none" /\ UNCHANGED <<accepted, merges>>
  /\ climb' = [climb EXCEPT !.at = Len(Ladder) + 2]
  /\ UNCHANGED <<job, wrong, rounds, before, tried, done>>

NotAsked ==
  /\ phase = "climb" /\ Exhausted /\ NoModel
  /\ phase' = "none" /\ climb' = [climb EXCEPT !.at = Len(Ladder) + 2]
  /\ UNCHANGED <<job, accepted, wrong, merges, rounds, before, tried, done>>

-----------------------------------------------------------------------------
(* The callers. *)

\* A round without a repair falls back to a side; if the file is that side already,
\* the last climb follows, and is told of no failures.
TakeASide ==
  /\ phase = "none" /\ climb.by = "round"
  /\ \E s \in Sides :
       \/ /\ SideText(s, accepted.list) # accepted.text
          /\ accepted' = [accepted EXCEPT !.text = SideText(s, accepted.list)]
          /\ phase' = "gate" /\ UNCHANGED climb
       \/ /\ SideText(s, accepted.list) = accepted.text
          /\ Start("final", {}, FALSE) /\ UNCHANGED accepted
  /\ UNCHANGED <<job, wrong, merges, rounds, before, tried, done>>

\* A deferral may climb once more, with the model.
NoRepair ==
  /\ phase = "none" /\ climb.by # "round"
  /\ IF climb.by = "deferral" /\ job.modelround
     THEN Start("modelround", climb.failures, FALSE)
     ELSE phase' = "gaveup" /\ UNCHANGED climb
  /\ UNCHANGED <<job, accepted, wrong, merges, rounds, before, tried, done>>

Recheck ==
  /\ phase = "recheck"
  /\ \E w \in Verdicts(accepted.text) :
       Learn(accepted.text, w) /\ phase' = IF w = {} THEN "passed" ELSE "gaveup"
  /\ UNCHANGED <<job, accepted, merges, rounds, before, climb, tried, done>>

LadderNext == \/ Gate \/ Deferral
        \/ \E i \in Rungs : Try(i)
        \/ Ask \/ NotAsked \/ TakeASide \/ NoRepair \/ Recheck

LadderSpec == LadderInit /\ [][LadderNext]_ladderVars

-----------------------------------------------------------------------------
(* Properties. *)

\* The registry of tried repairs (the comments C4 and C4b): a rung that declined a text
\* with these failures is not tried on them again, and one that is passed over although
\* it fits was tried on just this text.  The two side picks are one rung: they share a
\* key, noted before either, so when current's has verified and the guard declined it,
\* the replayed side is passed over although it never had its turn.
OncePerText ==
  [][phase = "climb" =>
       LET i == climb'.at - 1 IN
       /\ i \in Rungs /\ Ladder[i].key \in {"before", "declined"} => Did(i, "declined") \notin done
       /\ \A j \in Rungs :
            j >= climb.at /\ j < i /\ ~climb.skip /\ Fits(Ladder[j]) =>
              \E d \in done : /\ Ladder[d.rung].name = Ladder[j].name
                              /\ d.failures = climb.failures
                              /\ d.text = accepted.text]_ladderVars
=============================================================================
