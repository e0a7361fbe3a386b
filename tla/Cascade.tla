------------------------------ MODULE Cascade ------------------------------
(***************************************************************************)
(* The mechanisms _resolve_unit_core tries, in order, before the model:    *)
(* replays of what a sibling or a past session got, deterministic merges,  *)
(* a side picked by the tests, a keep-or-delete question to the model, and *)
(* the sides' own lines.  The first whose text is verified wins.           *)
(*                                                                         *)
(* Which texts a mechanism may propose, and what the verifier says of      *)
(* them, is left open: offers holds the mechanisms whose gates a conflict  *)
(* passes, and a verdict is what a FULL verification would say.            *)
(***************************************************************************)
EXTENDS Integers, Sequences, FiniteSets

CONSTANTS
  Verdicts,       \* what a full verification may say of a text: [hard, warns]
  Units           \* the conflicts: what does not change while one is resolved

VARIABLES
  pc,       \* where _resolve_unit is
  unit,     \* [header, cap, role, coverage, exclusive, strict, deletes, canonical,
            \* rounds, offers]: rounds bounds how often one step resolves it
  pre,      \* [stage, failures, tried, passed, tree, band], see Untried
  outcome   \* how it ended: [by, fills, verdict, fast, deferred]

Verdict(hard, warns) == [hard |-> hard, warns |-> warns]

ASSUME CascadeAssumption == \A v \in Verdicts : v = Verdict(v.hard, v.warns)

Clean == Verdict({}, {})
Passing == {v \in Verdicts : v.hard = {}}

\* A fast verification leaves the validators of syntax out, and of those that warn
\* all but one.
FastSees == {"scope", "empty", "referenced_symbol_dropped"}
Seen(v, fast) == IF fast THEN Verdict(v.hard \cap FastSees, v.warns \cap FastSees) ELSE v

Order ==
  << "step_shape_reuse", "step_pattern_reuse", "exact_reuse", "generated_file_side",
     "structural_resolve", "empty_side_fragment", "docs_union", "list_union",
     "def_site_race", "combination_search", "test_gated_side", "block_capture",
     "source_candidate_portfolio" >>
Mechanisms == {Order[i] : i \in DOMAIN Order}

Replays == {"step_shape_reuse", "step_pattern_reuse"}

\* They propose one text, or several of which the first that passes counts.
Generators ==
  {"generated_file_side", "empty_side_fragment", "docs_union", "list_union",
   "def_site_race", "block_capture", "source_candidate_portfolio"}

Sides == {"current", "replayed"}

\* The stage after the last one is the check of the model's window.
Guard == Len(Order) + 1

\* Once the probe of the sides has left failures nothing of the rest is tried.
NextStage(i, failures) ==
  LET later == {j \in i + 1..Guard - 1 :
                  /\ Order[j] \in unit.offers
                  /\ ~(failures /\ Order[j] \in {"block_capture", "source_candidate_portfolio"})}
  IN  IF later = {} THEN Guard ELSE CHOOSE j \in later : \A k \in later : j <= k

\* tried and passed are the sides the tests have been asked about; tree is what
\* the file holds in the worktree, "left" for a side an exception left there, and
\* "emptied" for nothing;
\* band: the search declined with a fitness that leaves the order open, and the
\* model has not yet failed to name one.
Untried ==
  [stage |-> NextStage(0, FALSE), failures |-> FALSE, tried |-> {}, passed |-> {},
   tree |-> "conflict", band |-> FALSE]

At(mechanism) ==
  /\ pc = "cascade" /\ pre.stage < Guard
  /\ Order[pre.stage] = mechanism

-----------------------------------------------------------------------------
(* The two ways a mechanism comes back. *)

\* A text is accepted; fills says what of the file it stands for.
AcceptAs(by, fills, verdict, fast) ==
  /\ pc' = "ended"
  /\ outcome' = [by |-> by, fills |-> fills, verdict |-> verdict, fast |-> fast,
                 deferred |-> FALSE]
Accept(by, fills, verdict) == AcceptAs(by, fills, verdict, FALSE)

\* Its gate is not met after all, its text fails, strictness refuses it, or it
\* raises: the seam takes an exception for a decline.
DeclineTo(p) ==
  /\ pre' = [p EXCEPT !.stage = NextStage(@, p.failures)]
  /\ UNCHANGED <<pc, outcome>>
Decline == DeclineTo(pre)

\* In the strict modes a dropped obligation blocks what passed; other reasons to
\* block are left open, as a decline always is.
\* Mutant: strictness is not asked.
StrictAllows_Always(v) == TRUE

StrictAllows(v) == unit.strict => "obligation" \notin v.warns

-----------------------------------------------------------------------------
(* The mechanisms. *)

\* A sibling's text, or its edit, is replayed: verified fast, whatever the mode.
Replay(m) ==
  /\ m \in Replays /\ At(m)
  /\ \/ \E v \in Verdicts :
          /\ Seen(v, TRUE).hard = {}
          /\ AcceptAs(m, "region", v, TRUE) /\ UNCHANGED pre
     \/ Decline
  /\ UNCHANGED unit

\* The text an identical conflict got in the past, unless it drops a symbol that a
\* later commit needs.
ExactReuse ==
  /\ At("exact_reuse")
  /\ \/ \E v \in Passing :
          /\ "future_obligation" \notin v.warns /\ StrictAllows(v)
          /\ Accept("exact_reuse", "region", v) /\ UNCHANGED pre
     \/ Decline
  /\ UNCHANGED unit

Generate(m) ==
  /\ At(m)
  /\ \/ \E v \in Passing :
          StrictAllows(v) /\ Accept(m, "region", v) /\ UNCHANGED pre
     \/ Decline
  /\ UNCHANGED unit

\* Of a generated file, the side with more change.
GeneratedFileSide == Generate("generated_file_side")

\* One side is empty: nothing, or the other side, as the file's history says.
EmptySideFragment == Generate("empty_side_fragment")

\* The entries of both sides of a changelog, or of a list of names.
DocsUnion == Generate("docs_union")
ListUnion == Generate("list_union")

\* A definition one side moved stays where it was moved to.
DefSiteRace == Generate("def_site_race")

\* The model says whether a large deleted block stays; no answer is a decline.
BlockCapture == Generate("block_capture")

\* The sides' own lines, in the few orders tried.
SourceCandidatePortfolio == Generate("source_candidate_portfolio")

\* A rule that takes lines as they are is verified fast: strictness then hears of
\* no obligation.  A rule that recombines them is verified in full.
StructuralResolve ==
  /\ At("structural_resolve")
  /\ \/ \E v \in Verdicts, fast \in BOOLEAN :
          /\ Seen(v, fast).hard = {} /\ StrictAllows(Seen(v, fast))
          /\ AcceptAs("structural_resolve", "region", v, fast) /\ UNCHANGED pre
     \/ Decline
  /\ UNCHANGED unit

\* The rule leaves a contested core of a few lines: the text with the current
\* side's core is verified, the core is resolved like a conflict of its own, and
\* what comes of it is put in and accepted as it is.  If the tests picked it the
\* file holds only the few lines the core was shown in.  An unresolved core is a
\* decline.
DeferredCore ==
  /\ At("structural_resolve")
  /\ \E held \in Passing : StrictAllows(held)
  /\ \E v \in Verdicts : Accept("deferred_core", "region", v)
  /\ \E probed \in {FALSE, "test_gated_side" \in unit.offers} :
       pre' = [pre EXCEPT !.tree = IF probed THEN "fragment" ELSE @]
  /\ UNCHANGED unit

\* A search that declines leaves its fitness with the conflict.
CombinationSearch ==
  /\ At("combination_search")
  /\ \/ \E v \in Passing :
          /\ StrictAllows(v)
          /\ Accept("combination_search", "region", v) /\ UNCHANGED pre
     \/ \E band \in {FALSE, "ordered_splice" \in unit.offers} :
          DeclineTo([pre EXCEPT !.band = band])
  /\ UNCHANGED unit

-----------------------------------------------------------------------------
(* The side the tests pick.  Each side that passes verification is written  *)
(* into the file and the tests are run on it.                               *)

NextSide == IF "current" \in pre.tried THEN "replayed" ELSE "current"

ProbeSide ==
  /\ At("test_gated_side") /\ pre.tried # Sides
  /\ LET tried == [pre EXCEPT !.tried = @ \cup {NextSide}]
         written == [tried EXCEPT !.tree = NextSide]
     IN  \/ pre' = [tried EXCEPT !.failures = TRUE]
         \/ pre' = [written EXCEPT !.failures = TRUE]
         \/ pre' = [written EXCEPT !.passed = @ \cup {NextSide}]
  /\ UNCHANGED <<pc, unit, outcome>>

\* The run of the tests raises, as on output that is not text: nothing puts the
\* file back, and no failure is kept.
ProbeRaises ==
  /\ At("test_gated_side") /\ pre.tried # Sides
  /\ DeclineTo([pre EXCEPT !.tree = "left", !.failures = FALSE, !.tried = {}, !.passed = {}])
  /\ UNCHANGED unit

Probed == At("test_gated_side") /\ pre.tried = Sides

\* Exactly one side passed: the file holds the side that was written last.
PickSide ==
  /\ Probed /\ Cardinality(pre.passed) = 1
  /\ \E v \in Passing : StrictAllows(v) /\ Accept("test_gated_side", "region", v)
  /\ UNCHANGED <<unit, pre>>

\* Mutant: a side the strict mode refuses is left in the file.
PutBack_ButRefused(p) ==
  {[p EXCEPT !.tree = IF Cardinality(p.passed) = 1 THEN @ ELSE tree,
             !.tried = {}, !.passed = {}] : tree \in {"conflict", "emptied"}}

\* What the file held before; nothing, if it could not be read then.
PutBack(p) ==
  {[p EXCEPT !.tree = tree, !.tried = {}, !.passed = {}] : tree \in {"conflict", "emptied"}}

\* Otherwise the file is put back.  Only if the tests did not decide are the
\* failures of the sides kept for the model.
PickNone ==
  /\ Probed
  /\ \E p \in PutBack(pre) :
       \/ Cardinality(pre.passed) # 1 /\ DeclineTo(p)
       \/ /\ Cardinality(pre.passed) = 1 /\ unit.strict
          /\ DeclineTo([p EXCEPT !.failures = FALSE])
  /\ UNCHANGED unit

-----------------------------------------------------------------------------
CascadeStep ==
  \/ \E m \in Replays : Replay(m)
  \/ ExactReuse \/ StructuralResolve \/ DeferredCore \/ CombinationSearch
  \/ GeneratedFileSide \/ EmptySideFragment \/ DocsUnion \/ ListUnion
  \/ DefSiteRace \/ BlockCapture \/ SourceCandidatePortfolio
  \/ ProbeSide \/ ProbeRaises \/ PickSide \/ PickNone
=============================================================================
