------------------------- MODULE ResolveUnitProofs -------------------------
(***************************************************************************)
(* Proofs about the resolution of one conflict, for any verdicts, answers, *)
(* conflicts and budgets.  The state falls into parts that the steps treat *)
(* alike: the locals of a call, which are gone when it returns; what the   *)
(* session carries; what the cascade has done to the file; and how it      *)
(* ended.  Every way out of a call is one of two, a text accepted or none, *)
(* and each is treated once.                                               *)
(***************************************************************************)
EXTENDS ResolveUnit, TLAPS, SequenceTheorems, WellFoundedInduction

-----------------------------------------------------------------------------
(* The inductive invariant. *)

\* The names of the validators.
Validators == {"empty", "needs_human", "novel", "verifier_model"}
              \cup UNION {v.hard \cup v.warns : v \in Verdicts}
VerdictType == [hard : SUBSET Validators, warns : SUBSET Validators]
Known == Texts \cup {Fresh, NoText}

Place ==
  /\ pc \in {"cascade", "top", "counted", "capped", "decide", "retry",
             "turn", "ended", "done"}
  /\ unit \in Units /\ round \in 1..unit.rounds

AtType ==
  /\ at = [cand |-> at.cand, hashed |-> at.hashed, verdict |-> at.verdict,
           fails |-> at.fails, failures |-> at.failures, why |-> at.why]
  /\ at.cand \in [text : Known, kind : Kinds, refuses : BOOLEAN, suspects : BOOLEAN]
  /\ at.hashed \in Known /\ at.verdict \in VerdictType
  /\ at.failures \in BOOLEAN /\ at.why \in {"none", "retry", "recover", "granted"}

HistType ==
  /\ hist = [memo |-> hist.memo, seen |-> hist.seen, empties |-> hist.empties,
             defects |-> hist.defects, first |-> hist.first, latches |-> hist.latches]
  /\ DOMAIN hist.memo \subseteq Texts
  /\ \A t \in DOMAIN hist.memo : hist.memo[t] \in VerdictType
  /\ hist.seen \in [Texts -> 0..Ceiling]
  /\ hist.empties \in 0..2 /\ hist.defects \in 0..1

\* A recovery turn is within the budget when it is decided on; the one that is
\* granted beyond it is granted once.
Extra == IF "emptyRecovery" \in hist.latches THEN 1 ELSE 0
Recoveries ==
  /\ count \in [{"retry", "critic", "recovery"} -> 0..Ceiling]
  /\ count.recovery <= MaxRecovery + Extra
  /\ pc \in {"retry", "turn"} /\ at.why = "recover" => count.recovery < MaxRecovery + Extra

Locals == AtType /\ HistType /\ Recoveries

\* What is kept to fall back on had passed.
CarriedType ==
  /\ carried \in [norms : [Texts -> 0..Threshold], sigs : Seq(SUBSET Validators),
                  stash : [later : {"none", "kept", "worse", "better"}, verdict : VerdictType],
                  capUsed : BOOLEAN]
  /\ Len(carried.sigs) <= Window
  /\ carried.stash.later # "none" => carried.stash.verdict.hard = {}

\* A side is in the file only while the sides are probed, once the first has been.
Trees == {"conflict", "left", "emptied", "fragment"} \cup Sides
PreTypes == [stage : 1..Guard, failures : BOOLEAN, tried : SUBSET Sides,
             passed : SUBSET Sides, tree : Trees, band : BOOLEAN]
PreType == pre \in PreTypes /\ pre.passed \subseteq pre.tried
Probing ==
  pc = "cascade" => \/ pre.tree \in {"conflict", "left", "emptied"}
                    \/ pre.tree \in Sides /\ At("test_gated_side")

Ends ==
  /\ outcome.fills \in {"none", "region", "window", "file"}
  /\ pc \notin {"ended", "done"} => outcome.fills = "none"
  /\ AcceptedPassed /\ JudgedLosesNoDependency

Inv ==
  /\ Place /\ Locals /\ CarriedType /\ PreType /\ Probing /\ Ends /\ ConflictShown

-----------------------------------------------------------------------------
(* Numbers, stages and rules. *)

LEMMA HasLeast ==
  ASSUME NEW S, S \subseteq Nat, S # {}
  PROVE  \E p \in S : \A r \in S : p <= r
<1>1. PICK p \in S : \A r \in S : ~ (<<r, p>> \in OpToRel(<, Nat))
  BY WFMin, NatLessThanWellFounded, Zenon
<1>2. ASSUME NEW r \in S PROVE p <= r
  <2>1. ~ (<<r, p>> \in OpToRel(<, Nat))
    BY <1>1
  <2>2. <<r, p>> \in OpToRel(<, Nat) <=> r < p
    BY DEF OpToRel
  <2>3. ~ (r < p)
    BY <2>1, <2>2, Zenon
  <2> QED BY <2>3
<1> QED BY <1>2

LEMMA CeilingFits == Ceiling \in Nat /\ Window \in Nat /\ Threshold \in Nat /\ MaxRecovery \in Nat
  BY UnitAssumption DEF Ceiling, Window, Most

LEMMA LimitedFits ==
  ASSUME NEW n \in 0..Ceiling
  PROVE  Limited(n + 1) \in 0..Ceiling /\ Limited(n + 1) <= n + 1
  BY CeilingFits DEF Limited, Least

LEMMA GuardFits == Guard = 14
  BY DEF Guard, Order

LEMMA StageFits ==
  ASSUME NEW i \in 0..Guard, NEW failures
  PROVE  NextStage(i, failures) \in 1..Guard
<1> DEFINE later == {j \in i + 1..Guard - 1 :
                       /\ Order[j] \in unit.offers
                       /\ ~(failures /\ Order[j] \in {"block_capture", "source_candidate_portfolio"})}
<1>1. CASE later = {}
  BY <1>1, GuardFits DEF NextStage
<1>2. CASE later # {}
  <2>1. later \subseteq Nat
    BY GuardFits
  <2>2. \E j \in later : \A k \in later : j <= k
    BY <1>2, <2>1, HasLeast
  <2>3. (CHOOSE j \in later : \A k \in later : j <= k) \in later
    BY <2>2
  <2>4. NextStage(i, failures) = CHOOSE j \in later : \A k \in later : j <= k
    BY <1>2 DEF NextStage
  <2>5. NextStage(i, failures) \in later
    BY <2>3, <2>4
  <2> QED
    BY <2>5, GuardFits
<1> QED
  BY <1>1, <1>2

LEMMA TheMechanisms ==
  Mechanisms = {"step_shape_reuse", "step_pattern_reuse", "exact_reuse", "generated_file_side",
                "structural_resolve", "empty_side_fragment", "docs_union", "list_union",
                "def_site_race", "combination_search", "test_gated_side", "block_capture",
                "source_candidate_portfolio"}
<1>1. /\ Order[1] = "step_shape_reuse" /\ Order[2] = "step_pattern_reuse"
      /\ Order[3] = "exact_reuse" /\ Order[4] = "generated_file_side"
      /\ Order[5] = "structural_resolve" /\ Order[6] = "empty_side_fragment"
      /\ Order[7] = "docs_union" /\ Order[8] = "list_union" /\ Order[9] = "def_site_race"
      /\ Order[10] = "combination_search" /\ Order[11] = "test_gated_side"
      /\ Order[12] = "block_capture" /\ Order[13] = "source_candidate_portfolio"
  BY DEF Order
<1>2. DOMAIN Order = {1, 2, 3, 4, 5, 6, 7, 8, 9, 10, 11, 12, 13}
  BY DEF Order
<1> QED
  BY <1>1, <1>2 DEF Mechanisms

\* The risk policy accepts nothing that fails or that loses content, and asks for
\* a recovery turn only within the budget.
LEMMA DecisionFits ==
  ASSUME NEW sure, NEW split
  PROVE  /\ Decision(sure, split) = "accept" => Passed /\ at.verdict.warns \cap ContentLoss = {}
         /\ Decision(sure, split) = "recover" => count.recovery < MaxRecovery
<1> DEFINE rules == Rules(sure, split)
           hold == {i \in 1..14 : rules[i].when}
           Chosen(i) == rules[i].when /\ \A j \in 1..i - 1 : ~rules[j].when
           first == CHOOSE i \in DOMAIN rules : Chosen(i)
<1>1. DOMAIN rules = 1..14
  BY DEF Rules
<1>2. rules[14].when
  BY DEF Rules
<1>3. PICK p \in hold : \A r \in hold : p <= r
  <2>1. hold \subseteq Nat
    OBVIOUS
  <2>2. hold # {}
    BY <1>2
  <2> HIDE DEF hold
  <2> QED
    BY <2>1, <2>2, HasLeast
<1>4. Chosen(p)
  BY <1>3
<1>5. first \in 1..14 /\ Chosen(first)
  BY <1>1, <1>4
<1>6. Decision(sure, split) = rules[first].then
  BY DEF Decision
<1>7. /\ rules[3].when = ("empty" \in at.verdict.hard /\ count.recovery < MaxRecovery
                /\ at.cand.kind \notin {"request_failed", "truncated", "lsp_failed"})
      /\ rules[7].when = ~Passed
      /\ rules[10].when = ContentRule
      /\ rules[3].then = "recover"
      /\ rules[5].then = IF count.recovery < MaxRecovery THEN "recover" ELSE "escalate"
      /\ rules[14].then = "accept"
  BY DEF Rules
<1>8. \A i \in 1..14 : /\ rules[i].then = "accept" => i = 14
                       /\ rules[i].then = "recover" => i \in {3, 5}
  BY DEF Rules
<1>9. ASSUME Decision(sure, split) = "accept"
      PROVE  Passed /\ at.verdict.warns \cap ContentLoss = {}
  <2>1. first = 14
    BY <1>5, <1>6, <1>8, <1>9
  <2>2. ~rules[7].when /\ ~rules[10].when
    BY <1>5, <2>1
  <2> QED
    BY <1>7, <2>2 DEF ContentRule, Warned
<1>10. ASSUME Decision(sure, split) = "recover"
       PROVE  count.recovery < MaxRecovery
  <2>1. first \in {3, 5}
    BY <1>5, <1>6, <1>8, <1>10
  <2>2. CASE first = 3
    BY <1>5, <1>7, <2>2
  <2>3. CASE first = 5
    BY <1>6, <1>7, <1>10, <2>3
  <2> QED
    BY <2>1, <2>2, <2>3
<1> QED
  BY <1>9, <1>10

-----------------------------------------------------------------------------
(* The two ways a call ends. *)

LEMMA NoAttemptFits ==
  ASSUME NEW b \in BOOLEAN
  PROVE  /\ NoAttempt(b).failures = b /\ NoAttempt(b).why = "none"
         /\ at' = NoAttempt(b) => AtType'
<1>1. Answer(NoText, "", FALSE, FALSE)
        \in [text : Known, kind : Kinds, refuses : BOOLEAN, suspects : BOOLEAN]
  BY DEF Answer, Known, Kinds
<1>2. Clean \in VerdictType
  BY DEF Clean, Verdict, VerdictType
<1>3. NoAttempt(b).failures = b /\ NoAttempt(b).why = "none"
  BY DEF NoAttempt
<1>4. ASSUME at' = NoAttempt(b) PROVE AtType'
  <2>1. at' = [cand |-> Answer(NoText, "", FALSE, FALSE), hashed |-> NoText,
               verdict |-> Clean, fails |-> 0, failures |-> b, why |-> "none"]
    BY <1>4 DEF NoAttempt
  <2> QED
    BY <1>1, <1>2, <2>1 DEF AtType, Known
<1> QED
  BY <1>3, <1>4

LEMMA ReturnsFits ==
  ASSUME Returns
  PROVE  Locals'
<1>1. AtType' /\ at'.why = "none"
  BY NoAttemptFits DEF Returns
<1>2. HistType'
  BY CeilingFits DEF Returns, NewHist, HistType
<1>3. Recoveries'
  <2>1. /\ count' \in [{"retry", "critic", "recovery"} -> 0..Ceiling]
        /\ count'.recovery = 0
    BY CeilingFits DEF Returns, NewCount
  <2>2. MaxRecovery \in Nat
    BY CeilingFits
  <2>3. count'.recovery <= MaxRecovery + Extra'
    BY <2>1, <2>2 DEF Extra
  <2> QED
    BY <1>1, <2>1, <2>3 DEF Recoveries
<1> QED
  BY <1>1, <1>2, <1>3 DEF Locals

\* A text accepted by one of the ways whose promise the outcome states.
Keeps(by, v, fast) ==
  /\ by \notin {"deletion", "deferred_core"} => Seen(v, fast).hard = {}
  /\ unit.strict /\ ~fast /\ by \in StrictAsked => "obligation" \notin v.warns
  /\ by \in JudgedBy => v.warns \cap Dependency = {}

LEMMA AcceptAsFits ==
  ASSUME NEW by, NEW fills \in {"region", "window", "file"}, NEW v, NEW fast,
         AcceptAs(by, fills, v, fast), Keeps(by, v, fast), unit' = unit
  PROVE  pc' = "ended" /\ Ends' /\ outcome'.fills # "none"
  BY DEF AcceptAs, Keeps, Ends, AcceptedPassed, NoHardFailure, StrictObeyed, AcceptedBy,
         JudgedLosesNoDependency, Seen, Verdict

LEMMA AcceptedEnd ==
  ASSUME Inv, NEW by, NEW fills \in {"region", "window", "file"}, NEW v,
         Accept(by, fills, v), Keeps(by, v, FALSE),
         Returns, CarriedType', UNCHANGED <<round, unit, pre>>
  PROVE  Inv'
<1>1. pc' = "ended" /\ Ends' /\ outcome'.fills # "none"
  BY AcceptAsFits DEF Accept
<1>2. Place' /\ PreType' /\ Probing' /\ ConflictShown'
  BY <1>1 DEF Inv, Place, PreType, Probing, ConflictShown, AcceptedBy
<1> QED
  BY <1>1, <1>2, ReturnsFits DEF Inv

LEMMA EndWithoutFits ==
  ASSUME Inv, NEW by, EndWithout(by, carried), UNCHANGED unit
  PROVE  /\ pc' = "ended" /\ Ends' /\ CarriedType' /\ PreType'
         /\ pre'.tree = pre.tree
<1>1. CASE pre.band /\ Spliced(carried)
  <2>1. PICK v \in Passing : StrictAllows(v) /\ Accept("ordered_splice", "region", v)
    BY <1>1 DEF Spliced
  <2>2. Keeps("ordered_splice", v, FALSE)
    BY <2>1 DEF Keeps, Seen, Passing, StrictAllows, JudgedBy
  <2>3. carried' = carried /\ pre' = pre
    BY <1>1 DEF Spliced
  <2> QED
    BY <2>1, <2>2, <2>3, AcceptAsFits DEF Accept, Inv, CarriedType, PreType
<1>2. CASE NotSpliced(by, carried)
  <2>1. PICK band \in {FALSE, pre.band} : pre' = [pre EXCEPT !.band = band]
    BY <1>2 DEF NotSpliced
  <2>2. PreType' /\ pre'.tree = pre.tree
    BY <2>1 DEF Inv, PreType, PreTypes
  <2>3. CarriedType'
    <3>1. Clean \in VerdictType
      BY DEF Clean, Verdict, VerdictType
    <3>2. carried' \in {carried, [carried EXCEPT !.stash = [later |-> "none", verdict |-> Clean]]}
      BY <1>2 DEF NotSpliced
    <3>3. CarriedType
      BY DEF Inv
    <3>4. CASE carried' = carried
      BY <3>3, <3>4 DEF CarriedType
    <3>5. CASE carried' = [carried EXCEPT !.stash = [later |-> "none", verdict |-> Clean]]
      BY <3>1, <3>3, <3>5 DEF CarriedType
    <3> QED
      BY <3>2, <3>4, <3>5
  <2>4. Ends'
    <3>1. CASE carried.stash.later = "worse"
      <4>1. /\ outcome' = [NoOutcome EXCEPT !.by = "restored", !.fills = "region",
                                            !.verdict = carried.stash.verdict]
            /\ carried.stash.verdict.hard = {} /\ pc' = "ended"
        BY <1>2, <3>1 DEF NotSpliced, Inv, CarriedType
      <4> QED
        BY <4>1, TheMechanisms DEF Ends, NoOutcome, AcceptedPassed, NoHardFailure, StrictObeyed,
           AcceptedBy, StrictAsked, JudgedLosesNoDependency, JudgedBy, Seen
    <3>2. CASE carried.stash.later # "worse"
      <4>1. /\ outcome' = [NoOutcome EXCEPT
                         !.by = by, !.deferred = by = "header cap" /\ DeferToLadder]
            /\ pc' = "ended"
        BY <1>2, <3>2 DEF NotSpliced
      <4> QED
        BY <4>1 DEF Ends, NoOutcome, AcceptedPassed, NoHardFailure, StrictObeyed,
           AcceptedBy, JudgedLosesNoDependency, Clean, Verdict
    <3> QED
      BY <3>1, <3>2
  <2> QED
    BY <1>2, <2>2, <2>3, <2>4 DEF NotSpliced
<1> QED
  BY <1>1, <1>2 DEF EndWithout

LEMMA GivenUp ==
  ASSUME Inv, NEW by, EndWithout(by, carried), Returns, UNCHANGED <<round, unit>>,
         pc \notin {"ended", "done"},
         pc = "cascade" => pre.stage = Guard
  PROVE  Inv'
<1>1. /\ pc' = "ended" /\ Ends' /\ CarriedType' /\ PreType'
      /\ pre'.tree = pre.tree
  BY EndWithoutFits
<1>2. pc = "cascade" => pre.tree \in {"conflict", "left", "emptied"}
  BY GuardFits DEF Inv, Probing, At
<1>3. round = 1 /\ pc # "cascade" => pre.tree \in {"conflict", "left", "emptied"}
  BY DEF Inv, ConflictShown, AcceptedBy, Ends
<1>4. Place' /\ Probing' /\ ConflictShown'
  BY <1>1, <1>2, <1>3 DEF Inv, Place, Probing, ConflictShown
<1> QED
  BY <1>1, <1>4, ReturnsFits DEF Inv

-----------------------------------------------------------------------------
(* The cascade. *)

Others == UNCHANGED <<round, at, count, hist, carried>>

LEMMA SeamAccepts ==
  ASSUME Inv, NEW by, NEW fills \in {"region", "window", "file"}, NEW v, NEW fast,
         AcceptAs(by, fills, v, fast), Keeps(by, v, fast),
         PreType', UNCHANGED unit, Others
  PROVE  Inv'
<1>1. pc' = "ended" /\ Ends' /\ outcome'.fills # "none"
  BY AcceptAsFits
<1>2. Place' /\ Probing' /\ ConflictShown' /\ Locals' /\ CarriedType'
  BY <1>1 DEF Inv, Others, Place, Probing, ConflictShown, AcceptedBy, Locals, AtType,
     HistType, Recoveries, Extra, CarriedType
<1> QED
  BY <1>1, <1>2 DEF Inv

LEMMA SeamDeclines ==
  ASSUME Inv, pc = "cascade", NEW p \in PreTypes, DeclineTo(p), UNCHANGED unit, Others,
         p.passed \subseteq p.tried, p.tree \in {"conflict", "left", "emptied"}
  PROVE  Inv'
<1>1. NextStage(p.stage, p.failures) \in 1..Guard
  BY StageFits, GuardFits DEF PreTypes
<1>2. pre' = [p EXCEPT !.stage = NextStage(p.stage, p.failures)]
  BY DEF DeclineTo
<1>3. PreType' /\ pre'.tree \in {"conflict", "left", "emptied"}
  BY <1>1, <1>2 DEF PreType, PreTypes
<1>4. pc' = pc /\ outcome' = outcome
  BY DEF DeclineTo
<1>5. Place' /\ Probing' /\ ConflictShown' /\ Locals' /\ CarriedType'
  BY <1>3, <1>4 DEF Inv, Others, Place, Probing, ConflictShown, AcceptedBy, Locals, AtType,
     HistType, Recoveries, Extra, CarriedType
<1>6. Ends'
  BY <1>4 DEF Inv, Ends, AcceptedPassed, NoHardFailure, StrictObeyed, AcceptedBy,
     JudgedLosesNoDependency
<1> QED
  BY <1>3, <1>5, <1>6 DEF Inv

\* Outside the probe of the sides the file is not touched.
LEMMA Elsewhere ==
  ASSUME Inv, NEW m, At(m), m # "test_gated_side"
  PROVE  pc = "cascade" /\ pre.tree \in {"conflict", "left", "emptied"}
  BY DEF Inv, Probing, At

LEMMA ElsewhereDeclines ==
  ASSUME Inv, NEW m, At(m), m # "test_gated_side", Decline, UNCHANGED unit, Others
  PROVE  Inv'
<1>1. PreType
  BY DEF Inv
<1> QED
  BY <1>1, Elsewhere, SeamDeclines DEF Decline, PreType

LEMMA ElsewhereAccepts ==
  ASSUME Inv, NEW m, NEW v, NEW fast, AcceptAs(m, "region", v, fast), Keeps(m, v, fast),
         UNCHANGED pre, UNCHANGED unit, Others
  PROVE  Inv'
<1>1. PreType'
  BY DEF Inv, PreType
<1> QED
  BY <1>1, SeamAccepts

LEMMA Mechanism ==
  ASSUME NEW m \in Mechanisms
  PROVE  m \notin {"deletion", "deferred_core"} \cup JudgedBy
  BY TheMechanisms DEF JudgedBy

LEMMA ReplayKeeps ==
  ASSUME Inv, NEW m, Replay(m), Others
  PROVE  Inv'
<1>1. At(m) /\ m \in Replays /\ m # "test_gated_side" /\ UNCHANGED unit
  BY DEF Replay, Replays
<1>2. ASSUME NEW v \in Verdicts, Seen(v, TRUE).hard = {} PROVE Keeps(m, v, TRUE)
  BY <1>1, <1>2 DEF Keeps, Replays, JudgedBy
<1> QED
  BY <1>1, <1>2, ElsewhereDeclines, ElsewhereAccepts DEF Replay

LEMMA PassingKeeps ==
  ASSUME NEW m \in Mechanisms, NEW v \in Passing, StrictAllows(v)
  PROVE  Keeps(m, v, FALSE)
  BY Mechanism DEF Keeps, Passing, StrictAllows, Seen

LEMMA GenerateKeeps ==
  ASSUME Inv, NEW m \in Mechanisms, m # "test_gated_side", Generate(m), Others
  PROVE  Inv'
  BY PassingKeeps, ElsewhereDeclines, ElsewhereAccepts DEF Generate, Accept

LEMMA GeneratorsKeep ==
  ASSUME Inv, Others,
         \/ GeneratedFileSide \/ EmptySideFragment \/ DocsUnion \/ ListUnion
         \/ DefSiteRace \/ BlockCapture \/ SourceCandidatePortfolio
  PROVE  Inv'
<1>1. \E m \in {"generated_file_side", "empty_side_fragment", "docs_union", "list_union",
                "def_site_race", "block_capture", "source_candidate_portfolio"} : Generate(m)
  BY DEF GeneratedFileSide, EmptySideFragment, DocsUnion, ListUnion, DefSiteRace,
     BlockCapture, SourceCandidatePortfolio
<1>2. {"generated_file_side", "empty_side_fragment", "docs_union", "list_union",
       "def_site_race", "block_capture", "source_candidate_portfolio"} \subseteq Mechanisms
  BY TheMechanisms
<1> QED
  BY <1>1, <1>2, GenerateKeeps

LEMMA NamedMechanisms ==
  {"exact_reuse", "structural_resolve", "combination_search", "test_gated_side"}
    \subseteq Mechanisms
  BY TheMechanisms

LEMMA ExactReuseKeeps ==
  ASSUME Inv, ExactReuse, Others
  PROVE  Inv'
  BY NamedMechanisms, PassingKeeps, ElsewhereDeclines, ElsewhereAccepts DEF ExactReuse, Accept

LEMMA StructuralResolveKeeps ==
  ASSUME Inv, StructuralResolve, Others
  PROVE  Inv'
<1>1. At("structural_resolve") /\ UNCHANGED unit
  BY DEF StructuralResolve
<1>2. ASSUME NEW v \in Verdicts, NEW fast \in BOOLEAN,
             Seen(v, fast).hard = {}, StrictAllows(Seen(v, fast))
      PROVE  Keeps("structural_resolve", v, fast)
  <2>1. ~fast => Seen(v, fast) = v
    BY DEF Seen
  <2> QED
    BY <1>2, <2>1 DEF Keeps, StrictAllows, JudgedBy
<1> QED
  BY <1>1, <1>2, ElsewhereDeclines, ElsewhereAccepts DEF StructuralResolve

LEMMA DeferredCoreKeeps ==
  ASSUME Inv, DeferredCore, Others
  PROVE  Inv'
<1>1. PICK v \in Verdicts : Accept("deferred_core", "region", v)
  BY DEF DeferredCore
<1>2. PreType'
  BY DEF DeferredCore, Inv, PreType, PreTypes, Trees
<1>3. Keeps("deferred_core", v, FALSE)
  BY TheMechanisms DEF Keeps, StrictAsked, JudgedBy
<1> QED
  BY <1>1, <1>2, <1>3, SeamAccepts DEF Accept, DeferredCore

LEMMA CombinationSearchKeeps ==
  ASSUME Inv, CombinationSearch, Others
  PROVE  Inv'
<1>1. At("combination_search") /\ UNCHANGED unit
  BY DEF CombinationSearch
<1>2. CASE \E v \in Passing : /\ StrictAllows(v)
                              /\ Accept("combination_search", "region", v) /\ UNCHANGED pre
  BY <1>1, <1>2, NamedMechanisms, PassingKeeps, ElsewhereAccepts DEF Accept
<1>3. ASSUME NEW band \in {FALSE, "ordered_splice" \in unit.offers},
             DeclineTo([pre EXCEPT !.band = band])
      PROVE  Inv'
  <2>1. pc = "cascade" /\ pre.tree \in {"conflict", "left", "emptied"}
    BY <1>1, Elsewhere
  <2> DEFINE p == [pre EXCEPT !.band = band]
  <2>2. p \in PreTypes /\ p.tree = pre.tree /\ p.passed \subseteq p.tried
    <3>1. band \in BOOLEAN
      <4>1. ("ordered_splice" \in unit.offers) = TRUE \/ ("ordered_splice" \in unit.offers) = FALSE
        OBVIOUS
      <4> QED
        BY <4>1
    <3> QED
      BY <3>1 DEF Inv, PreType, PreTypes
  <2>3. DeclineTo(p)
    BY <1>3
  <2> HIDE DEF p
  <2> QED
    BY <1>1, <2>1, <2>2, <2>3, SeamDeclines
<1> QED
  BY <1>1, <1>2, <1>3 DEF CombinationSearch

LEMMA ProbeSideKeeps ==
  ASSUME Inv, ProbeSide, Others
  PROVE  Inv'
<1>1. NextSide \in Sides
  BY DEF NextSide, Sides
<1>2. /\ PreType' /\ pre'.stage = pre.stage
      /\ pre'.tree \in {pre.tree, NextSide}
  <2>1. PreType
    BY DEF Inv
  <2> DEFINE side == NextSide
             tried == [pre EXCEPT !.tried = @ \cup {side}]
  <2>2. /\ tried \in PreTypes /\ tried.passed \subseteq tried.tried /\ side \in tried.tried
        /\ tried.tree = pre.tree /\ tried.stage = pre.stage
    BY <1>1, <2>1 DEF PreType, PreTypes
  <2>3. \/ pre' = [tried EXCEPT !.failures = TRUE]
        \/ pre' = [[tried EXCEPT !.tree = side] EXCEPT !.failures = TRUE]
        \/ pre' = [[tried EXCEPT !.tree = side] EXCEPT !.passed = @ \cup {side}]
    BY DEF ProbeSide
  <2> HIDE DEF tried, side
  <2>4. side \in Sides /\ side = NextSide
    BY <1>1 DEF side
  <2>5. CASE pre' = [tried EXCEPT !.failures = TRUE]
    BY <2>2, <2>5 DEF PreType, PreTypes
  <2>6. CASE pre' = [[tried EXCEPT !.tree = side] EXCEPT !.failures = TRUE]
    BY <2>2, <2>4, <2>6 DEF PreType, PreTypes, Trees
  <2>7. CASE pre' = [[tried EXCEPT !.tree = side] EXCEPT !.passed = @ \cup {side}]
    BY <2>2, <2>4, <2>7 DEF PreType, PreTypes, Trees
  <2> QED
    BY <2>3, <2>5, <2>6, <2>7
<1>3. At("test_gated_side") /\ UNCHANGED <<pc, unit, outcome>>
  BY DEF ProbeSide
<1>4. At("test_gated_side")' /\ pc = "cascade"
  BY <1>2, <1>3 DEF At
<1>5. Place' /\ Probing' /\ ConflictShown' /\ Locals' /\ CarriedType'
  BY <1>1, <1>2, <1>3, <1>4 DEF Inv, Others, Place, Probing, ConflictShown, AcceptedBy,
     Locals, AtType, HistType, Recoveries, Extra, CarriedType
<1>6. Ends'
  BY <1>3 DEF Inv, Ends, AcceptedPassed, NoHardFailure, StrictObeyed, AcceptedBy,
     JudgedLosesNoDependency
<1> QED
  BY <1>2, <1>5, <1>6 DEF Inv

LEMMA ProbeRaisesKeeps ==
  ASSUME Inv, ProbeRaises, Others
  PROVE  Inv'
<1> DEFINE p == [pre EXCEPT !.tree = "left", !.failures = FALSE, !.tried = {}, !.passed = {}]
<1>1. PreType /\ pc = "cascade" /\ UNCHANGED unit /\ DeclineTo(p)
  BY DEF Inv, ProbeRaises, At
<1>2. p \in PreTypes /\ p.tree = "left" /\ p.passed = {}
  BY <1>1 DEF PreType, PreTypes, Trees
<1> HIDE DEF p
<1> QED
  BY <1>1, <1>2, SeamDeclines

LEMMA PickSideKeeps ==
  ASSUME Inv, PickSide, Others
  PROVE  Inv'
<1>1. PICK v \in Passing : StrictAllows(v) /\ Accept("test_gated_side", "region", v)
  BY DEF PickSide
<1>2. PreType'
  BY DEF PickSide, Inv, PreType
<1> QED
  BY <1>1, <1>2, NamedMechanisms, PassingKeeps, SeamAccepts DEF Accept, PickSide

LEMMA PickNoneKeeps ==
  ASSUME Inv, PickNone, Others
  PROVE  Inv'
<1>1. PreType /\ pc = "cascade" /\ UNCHANGED unit
  BY DEF Inv, PickNone, Probed, At
<1>3. PICK p \in PutBack(pre) : DeclineTo(p) \/ DeclineTo([p EXCEPT !.failures = FALSE])
  BY DEF PickNone
<1> DEFINE q == [p EXCEPT !.failures = FALSE]
<1>2. p \in PreTypes /\ p.tree \in {"conflict", "emptied"} /\ p.passed = {}
  BY <1>1, <1>3 DEF PutBack, PreType, PreTypes, Trees
<1>4. q \in PreTypes /\ q.tree \in {"conflict", "emptied"} /\ q.passed = {}
  BY <1>2 DEF PreTypes
<1>5. DeclineTo(p) \/ DeclineTo(q)
  BY <1>3
<1> HIDE DEF q
<1> QED
  BY <1>1, <1>2, <1>4, <1>5, SeamDeclines

LEMMA CascadeKeeps ==
  ASSUME Inv, CascadeStep, Others
  PROVE  Inv'
  BY ReplayKeeps, ExactReuseKeeps, StructuralResolveKeeps, DeferredCoreKeeps,
     CombinationSearchKeeps, GeneratorsKeep, ProbeSideKeeps, ProbeRaisesKeeps,
     PickSideKeeps, PickNoneKeeps DEF CascadeStep

-----------------------------------------------------------------------------
(* One call of the model, and what is tried before the policy is asked. *)

LEMMA CascadeDeclinesKeeps ==
  ASSUME Inv, CascadeDeclines
  PROVE  Inv'
<1>1. /\ pc = "cascade" /\ pc' = "top" /\ UNCHANGED <<round, unit, count, hist, carried, outcome>>
      /\ pre' = [pre EXCEPT !.failures = FALSE] /\ at' = [at EXCEPT !.failures = pre.failures]
      /\ pre.stage = Guard
  BY DEF CascadeDeclines
<1>2. PreType' /\ pre'.tree = pre.tree
  BY <1>1 DEF Inv, PreType, PreTypes
<1>3. pre.tree \in {"conflict", "left", "emptied"}
  BY <1>1, GuardFits DEF Inv, Probing, At
<1>4. pre.failures \in BOOLEAN
  BY DEF Inv, PreType, PreTypes
<1>5. AtType' /\ at'.why = at.why
  BY <1>1, <1>4 DEF Inv, Locals, AtType
<1>6. Locals'
  BY <1>1, <1>5 DEF Inv, Locals, HistType, Recoveries, Extra
<1>7. Place' /\ Probing' /\ ConflictShown' /\ CarriedType' /\ Ends'
  BY <1>1, <1>2, <1>3 DEF Inv, Place, Probing, ConflictShown, CarriedType, Ends,
     AcceptedPassed, NoHardFailure, StrictObeyed, AcceptedBy, JudgedLosesNoDependency
<1> QED
  BY <1>2, <1>6, <1>7 DEF Inv

LEMMA GivesUp ==
  ASSUME Inv, Oversized \/ TimeIsUp
  PROVE  Inv'
<1>1. CASE Oversized
  BY <1>1, GivenUp DEF Oversized
<1>2. CASE TimeIsUp
  BY <1>2, GivenUp DEF TimeIsUp
<1> QED
  BY <1>1, <1>2

LEMMA StashLaterFits ==
  ASSUME Inv, NEW passed \in BOOLEAN
  PROVE  /\ StashLater(passed) \in {"none", "kept", "worse", "better"}
         /\ StashLater(passed) # "none" => carried.stash.verdict.hard = {}
  BY DEF StashLater, Inv, CarriedType

\* What may become of an answer of the model has the shape of a candidate.
LEMMA CandidateFits ==
  ASSUME NEW c \in Answers
  PROVE  c \in [text : Known, kind : Kinds, refuses : BOOLEAN, suspects : BOOLEAN]
<1>1. c \in Candidates
  BY UnitAssumption
<1> QED
  BY <1>1 DEF Candidates, Known

LEMMA VerdictsFit == Verdicts \subseteq VerdictType
<1>1. \A v \in Verdicts : v.hard \subseteq Validators /\ v.warns \subseteq Validators
  BY DEF Validators
<1> QED
  BY <1>1, CascadeAssumption DEF Verdict, VerdictType

LEMMA VerdictFits ==
  ASSUME Inv, NEW c \in Answers, NEW v \in VerdictsOf(c)
  PROVE  v \in VerdictType
<1>1. Refusal(c) \in SUBSET Validators
  BY DEF Refusal, Validators
<1>2. CASE c.text = NoText
  <2>1. PICK w \in {{}, {"verifier_model"}} : v = Verdict({"empty"} \cup Refusal(c), w)
    BY <1>2 DEF VerdictsOf
  <2>2. {"empty"} \cup Refusal(c) \in SUBSET Validators /\ w \in SUBSET Validators
    BY <1>1, <2>1 DEF Validators
  <2> QED
    BY <2>1, <2>2 DEF Verdict, VerdictType
<1>3. CASE c.text # NoText /\ c.text \in DOMAIN hist.memo
  BY <1>3 DEF VerdictsOf, Inv, Locals, HistType
<1>4. CASE c.text # NoText /\ c.text \notin DOMAIN hist.memo
  <2>1. PICK w \in Verdicts : v = Verdict(w.hard \cup Refusal(c), w.warns)
    BY <1>4 DEF VerdictsOf
  <2> QED
    BY <1>1, <2>1, VerdictsFit DEF Verdict, VerdictType
<1> QED
  BY <1>2, <1>3, <1>4

LEMMA FinalFits ==
  ASSUME Inv, NEW c \in Answers, NEW v \in VerdictsOf(c), NEW f \in Finals(c, v)
  PROVE  /\ f.cand \in [text : Known, kind : Kinds, refuses : BOOLEAN, suspects : BOOLEAN]
         /\ f.hashed \in Known /\ f.verdict \in VerdictType
         /\ DOMAIN f.memo \subseteq Texts /\ \A t \in DOMAIN f.memo : f.memo[t] \in VerdictType
<1>1. /\ c \in [text : Known, kind : Kinds, refuses : BOOLEAN, suspects : BOOLEAN]
      /\ v \in VerdictType
  BY CandidateFits, VerdictFits
<1>2. \/ \E n : f = Judged(c, v, n)
      \/ \E w \in {u.warns : u \in {x \in Verdicts : x.hard = {}}} : \E n : f = Replaced(c, v, w, n)
  BY DEF Finals
<1>3. DOMAIN MemoOf(c, v) \subseteq Texts /\ \A t \in DOMAIN MemoOf(c, v) : MemoOf(c, v)[t] \in VerdictType
  BY <1>1 DEF MemoOf, Memoized, Inv, Locals, HistType
<1>4. \A n : /\ Judged(c, v, n).cand = c /\ Judged(c, v, n).hashed = c.text
             /\ Judged(c, v, n).verdict = v /\ Judged(c, v, n).memo = MemoOf(c, v)
  BY DEF Judged
<1>5. \A n, w : /\ Replaced(c, v, w, n).cand = Answer(Fresh, "", FALSE, FALSE)
                /\ Replaced(c, v, w, n).hashed = c.text
                /\ Replaced(c, v, w, n).verdict = Verdict({}, w)
                /\ Replaced(c, v, w, n).memo = MemoOf(c, v)
  BY DEF Replaced, Judged
<1>6. Answer(Fresh, "", FALSE, FALSE)
        \in [text : Known, kind : Kinds, refuses : BOOLEAN, suspects : BOOLEAN]
  BY DEF Answer, Known, Kinds
<1>7. \A u \in Verdicts : Verdict({}, u.warns) \in VerdictType
  BY VerdictsFit DEF Verdict, VerdictType
<1>8. CASE \E n : f = Judged(c, v, n)
  BY <1>1, <1>3, <1>4, <1>8
<1>9. CASE \E w \in {u.warns : u \in {x \in Verdicts : x.hard = {}}} : \E n : f = Replaced(c, v, w, n)
  <2>1. PICK u \in Verdicts : \E n : f = Replaced(c, v, u.warns, n)
    BY <1>9
  <2>2. PICK n : f = Replaced(c, v, u.warns, n)
    BY <2>1
  <2> QED
    BY <1>1, <1>3, <1>5, <1>6, <1>7, <2>2
<1> QED
  BY <1>2, <1>8, <1>9

LEMMA CountedKeeps ==
  ASSUME Inv, pc = "top", NEW c \in Answers, NEW v \in VerdictsOf(c), NEW f \in Finals(c, v),
         Counted(f), UNCHANGED <<round, unit, pre>>
  PROVE  Inv'
<1>1. f.verdict \in VerdictType /\ f.hashed \in Known
  BY FinalFits
<1>2. AtType' /\ at'.why = at.why
  BY FinalFits DEF Counted, Inv, Locals, AtType
<1>3. HistType' /\ ("emptyRecovery" \in hist.latches => "emptyRecovery" \in hist'.latches)
  <2>1. HistType
    BY DEF Inv, Locals
  <2>2. hist' = [hist EXCEPT
           !.memo = f.memo,
           !.first = IF @ < 0 THEN f.fails ELSE @,
           !.latches = IF "dup" \in f.verdict.hard /\ unit.deletes
                       THEN @ \cup {"advised"} ELSE @,
           !.seen = [t \in Texts |-> IF t = f.hashed THEN Limited(@[t] + 1) ELSE @[t]]]
    BY DEF Counted
  <2>3. hist'.seen \in [Texts -> 0..Ceiling]
    BY <2>1, <2>2, LimitedFits DEF HistType
  <2> QED
    BY <2>1, <2>2, <2>3, FinalFits DEF HistType
<1>4. Recoveries'
  <2>1. Recoveries /\ count' = count /\ pc' = "counted"
    BY DEF Counted, Inv, Locals
  <2>2. Extra \in {0, 1} /\ Extra' \in {0, 1} /\ Extra <= Extra'
    BY <1>3 DEF Extra
  <2>3. MaxRecovery \in Nat
    BY CeilingFits
  <2> QED
    BY <2>1, <2>2, <2>3 DEF Recoveries
<1>5. CarriedType'
  <2>1. CarriedType
    BY DEF Inv
  <2>2. PICK later : /\ later \in {"none", "kept", "worse", "better"}
                     /\ later # "none" => carried.stash.verdict.hard = {}
                     /\ carried' = [carried EXCEPT
                          !.stash.later = later,
                          !.norms = [t \in Texts |-> IF t = Normal(f)
                                                      THEN Least(@[t] + 1, Threshold) ELSE @[t]]]
    BY StashLaterFits DEF Counted
  <2>3. carried'.norms \in [Texts -> 0..Threshold]
    BY <2>1, <2>2, CeilingFits DEF CarriedType, Least
  <2> QED
    BY <2>1, <2>2, <2>3 DEF CarriedType
<1>6. Place' /\ PreType' /\ Probing' /\ ConflictShown' /\ Ends'
  BY DEF Counted, Inv, Place, PreType, Probing, ConflictShown, Ends,
     AcceptedPassed, NoHardFailure, StrictObeyed, AcceptedBy, JudgedLosesNoDependency
<1> QED
  BY <1>2, <1>3, <1>4, <1>5, <1>6 DEF Inv, Locals

LEMMA PassingEnds ==
  ASSUME Inv, NEW by, by \notin StrictAsked \cup JudgedBy, NEW fills \in {"region", "window", "file"},
         AcceptPassing(by, fills), Returns, CarriedType', UNCHANGED <<round, unit, pre>>
  PROVE  Inv'
<1>1. PICK v \in Passing : Accept(by, fills, v)
  BY DEF AcceptPassing
<1>2. Keeps(by, v, FALSE)
  BY DEF Keeps, Passing, Seen
<1> QED
  BY <1>1, <1>2, AcceptedEnd

\* The other ways a text is accepted for having passed.
LEMMA PassedOnly ==
  {"duplicates dropped", "header repair", "fast fail", "shatter", "side takeover"}
    \cap (StrictAsked \cup JudgedBy) = {}
  BY TheMechanisms DEF StrictAsked, JudgedBy

LEMMA DrawKeeps ==
  ASSUME Inv, NEW c \in Answers, NEW v \in VerdictsOf(c), Draw(c, v)
  PROVE  Inv'
<1>1. PICK f \in Finals(c, v) : Counted(f) \/ DropDuplicates(f)
  BY DEF Draw
<1>2. pc = "top" /\ UNCHANGED <<round, unit, pre>>
  BY DEF Draw
<1>3. CASE Counted(f)
  BY <1>2, <1>3, CountedKeeps
<1>4. CASE DropDuplicates(f)
  <2>1. CarriedType'
    <3>1. PICK later : /\ later \in {"none", "kept", "worse", "better"}
                       /\ later # "none" => carried.stash.verdict.hard = {}
                       /\ carried' = [carried EXCEPT !.stash.later = later]
      BY <1>4, StashLaterFits DEF DropDuplicates
    <3> QED
      BY <3>1 DEF Inv, CarriedType
  <2> QED
    BY <1>2, <1>4, <2>1, PassingEnds, PassedOnly DEF DropDuplicates
<1> QED
  BY <1>1, <1>3, <1>4

\* Every way out that takes the attempt as it stands.
LEMMA AttemptEnds ==
  ASSUME Inv, NEW by, Accept(by, "region", at.verdict), Keeps(by, at.verdict, FALSE),
         Returns, UNCHANGED <<round, unit, pre>>,
         \/ UNCHANGED carried
         \/ carried' = [carried EXCEPT !.stash = [later |-> "none", verdict |-> Clean]]
  PROVE  Inv'
<1>1. CarriedType'
  <2>1. Clean \in VerdictType /\ CarriedType
    BY DEF Clean, Verdict, VerdictType, Inv
  <2> QED
    BY <2>1 DEF CarriedType
<1> QED
  BY <1>1, AcceptedEnd

LEMMA NoDependency ==
  ASSUME Passed, AdvisoryOnly, NEW by \in JudgedBy \ {"risk"}
  PROVE  Keeps(by, at.verdict, FALSE)
<1>1. at.verdict.warns \cap Dependency = {}
  BY DEF AdvisoryOnly, Advisory, Dependency
<1>2. by \notin StrictAsked
  BY TheMechanisms DEF StrictAsked, JudgedBy
<1> QED
  BY <1>1, <1>2 DEF Keeps, Seen, Passed

LEMMA AcceptDeletionKeeps ==
  ASSUME Inv, AcceptDeletion
  PROVE  Inv'
<1>1. Keeps("deletion", at.verdict, FALSE)
  BY TheMechanisms DEF Keeps, StrictAsked, JudgedBy
<1> QED
  BY <1>1, AttemptEnds DEF AcceptDeletion

LEMMA EscapesKeep ==
  ASSUME Inv, ConvergenceEscape \/ ZeroBudgetEscape
  PROVE  Inv'
<1>1. CASE ConvergenceEscape
  BY <1>1, NoDependency, AttemptEnds DEF ConvergenceEscape, Cycling, JudgedBy
<1>2. CASE ZeroBudgetEscape
  BY <1>2, NoDependency, AttemptEnds DEF ZeroBudgetEscape, ZeroBudget, JudgedBy
<1> QED
  BY <1>1, <1>2

LEMMA CarriedStays == Inv /\ UNCHANGED carried => CarriedType'
  BY DEF Inv, CarriedType

LEMMA PassersKeep ==
  ASSUME Inv, HeaderRepairs \/ (\E fills \in {"region", "file"} : FastFail(fills))
  PROVE  Inv'
<1>1. CASE HeaderRepairs
  BY <1>1, PassedOnly, PassingEnds, CarriedStays DEF HeaderRepairs
<1>2. CASE \E fills \in {"region", "file"} : FastFail(fills)
  BY <1>2, PassedOnly, PassingEnds, CarriedStays DEF FastFail
<1> QED
  BY <1>1, <1>2

\* A step within the loop, to a place that is not the choice of the next attempt.
LEMMA WithinLoop ==
  ASSUME Inv, pc \in {"top", "counted", "capped", "decide", "retry", "turn"},
         pc' \in {"top", "counted", "capped", "decide", "retry", "turn"},
         UNCHANGED <<round, unit, pre, outcome>>, CarriedType', Locals'
  PROVE  Inv'
<1>1. Place' /\ PreType' /\ Probing' /\ ConflictShown' /\ Ends'
  BY DEF Inv, Place, PreType, Probing, ConflictShown, Ends,
     AcceptedPassed, NoHardFailure, StrictObeyed, AcceptedBy, JudgedLosesNoDependency
<1> QED
  BY <1>1 DEF Inv

LEMMA Latching ==
  ASSUME Inv, NEW latch, hist' = [hist EXCEPT !.latches = @ \cup {latch}],
         UNCHANGED <<at, count>>, pc' \in {"capped", "decide"}
  PROVE  Locals'
<1>1. HistType' /\ ("emptyRecovery" \in hist.latches => "emptyRecovery" \in hist'.latches)
  BY DEF Inv, Locals, HistType
<1>2. Extra \in {0, 1} /\ Extra' \in {0, 1} /\ Extra <= Extra'
  BY <1>1 DEF Extra
<1>3. Recoveries'
  BY <1>2, CeilingFits DEF Inv, Locals, Recoveries
<1>4. AtType'
  BY DEF Inv, Locals, AtType
<1> QED
  BY <1>1, <1>3, <1>4 DEF Locals

LEMMA HeaderKeeps ==
  ASSUME Inv, HeaderExtraTurn \/ HeaderRecovers \/ HeaderEscalates
  PROVE  Inv'
<1>1. CASE HeaderExtraTurn
  BY <1>1, Latching, CarriedStays, WithinLoop DEF HeaderExtraTurn
<1>2. CASE HeaderRecovers
  <2>1. CarriedType'
    BY <1>2 DEF HeaderRecovers, Inv, CarriedType
  <2>2. Locals'
    BY <1>2 DEF HeaderRecovers, Inv, Locals, AtType, HistType, Recoveries, Extra
  <2> QED
    BY <1>2, <2>1, <2>2, WithinLoop DEF HeaderRecovers
<1>3. CASE HeaderEscalates
  BY <1>3, GivenUp DEF HeaderEscalates
<1> QED
  BY <1>1, <1>2, <1>3

LEMMA AtTheCapKeeps ==
  ASSUME Inv, AtTheCap
  PROVE  Inv'
<1> DEFINE boundary == count.retry = EffBudget
<1>1. pc \in {"counted", "capped"} /\ UNCHANGED <<round, unit>>
  BY DEF AtTheCap, BelowHeaderCap
<1>2. CASE /\ pc' = "decide" /\ hist' = [hist EXCEPT !.latches = @ \cup {"progress"}]
           /\ UNCHANGED <<pre, at, count, carried, outcome>>
  BY <1>1, <1>2, Latching, CarriedStays, WithinLoop
<1>3. CASE /\ CapAdvisory /\ Accept("cap boundary", "region", at.verdict)
           /\ Returns /\ UNCHANGED <<pre, carried>>
  BY <1>1, <1>3, NoDependency, AttemptEnds DEF CapAdvisory, JudgedBy
<1>4. CASE EndWithout("unit cap", carried) /\ Returns
  BY <1>1, <1>4, GivenUp
<1> QED
  BY <1>2, <1>3, <1>4 DEF AtTheCap

LEMMA JudgeKeeps ==
  ASSUME Inv, Judge
  PROVE  Inv'
  BY AcceptDeletionKeeps, EscapesKeep, PassersKeep, HeaderKeeps, AtTheCapKeeps DEF Judge

-----------------------------------------------------------------------------
(* The policy, and the next attempt. *)

LEMMA AtRiskFits == AtRisk => pc \in {"counted", "capped", "decide"}
  BY DEF AtRisk, BelowHeaderCap

LEMMA DecideAcceptKeeps ==
  ASSUME Inv, NEW sure, NEW split, DecideAccept(sure, split)
  PROVE  Inv'
<1>1. Passed /\ at.verdict.warns \cap ContentLoss = {} /\ StrictAllows(at.verdict)
  BY DecisionFits DEF DecideAccept
<1>2. at.verdict.warns \cap Dependency = {}
  BY <1>1 DEF ContentLoss
<1>3. Keeps("risk", at.verdict, FALSE)
  BY <1>1, <1>2 DEF Keeps, Seen, Passed, StrictAllows
<1> QED
  BY <1>3, AttemptEnds DEF DecideAccept

LEMMA StrictRefusesKeeps ==
  ASSUME Inv, NEW sure, NEW split, StrictRefuses(sure, split)
  PROVE  Inv'
  BY AtRiskFits, GivenUp DEF StrictRefuses

LEMMA SignedFits ==
  ASSUME Inv
  PROVE  Signed \in Seq(SUBSET Validators) /\ Len(Signed) <= Window
<1>1. carried.sigs \in Seq(SUBSET Validators) /\ Len(carried.sigs) <= Window
  BY DEF Inv, CarriedType
<1>2. Signature \in SUBSET Validators
  BY DEF Signature, Inv, Locals, AtType, VerdictType, Validators
<1> DEFINE all == Append(carried.sigs, Signature)
           extra == Most(0, Len(all) - Window)
<1>3. all \in Seq(SUBSET Validators) /\ Len(all) = Len(carried.sigs) + 1
  BY <1>1, <1>2, AppendProperties
<1> HIDE DEF all
<1>4. extra \in Nat /\ Len(all) \in Nat /\ Len(all) - extra <= Window /\ Window \in Nat
  BY <1>1, <1>3, CeilingFits DEF Most
<1> HIDE DEF extra
<1>5. \A i \in extra + 1..Len(all) : all[i] \in SUBSET Validators
  BY <1>3, <1>4
<1>6. /\ SubSeq(all, extra + 1, Len(all)) \in Seq(SUBSET Validators)
      /\ Len(SubSeq(all, extra + 1, Len(all))) <= Window
  BY <1>4, <1>5, SubSeqProperties
<1>7. Signed = carried.sigs \/ Signed = SubSeq(all, extra + 1, Len(all))
  BY DEF Signed, all, extra
<1> QED
  BY <1>1, <1>6, <1>7

LEMMA RememberedFits ==
  ASSUME Inv, NEW h, hist' = Remembered(h),
         h = hist \/ h = Granted(hist)
  PROVE  HistType' /\ hist'.latches = h.latches
<1>1. HistType
  BY DEF Inv, Locals
<1>2. /\ h = [memo |-> h.memo, seen |-> h.seen, empties |-> h.empties,
              defects |-> h.defects, first |-> h.first, latches |-> h.latches]
      /\ h.memo = hist.memo /\ h.seen = hist.seen /\ h.empties \in 0..2 /\ h.defects \in 0..1
  BY <1>1 DEF HistType, Granted
<1>3. Least(h.empties + 1, 2) \in 0..2
  BY <1>2 DEF Least
<1>4. PICK e, d : /\ e \in {h.empties, Least(h.empties + 1, 2)} /\ d \in {h.defects, 1}
                  /\ hist' = [h EXCEPT !.empties = e, !.defects = d]
  BY DEF Remembered
<1>5. e \in 0..2 /\ d \in 0..1
  BY <1>2, <1>3, <1>4
<1> QED
  BY <1>1, <1>2, <1>4, <1>5 DEF HistType

LEMMA RecoveryGranted ==
  ASSUME Inv, "emptyRecovery" \notin hist.latches, "emptyRecovery" \in hist'.latches,
         count' = [count EXCEPT !.recovery = Limited(@ + 1)]
  PROVE  /\ count' \in [{"retry", "critic", "recovery"} -> 0..Ceiling]
         /\ count'.recovery <= MaxRecovery + Extra'
         /\ count.recovery < MaxRecovery => count'.recovery < MaxRecovery + Extra'
<1>1. count \in [{"retry", "critic", "recovery"} -> 0..Ceiling] /\ count.recovery <= MaxRecovery
  BY CeilingFits DEF Inv, Locals, Recoveries, Extra
<1>2. count.recovery \in 0..Ceiling
  BY <1>1
<1>3. Limited(count.recovery + 1) \in 0..Ceiling /\ Limited(count.recovery + 1) <= count.recovery + 1
  BY <1>2, LimitedFits
<1>4. count' \in [{"retry", "critic", "recovery"} -> 0..Ceiling]
      /\ count'.recovery = Limited(count.recovery + 1)
  BY <1>1, <1>3
<1>5. Extra' = 1
  BY DEF Extra
<1> QED
  BY <1>1, <1>2, <1>3, <1>4, <1>5, CeilingFits

LEMMA DecideEscalateKeeps ==
  ASSUME Inv, NEW sure, NEW split, DecideEscalate(sure, split)
  PROVE  Inv'
<1>1. pc \in {"counted", "capped", "decide"} /\ UNCHANGED <<round, unit>>
  BY AtRiskFits DEF DecideEscalate
<1>2. CASE EndWithout("risk", carried) /\ Returns
  BY <1>1, <1>2, GivenUp
<1>3. CASE /\ GrantDue(hist) /\ pc' = "retry"
           /\ at' = [at EXCEPT !.why = "granted"]
           /\ count' = [count EXCEPT !.recovery = Limited(@ + 1)]
           /\ hist' = Remembered(Granted(hist))
           /\ carried' = [carried EXCEPT !.sigs = Signed]
           /\ UNCHANGED <<pre, outcome>>
  <2>1. AtType' /\ at'.why = "granted"
    BY <1>3 DEF Inv, Locals, AtType
  <2>2. HistType' /\ hist'.latches = Granted(hist).latches
    BY <1>3, RememberedFits
  <2>3. "emptyRecovery" \notin hist.latches /\ "emptyRecovery" \in hist'.latches
    BY <1>3, <2>2 DEF GrantDue, Granted, Inv, Locals, HistType
  <2>4. Recoveries'
    BY <1>3, <2>1, <2>3, RecoveryGranted DEF Recoveries
  <2>5. CarriedType'
    BY <1>3, SignedFits DEF Inv, CarriedType
  <2> QED
    BY <1>1, <1>3, <2>1, <2>2, <2>4, <2>5, WithinLoop DEF Locals
<1> QED
  BY <1>2, <1>3 DEF DecideEscalate

LEMMA DecideRetryKeeps ==
  ASSUME Inv, NEW sure, NEW split, DecideRetry(sure, split)
  PROVE  Inv'
<1>1. pc \in {"counted", "capped", "decide"} /\ pc' = "retry"
      /\ UNCHANGED <<round, unit, pre, count, outcome>>
  BY AtRiskFits DEF DecideRetry
<1>2. at' = [at EXCEPT !.why = Decision(sure, split)] /\ Decision(sure, split) \in {"retry", "recover"}
  BY DEF DecideRetry
<1>3. AtType' /\ at'.why = Decision(sure, split)
  BY <1>2 DEF Inv, Locals, AtType
<1>4. HistType' /\ hist'.latches = hist.latches
  BY RememberedFits DEF DecideRetry
<1>5. Extra' = Extra /\ Extra \in {0, 1}
  BY <1>4 DEF Extra
<1>6. count \in [{"retry", "critic", "recovery"} -> 0..Ceiling] /\ count.recovery <= MaxRecovery + Extra
  BY DEF Inv, Locals, Recoveries
<1>7. Recoveries'
  <2>1. at'.why = "recover" => count.recovery < MaxRecovery
    BY <1>3, DecisionFits
  <2> QED
    BY <1>1, <1>5, <1>6, <2>1, CeilingFits DEF Recoveries
<1>8. CarriedType'
  <2>1. CarriedType /\ at.verdict \in VerdictType
    BY DEF Inv, Locals, AtType
  <2>2. PICK stash : /\ carried' = [carried EXCEPT !.sigs = Signed, !.stash = stash]
                     /\ \/ stash = carried.stash
                        \/ Passed /\ stash = [later |-> "kept", verdict |-> at.verdict]
    BY DEF DecideRetry
  <2>3. /\ stash \in [later : {"none", "kept", "worse", "better"}, verdict : VerdictType]
        /\ stash.later # "none" => stash.verdict.hard = {}
    BY <2>1, <2>2 DEF CarriedType, Passed
  <2> QED
    BY <2>1, <2>2, <2>3, SignedFits DEF CarriedType
<1> QED
  BY <1>1, <1>3, <1>4, <1>7, <1>8, WithinLoop DEF Locals

LEMMA DecideKeeps ==
  ASSUME Inv, Decide
  PROVE  Inv'
  BY DecideAcceptKeeps, StrictRefusesKeeps, DecideEscalateKeeps, DecideRetryKeeps DEF Decide

LEMMA StallKeeps ==
  ASSUME Inv, Stall
  PROVE  Inv'
<1> DEFINE shattered == [hist EXCEPT !.latches = @ \cup {"shatter"}]
<1>1. pc = "retry" /\ UNCHANGED <<round, unit>>
  BY DEF Stall
<1>2. CASE /\ \E fills \in {"region", "window"} : AcceptPassing("shatter", fills)
           /\ Returns /\ UNCHANGED <<pre, carried>>
  BY <1>1, <1>2, PassedOnly, PassingEnds, CarriedStays
<1>3. CASE AcceptPassing("side takeover", "file") /\ Returns /\ UNCHANGED <<pre, carried>>
  BY <1>1, <1>3, PassedOnly, PassingEnds, CarriedStays
<1>4. CASE /\ GrantDue(shattered) /\ pc' = "turn"
           /\ count' = [count EXCEPT !.recovery = Limited(@ + 1)]
           /\ hist' = Granted(shattered)
           /\ UNCHANGED <<pre, at, carried, outcome>>
  <2>1. HistType /\ AtType' /\ Recoveries
    BY <1>4 DEF Inv, Locals, AtType
  <2>2. HistType' /\ "emptyRecovery" \in hist'.latches
    BY <1>4, <2>1 DEF Granted, HistType
  <2>3. "emptyRecovery" \notin hist.latches
    BY <1>4, <2>1 DEF GrantDue, HistType
  <2>4. at'.why = "recover" => count.recovery < MaxRecovery
    BY <1>1, <1>4, <2>1, <2>3, CeilingFits DEF Recoveries, Extra
  <2>5. Recoveries'
    BY <1>4, <2>2, <2>3, <2>4, RecoveryGranted DEF Recoveries
  <2> QED
    BY <1>1, <1>4, <2>1, <2>2, <2>5, CarriedStays, WithinLoop DEF Locals
<1>5. CASE EndWithout("no progress", carried) /\ Returns
  BY <1>1, <1>5, GivenUp
<1> QED
  BY <1>2, <1>3, <1>4, <1>5 DEF Stall

LEMMA CirclesKeep ==
  ASSUME Inv, Circles
  PROVE  Inv'
  BY GivenUp DEF Circles, NextTurn

LEMMA ReseedKeeps ==
  ASSUME Inv, NEW worded, Reseed(worded)
  PROVE  Inv'
<1>1. pc \in {"retry", "turn"} /\ pc' = "top" /\ at' = NoAttempt(TRUE)
      /\ UNCHANGED <<round, unit, pre, hist, carried, outcome>>
  BY DEF Reseed, NextTurn
<1>2. AtType' /\ HistType'
  BY <1>1, NoAttemptFits DEF Inv, Locals, HistType
<1>3. PICK which \in {"retry", "critic", "recovery"} :
        /\ which = "recovery" => at.why = "recover"
        /\ count' = [count EXCEPT ![which] = Limited(@ + 1)]
  BY DEF Reseed
<1>4. /\ count \in [{"retry", "critic", "recovery"} -> 0..Ceiling]
      /\ count.recovery <= MaxRecovery + Extra
      /\ at.why = "recover" => count.recovery < MaxRecovery + Extra
  BY <1>1 DEF Inv, Locals, Recoveries
<1>5. count[which] \in 0..Ceiling /\ count["recovery"] \in 0..Ceiling
  BY <1>3, <1>4
<1>6. Limited(count[which] + 1) \in 0..Ceiling /\ Limited(count[which] + 1) <= count[which] + 1
  BY <1>5, LimitedFits
<1>7. count' \in [{"retry", "critic", "recovery"} -> 0..Ceiling]
  BY <1>3, <1>4, <1>6
<1>8. Extra' = Extra /\ Extra \in {0, 1} /\ MaxRecovery \in Nat /\ Ceiling \in Nat
  BY <1>1, CeilingFits DEF Extra
<1>9. count'.recovery <= MaxRecovery + Extra'
  <2>1. CASE which = "recovery"
    BY <1>3, <1>4, <1>5, <1>6, <1>8, <2>1
  <2>2. CASE which # "recovery"
    BY <1>3, <1>4, <1>8, <2>2
  <2> QED
    BY <2>1, <2>2
<1>10. Recoveries'
  BY <1>1, <1>7, <1>9 DEF Recoveries
<1> QED
  BY <1>1, <1>2, <1>10, CarriedStays, WithinLoop DEF Locals

-----------------------------------------------------------------------------
(* The step that asks for the unit. *)

LEMMA AskedAgainKeeps ==
  ASSUME Inv, AskedAgain
  PROVE  Inv'
<1>1. Place' /\ round' # 1
  BY UnitAssumption DEF AskedAgain, Inv, Place
<1>2. Locals'
  BY DEF AskedAgain, Inv, Locals, AtType, HistType, Recoveries, Extra
<1>3. CarriedType' /\ PreType' /\ Probing' /\ ConflictShown'
  BY <1>1 DEF AskedAgain, Inv, CarriedType, PreType, Probing, ConflictShown
<1>4. Ends'
  BY DEF AskedAgain, NoOutcome, Ends, AcceptedPassed, NoHardFailure, StrictObeyed,
     AcceptedBy, JudgedLosesNoDependency, JudgedBy
<1> QED
  BY <1>1, <1>2, <1>3, <1>4 DEF Inv

LEMMA LeaveKeeps ==
  ASSUME Inv, Leave
  PROVE  Inv'
<1>1. Place' /\ CarriedType' /\ PreType' /\ Probing' /\ ConflictShown'
  BY DEF Leave, Inv, Place, CarriedType, PreType, Probing, ConflictShown, AcceptedBy
<1>2. Locals'
  BY DEF Leave, Inv, Locals, AtType, HistType, Recoveries, Extra
<1>3. Ends'
  BY DEF Leave, Inv, Ends, AcceptedPassed, NoHardFailure, StrictObeyed,
     AcceptedBy, JudgedLosesNoDependency
<1> QED
  BY <1>1, <1>2, <1>3 DEF Inv

LEMMA StutterKeeps ==
  ASSUME Inv, UNCHANGED vars
  PROVE  Inv'
<1>1. Place' /\ CarriedType' /\ PreType' /\ Probing' /\ ConflictShown'
  BY DEF vars, Inv, Place, CarriedType, PreType, Probing, At, ConflictShown, AcceptedBy
<1>2. Locals'
  BY DEF vars, Inv, Locals, AtType, HistType, Recoveries, Extra
<1>3. Ends'
  BY DEF vars, Inv, Ends, AcceptedPassed, NoHardFailure, StrictObeyed,
     AcceptedBy, JudgedLosesNoDependency
<1> QED
  BY <1>1, <1>2, <1>3 DEF Inv

LEMMA InitInv == Init => Inv
<1> SUFFICES ASSUME Init PROVE Inv
  OBVIOUS
<1>1. Place
  BY UnitAssumption DEF Init, Place
<1>2. Locals
  <2>1. AtType /\ at.why = "none"
    <3>1. Answer(NoText, "", FALSE, FALSE)
            \in [text : Known, kind : Kinds, refuses : BOOLEAN, suspects : BOOLEAN]
      BY DEF Answer, Known, Kinds
    <3>2. Clean \in VerdictType
      BY DEF Clean, Verdict, VerdictType
    <3> QED
      BY <3>1, <3>2 DEF Init, NoAttempt, AtType, Known
  <2>2. HistType
    BY CeilingFits DEF Init, NewHist, HistType
  <2>3. Recoveries
    <3>1. count \in [{"retry", "critic", "recovery"} -> 0..Ceiling] /\ count.recovery = 0
      BY CeilingFits DEF Init, NewCount
    <3>2. MaxRecovery \in Nat /\ Extra \in {0, 1}
      BY CeilingFits DEF Extra
    <3> QED
      BY <2>1, <3>1, <3>2 DEF Recoveries
  <2> QED
    BY <2>1, <2>2, <2>3 DEF Locals
<1>3. CarriedType
  <2>1. Clean \in VerdictType
    BY DEF Clean, Verdict, VerdictType
  <2>2. << >> \in Seq(SUBSET Validators) /\ Len(<< >>) = 0
    BY EmptySeq
  <2> QED
    BY <2>1, <2>2, CeilingFits DEF Init, CarriedType
<1>4. PreType /\ pre.tree = "conflict"
  <2>1. NextStage(0, FALSE) \in 1..Guard
    <3>1. 0 \in 0..Guard
      BY GuardFits
    <3> QED
      BY <3>1, StageFits, Zenon
  <2> QED
    BY <2>1 DEF Init, Untried, PreType, PreTypes, Trees
<1>5. Probing /\ ConflictShown
  BY <1>4 DEF Init, Probing, ConflictShown
<1>6. Ends
  BY DEF Init, NoOutcome, Ends, AcceptedPassed, NoHardFailure, StrictObeyed,
     AcceptedBy, JudgedLosesNoDependency, JudgedBy
<1> QED
  BY <1>1, <1>2, <1>3, <1>4, <1>5, <1>6 DEF Inv

LEMMA StepInv == Inv /\ [Next]_vars => Inv'
<1> SUFFICES ASSUME Inv, [Next]_vars PROVE Inv'
  OBVIOUS
<1>1. CASE Call
  <2>1. CASE CascadeStep /\ Others
    BY <2>1, CascadeKeeps
  <2>2. CASE Attempt
    BY <2>2, DrawKeeps DEF Attempt
  <2>3. CASE Judge \/ Decide
    BY <2>3, JudgeKeeps, DecideKeeps
  <2>4. CASE Stall \/ Circles \/ \E worded \in BOOLEAN : Reseed(worded)
    BY <2>4, StallKeeps, CirclesKeep, ReseedKeeps
  <2>5. CASE CascadeDeclines \/ Oversized \/ TimeIsUp
    BY <2>5, CascadeDeclinesKeeps, GivesUp
  <2> QED
    BY <1>1, <2>1, <2>2, <2>3, <2>4, <2>5 DEF Call, Others
<1>2. CASE AskedAgain
  BY <1>2, AskedAgainKeeps
<1>3. CASE Leave
  BY <1>3, LeaveKeeps
<1>4. CASE UNCHANGED vars
  BY <1>4, StutterKeeps
<1> QED
  BY <1>1, <1>2, <1>3, <1>4 DEF Next

THEOREM Invariant == Spec => []Inv
<1> QED
  BY InitInv, StepInv, PTL DEF Spec

-----------------------------------------------------------------------------
(* What it says of a resolution. *)

\* The state has its types, and the recovery turns exceed what the policy allows
\* by at most the one granted to a unit that has only had empty answers.
THEOREM UnitTypes == Spec => []TypeOK
<1>1. Inv => TypeOK
  <2> SUFFICES ASSUME Inv PROVE TypeOK
    OBVIOUS
  <2>1. count.recovery <= MaxRecovery + 1
    <3>1. Extra \in {0, 1} /\ MaxRecovery \in Nat
      BY CeilingFits DEF Extra
    <3>2. count.recovery \in 0..Ceiling /\ count.recovery <= MaxRecovery + Extra
      BY DEF Inv, Locals, Recoveries
    <3> QED
      BY <3>1, <3>2, CeilingFits
  <2>2. /\ pre.stage \in 1..Guard /\ pre.passed \subseteq pre.tried /\ pre.tried \subseteq Sides
        /\ pre.tree \in {"conflict", "left", "emptied", "fragment"} \cup Sides
    BY DEF Inv, PreType, PreTypes, Trees
  <2>3. at.cand.kind \in Kinds /\ at.hashed \in Texts \cup {Fresh, NoText}
        /\ at.failures \in BOOLEAN /\ at.why \in {"none", "retry", "recover", "granted"}
    BY DEF Inv, Locals, AtType, Known
  <2>4. /\ DOMAIN hist.memo \subseteq Texts /\ hist.seen \in [Texts -> 0..Ceiling]
        /\ hist.empties \in 0..2 /\ hist.defects \in 0..1
    BY DEF Inv, Locals, HistType
  <2>5. /\ carried.norms \in [Texts -> 0..Threshold] /\ Len(carried.sigs) <= Window
        /\ carried.stash.later \in {"none", "kept", "worse", "better"}
    BY DEF Inv, CarriedType
  <2>6. count \in [{"retry", "critic", "recovery"} -> 0..Ceiling]
    BY DEF Inv, Locals, Recoveries
  <2> QED
    BY <2>1, <2>2, <2>3, <2>4, <2>5, <2>6 DEF TypeOK, Inv, Place, Ends
<1> QED
  BY <1>1, Invariant, PTL

\* No way out accepts a text with a hard failure standing that its verification
\* looks for, and the strict modes are obeyed where they are asked in full.
THEOREM NothingFailedIsAccepted == Spec => []AcceptedPassed
<1>1. Inv => AcceptedPassed
  BY DEF Inv, Ends
<1> QED
  BY <1>1, Invariant, PTL

\* The risk policy and the escapes accept no text that drops what the base, or a
\* later commit, depends on, however long the loop has gone on and whatever budget
\* is used up.
THEOREM DependenciesAreKept == Spec => []JudgedLosesNoDependency
<1>1. Inv => JudgedLosesNoDependency
  BY DEF Inv, Ends
<1> QED
  BY <1>1, Invariant, PTL

\* When the model is asked the file shows the conflict, whatever sides the cascade
\* tried in it.
THEOREM ConflictIsShown == Spec => []ConflictShown
<1>1. Inv => ConflictShown
  BY DEF Inv
<1> QED
  BY <1>1, Invariant, PTL
=============================================================================
