---------------------------- MODULE ResolveUnit ----------------------------
(***************************************************************************)
(* How one conflict is resolved: orchestrator._resolve_unit and its core,  *)
(* with the risk policy that judges every candidate (risk.py) and the      *)
(* strictness gate behind it (policy_strictness.py).                       *)
(*                                                                         *)
(* A text is a model value and stands for its layout variants, too.  Fresh *)
(* stands for a text, and "novel" for a failure, not seen before: it is    *)
(* never equal to an earlier one.  A verdict is the set of validators that *)
(* failed hard and the set of those that warned.  Which prompt is built,   *)
(* and how a deterministic repair edits text, is left out: what counts is  *)
(* what the verifier says of the result.                                   *)
(***************************************************************************)
EXTENDS Cascade

CONSTANTS
  Texts,          \* texts a model may return more than once
  Fresh,          \* any text not returned before
  NoText,         \* an empty resolution
  Answers,        \* the model's answers considered, see Candidates
  MaxRetries, MaxCritic, MaxRecovery,  \* policy.max_*_retries_per_unit
  Threshold,      \* policy.cegis_convergence_threshold, 0 disables
  Samples,        \* model.samples: the upper limit on iterations
  WallBudget,     \* whether a wall-time budget is configured
  Sampling,       \* several candidates per call (self-consistency, two-pass)
  DeferToLadder   \* future.enable_defer_to_ladder

Kinds == {"", "request_failed", "parse_failed", "truncated", "lsp_failed",
          "empty", "model_refusal", "no_op_repair"}
Technical == {"request_failed", "parse_failed", "truncated", "lsp_failed"}

Least(a, b) == IF a < b THEN a ELSE b
Most(a, b) == IF a > b THEN a ELSE b

\* Bound: a number above every budget of this module; counters stop there.
Ceiling == 2 * Most(Most(MaxRetries, MaxCritic), Most(MaxRecovery, Samples)) + 2
NoCap == -1     \* max_retries is None

Answer(t, k, r, s) == [text |-> t, kind |-> k, refuses |-> r, suspects |-> s]

\* A failed call has no text and, unless it failed in transport, is marked
\* needs_human; an answer may refuse, doubt the validator, or repeat the
\* text it was to repair.
Candidates ==
  {a \in [text : Texts \cup {Fresh, NoText}, kind : Kinds, refuses : BOOLEAN, suspects : BOOLEAN] :
     /\ a.kind \in Technical \cup {"empty"}
          => a.text = NoText /\ ~a.suspects /\ a.refuses = (a.kind # "request_failed")
     /\ a.kind = "" => a.text # NoText /\ ~a.refuses
     /\ a.kind = "model_refusal" => a.text # Fresh /\ a.refuses /\ ~a.suspects
     /\ a.kind = "no_op_repair" => a.text \in Texts /\ ~a.refuses /\ ~a.suspects}

ASSUME UnitAssumption ==
  /\ Fresh \notin Texts /\ NoText \notin Texts \cup {Fresh}
  /\ Answers \subseteq Candidates
  /\ MaxRetries \in Nat \ {0} /\ MaxCritic \in Nat \ {0}
  /\ MaxRecovery \in Nat /\ Threshold \in Nat
  /\ Samples \in Nat \ {0}
  /\ \A u \in Units : u.cap \in {NoCap, 0, 1} /\ u.rounds \in Nat \ {0}
  /\ {WallBudget, Sampling, DeferToLadder} \subseteq BOOLEAN

VARIABLES
  round,    \* the how manyth resolution of this unit in this step
  at,       \* the attempt: [cand, hashed, verdict, fails, failures, why]
  count,    \* retry_count, critic_retry_count, recovery_retry_count
  hist,     \* what the outcome object remembers of the attempts
  carried   \* what the step and the session remember of the unit

vars == <<pc, unit, pre, outcome, round, at, count, hist, carried>>

Limited(n) == Least(n, Ceiling)

-----------------------------------------------------------------------------
(* Candidates and verdicts. *)

Refusal(c) == IF c.refuses THEN {"needs_human"} ELSE {}

\* What verify() may say of a candidate.  A text already validated in this
\* call gets the verdict it got then, whatever the new candidate says.
VerdictsOf(c) ==
  IF c.text = NoText
  THEN {Verdict({"empty"} \cup Refusal(c), w) : w \in {{}, {"verifier_model"}}}
  ELSE IF c.text \in DOMAIN hist.memo THEN {hist.memo[c.text]}
  ELSE {Verdict(v.hard \cup Refusal(c), v.warns) : v \in Verdicts}

Passed == at.verdict.hard = {}
Warned(ws) == at.verdict.warns \cap ws # {}
IsEmpty == at.cand.text = NoText

Advisory == {"preservation_heuristic", "both_sides_represented", "obligation",
             "intent_coverage", "unattributed_code"}
Dependency == {"referenced_symbol_dropped", "future_obligation"}
ContentLoss == {"both_sides_represented", "intent_coverage"} \cup Dependency
AdvisoryOnly == at.verdict.warns \subseteq Advisory

NoAttempt(failures) ==
  [cand |-> Answer(NoText, "", FALSE, FALSE), hashed |-> NoText, verdict |-> Clean,
   fails |-> 0, failures |-> failures, why |-> "none"]

-----------------------------------------------------------------------------
(* How a resolution ends. *)

NewCount == [retry |-> 0, critic |-> 0, recovery |-> 0]
NewHist ==
  [memo |-> [t \in {} |-> Clean], seen |-> [t \in Texts |-> 0],
   empties |-> 0, defects |-> 0, first |-> -1, latches |-> {}]

\* The locals of a call are gone with it.
Returns ==
  /\ count' = NewCount /\ hist' = NewHist
  /\ at' = NoAttempt(FALSE)

NoOutcome == [by |-> "none", fills |-> "none", verdict |-> Clean, fast |-> FALSE,
              deferred |-> FALSE]

\* A text is accepted on having passed: no rule of the policy looks at what it
\* warns of.
AcceptPassing(by, fills) == \E v \in Passing : Accept(by, fills, v)

\* The wrapper asks the model for the order of the sides' blocks, if only their
\* order was open, and takes what passes.
Spliced(kept) ==
  /\ \E v \in Passing : StrictAllows(v) /\ Accept("ordered_splice", "region", v)
  /\ carried' = kept /\ UNCHANGED pre

\* Else it restores a stashed candidate when every later attempt did worse.
\* An answer that names no order is the last one asked for.
NotSpliced(by, kept) ==
  /\ pc' = "ended"
  /\ \E band \in {FALSE, pre.band} : pre' = [pre EXCEPT !.band = band]
  /\ IF kept.stash.later = "worse"
     THEN /\ outcome' = [NoOutcome EXCEPT !.by = "restored", !.fills = "region",
                                         !.verdict = kept.stash.verdict]
          /\ carried' = [kept EXCEPT !.stash = [later |-> "none", verdict |-> Clean]]
     ELSE /\ outcome' = [NoOutcome EXCEPT
                           !.by = by, !.deferred = by = "header cap" /\ DeferToLadder]
          /\ carried' = kept

EndWithout(by, kept) ==
  \/ pre.band /\ Spliced(kept)
  \/ NotSpliced(by, kept)

AcceptedBy(o) == o.fills # "none"

-----------------------------------------------------------------------------
Init ==
  /\ pc = "cascade" /\ round = 1
  /\ unit \in Units /\ pre = Untried
  /\ at = NoAttempt(FALSE)
  /\ count = NewCount /\ hist = NewHist
  /\ carried = [norms |-> [t \in Texts |-> 0], sigs |-> <<>>,
                stash |-> [later |-> "none", verdict |-> Clean], capUsed |-> FALSE]
  /\ outcome = NoOutcome

\* The cascade has come to its end; the failures of a probe are the first the
\* model hears of.
CascadeDeclines ==
  /\ pc = "cascade" /\ pre.stage = Guard
  /\ pc' = "top"
  /\ at' = [at EXCEPT !.failures = pre.failures]
  /\ pre' = [pre EXCEPT !.failures = FALSE]
  /\ UNCHANGED <<round, unit, count, hist, carried, outcome>>

\* Too large for the model's window, by the sides or by the whole prompt.
Oversized ==
  /\ \/ pc = "cascade" /\ pre.stage = Guard /\ ~pre.failures
     \/ pc = "top"
  /\ EndWithout("oversized", carried)
  /\ Returns /\ UNCHANGED <<round, unit>>

-----------------------------------------------------------------------------
(* The loop: one call of the model. *)

\* Mutant: the time limit only looks at retries.
Tried_Retries == count.retry > 0

Tried == count.retry > 0 \/ count.critic > 0

\* The wall-time budget of the unit, or of its file, is used up.
TimeIsUp ==
  /\ pc = "top" /\ WallBudget /\ Tried
  /\ EndWithout("out of time", carried)
  /\ Returns /\ UNCHANGED <<round, unit>>

Memoized(c) == c.text \in Texts
MemoOf(c, v) ==
  IF Memoized(c)
  THEN [t \in DOMAIN hist.memo \cup {c.text} |-> IF t = c.text THEN v ELSE hist.memo[t]]
  ELSE hist.memo

\* What becomes of a winner c with verdict v: kept; or, when it fails, replaced
\* by another sample or by its repair, which pass.  The hash stays the winner's.
Judged(c, v, n) ==
  [cand |-> c, hashed |-> c.text, verdict |-> v, fails |-> n, memo |-> MemoOf(c, v)]
Replaced(c, v, w, n) ==
  [Judged(c, v, n) EXCEPT !.cand = Answer(Fresh, "", FALSE, FALSE),
                          !.verdict = Verdict({}, w)]
Finals(c, v) ==
  LET failing == Cardinality(v.hard)
      passing == {u.warns : u \in {x \in Verdicts : x.hard = {}}}
  IN  {Judged(c, v, failing)}
      \cup {Replaced(c, v, w, 0) : w \in IF failing > 0 /\ Sampling THEN passing ELSE {}}
      \cup {Replaced(c, v, w, failing) :
              w \in IF failing > 0 /\ c.text # NoText THEN passing ELSE {}}

\* Every attempt after a candidate was stashed is compared with it.
StashLater(passed) ==
  LET was == carried.stash.later
  IN  IF was = "none" THEN "none"
      ELSE IF passed \/ was = "better" THEN "better" ELSE "worse"

\* The normal form counted is that of the text as it is now, not of the one
\* hashed.
Normal(f) == IF f.hashed = NoText THEN NoText ELSE f.cand.text
Counted(f) ==
  /\ hist' = [hist EXCEPT
       !.memo = f.memo,
       !.first = IF @ < 0 THEN f.fails ELSE @,
       !.latches = IF "dup" \in f.verdict.hard /\ unit.deletes
                   THEN @ \cup {"advised"} ELSE @,
       !.seen = [t \in Texts |-> IF t = f.hashed THEN Limited(@[t] + 1) ELSE @[t]]]
  /\ carried' = [carried EXCEPT
       !.stash.later = StashLater(f.verdict.hard = {}),
       !.norms = [t \in Texts |-> IF t = Normal(f) THEN Least(@[t] + 1, Threshold) ELSE @[t]]]
  /\ at' = [at EXCEPT !.cand = f.cand, !.hashed = f.hashed,
                      !.verdict = f.verdict, !.fails = f.fails]
  /\ pc' = "counted"
  /\ UNCHANGED <<count, outcome>>

\* The duplicate functions a compiler named are removed, and the rest passes.
DropDuplicates(f) ==
  /\ f.cand.text # NoText /\ "dup" \in f.verdict.hard
  /\ AcceptPassing("duplicates dropped", "region")
  /\ carried' = [carried EXCEPT !.stash.later = StashLater(FALSE)]
  /\ Returns

Draw(c, v) ==
  /\ pc = "top"
  /\ \E f \in Finals(c, v) : Counted(f) \/ DropDuplicates(f)
  /\ UNCHANGED <<round, unit, pre>>

-----------------------------------------------------------------------------
(* What is tried before the risk policy is asked, in the order of the code. *)

\* After an attempt that repeated definitions of the file, an empty answer is
\* taken as the deletion then advised, if being empty is all that is wrong.
Deletion == "advised" \in hist.latches /\ IsEmpty /\ at.verdict.hard = {"empty"}

AcceptDeletion ==
  /\ pc = "counted" /\ Deletion
  /\ Accept("deletion", "region", at.verdict)
  /\ Returns /\ UNCHANGED <<round, unit, pre, carried>>

\* The same text again, up to its layout, as often as the threshold.
Repeats ==
  /\ Threshold > 0 /\ Normal(at) \in Texts
  /\ carried.norms[Normal(at)] >= Threshold

Cycling == ~IsEmpty /\ Passed /\ Repeats /\ at.verdict.warns # {} /\ AdvisoryOnly

ConvergenceEscape ==
  /\ pc = "counted" /\ Cycling
  /\ Accept("convergence escape", "region", at.verdict)
  /\ Returns /\ UNCHANGED <<round, unit, pre, carried>>

Turns == count.retry + count.critic + count.recovery
AtHeaderCap == unit.header /\ Turns > 1 /\ ~Deletion

BelowHeaderCap ==
  \/ pc = "capped"
  \/ pc = "counted" /\ ~Deletion /\ ~Cycling /\ ~AtHeaderCap

\* A stray character is deleted, or once per call a block that repeats
\* definitions, from any attempt so far; what is left passes.
HeaderRepairs ==
  /\ pc = "counted" /\ ~Cycling /\ AtHeaderCap
  /\ \/ ~Passed /\ ~IsEmpty
     \/ "dupRetried" \notin hist.latches /\ (~IsEmpty \/ hist.defects > 0)
  /\ AcceptPassing("header repair", "region")
  /\ Returns /\ UNCHANGED <<round, unit, pre, carried>>

DupTurn == "dupRetried" \notin hist.latches /\ "dup" \in at.verdict.hard

HeaderExtraTurn ==
  /\ pc = "counted" /\ ~Cycling /\ AtHeaderCap /\ DupTurn
  /\ pc' = "capped"
  /\ hist' = [hist EXCEPT !.latches = @ \cup {"dupRetried"}]
  /\ UNCHANGED <<round, unit, pre, at, count, carried, outcome>>

\* One recovery turn past the cap, once a session for each conflict.
MayRecover == MaxRecovery > 0 /\ ~carried.capUsed

HeaderRecovers ==
  /\ pc = "counted" /\ ~Cycling /\ AtHeaderCap /\ ~DupTurn /\ MayRecover
  /\ pc' = "capped"
  /\ carried' = [carried EXCEPT !.capUsed = TRUE]
  /\ UNCHANGED <<round, unit, pre, at, count, hist, outcome>>

HeaderEscalates ==
  /\ pc = "counted" /\ ~Cycling /\ AtHeaderCap /\ ~DupTurn /\ ~MayRecover
  /\ EndWithout("header cap", carried)
  /\ Returns /\ UNCHANGED <<round, unit>>

UnitBudget ==
  IF unit.cap # NoCap THEN unit.cap ELSE IF unit.header THEN 1 ELSE MaxRetries
EffBudget == Most(UnitBudget, Samples - 1)
AtCap == unit.cap # NoCap /\ count.retry >= EffBudget /\ count.retry > 0

\* Fewer validators fail than at first: one more turn, once.
Progress == "progress" \notin hist.latches /\ 0 < at.fails /\ at.fails < hist.first

\* Mutant: at the cap only the warnings are looked at.
CapAdvisory_AnyFailure == ~IsEmpty /\ AdvisoryOnly

CapAdvisory == Passed /\ ~IsEmpty /\ AdvisoryOnly

AtTheCap ==
  /\ BelowHeaderCap /\ AtCap
  /\ LET boundary == count.retry = EffBudget IN
     \/ /\ Progress /\ boundary
        /\ pc' = "decide" /\ hist' = [hist EXCEPT !.latches = @ \cup {"progress"}]
        /\ UNCHANGED <<pre, at, count, carried, outcome>>
     \/ /\ ~(Progress /\ boundary) /\ CapAdvisory /\ boundary
        /\ Accept("cap boundary", "region", at.verdict)
        /\ Returns /\ UNCHANGED <<pre, carried>>
     \/ /\ ~(Progress /\ boundary) /\ ~(CapAdvisory /\ boundary)
        /\ EndWithout("unit cap", carried) /\ Returns
  /\ UNCHANGED <<round, unit>>

ZeroBudget ==
  /\ unit.cap # NoCap /\ EffBudget = 0 /\ count.retry = 0
  /\ ~IsEmpty /\ Passed /\ AdvisoryOnly

ZeroBudgetEscape ==
  /\ BelowHeaderCap /\ ~AtCap /\ ZeroBudget
  /\ Accept("zero budget", "region", at.verdict)
  /\ Returns /\ UNCHANGED <<round, unit, pre, carried>>

\* The first answer is empty: one side that passes is taken instead, or the
\* whole file of one side that compiles.  Sizes decide which empty answers count.
FirstEmpty ==
  /\ ~at.failures /\ count.retry = 0 /\ IsEmpty
  /\ at.cand.kind # "request_failed"
  /\ ~at.cand.refuses \/ at.cand.kind \in {"empty", "parse_failed", "truncated"}

FastFail(fills) ==
  /\ BelowHeaderCap /\ ~AtCap /\ FirstEmpty
  /\ AcceptPassing("fast fail", fills)
  /\ Returns /\ UNCHANGED <<round, unit, pre, carried>>

\* Nothing else applies, and the risk policy is asked.
AtRisk ==
  \/ pc = "decide"
  \/ BelowHeaderCap /\ ~AtCap /\ ~ZeroBudget

-----------------------------------------------------------------------------
(* risk.decide. *)

\* The retry budget, scaled by the role of the replayed commit.
RoleBudget ==
  CASE unit.role = "bugfix" -> Least((MaxRetries * 3) \div 2, 2 * MaxRetries)
    [] unit.role = "refactor" -> Most(1, (MaxRetries * 3) \div 4)
    [] OTHER -> MaxRetries
Budget == Most(RoleBudget, Samples - 1)

\* The critic's budget, scaled by how much of the sides is covered, and by role.
CoverageBudget ==
  CASE unit.coverage = "high" -> MaxCritic
    [] unit.coverage = "middle" -> (MaxCritic + 1) \div 2
    [] unit.coverage = "low" -> 1
CriticBudget ==
  LET b == CoverageBudget
  IN  CASE unit.role = "bugfix" -> Most(1, (b * 3) \div 2)
        [] unit.role = "refactor" -> Most(1, (b * 3) \div 4)
        [] OTHER -> b

Retriable == {"intent_coverage", "unattributed_code"} \cup Dependency
             \cup IF unit.exclusive THEN {} ELSE {"both_sides_represented"}

\* Mutant: a content loss is accepted with a warning once the retries are used up.
ContentRule_Absent == FALSE

ContentRule == Warned(ContentLoss)

\* The rules in order: the first whose condition holds decides.  sure: the
\* critic is confident; split: the samples disagree.
Rules(sure, split) ==
  LET kind == at.cand.kind
      more == count.retry < Budget
      reframe == count.recovery < MaxRecovery
      refused == kind = "model_refusal" \/ "needs_human" \in at.verdict.hard
      critic == Warned({"verifier_model"})
      Rule(when, then) == [when |-> when, then |-> then]
      Again(retry) == IF retry THEN "retry" ELSE "escalate"
  IN  << Rule(kind = "no_op_repair" /\ ~Passed, "escalate"),
         Rule(at.cand.suspects /\ ~Passed, "escalate"),
         Rule("empty" \in at.verdict.hard /\ reframe
                /\ kind \notin {"request_failed", "truncated", "lsp_failed"}, "recover"),
         Rule(kind \in Technical, Again(more)),
         Rule(refused, IF reframe THEN "recover" ELSE "escalate"),
         Rule("scope" \in at.verdict.hard, "escalate"),
         Rule(~Passed, Again(more)),
         Rule(Warned({"preservation_heuristic"}) /\ more, "retry"),
         Rule(Warned(Retriable) /\ count.retry + count.critic < Budget, "retry"),
         Rule(ContentRule, "escalate"),
         Rule(critic /\ count.critic < CriticBudget, "retry"),
         Rule(critic /\ sure, "escalate"),
         Rule(split, "escalate"),
         Rule(TRUE, "accept") >>

Decision(sure, split) ==
  LET rules == Rules(sure, split)
      first == CHOOSE i \in DOMAIN rules :
                 rules[i].when /\ \A j \in 1..i - 1 : ~rules[j].when
  IN  rules[first].then

DecideAccept(sure, split) ==
  /\ AtRisk /\ Decision(sure, split) = "accept" /\ StrictAllows(at.verdict)
  /\ Accept("risk", "region", at.verdict)
  /\ carried' = [carried EXCEPT !.stash = [later |-> "none", verdict |-> Clean]]
  /\ Returns /\ UNCHANGED <<round, unit, pre>>

\* The strictness of the mode refuses what the policy accepts.
StrictRefuses(sure, split) ==
  /\ AtRisk /\ Decision(sure, split) = "accept" /\ unit.strict
  /\ EndWithout("strictness", carried)
  /\ Returns /\ UNCHANGED <<round, unit>>

\* Mutant: the latch of the grant is not kept.
GrantDue_Unlatched(h) == h.empties >= 2 /\ h.defects = 0

\* Nothing but empty answers so far: one recovery turn instead of the end.
GrantDue(h) == h.empties >= 2 /\ h.defects = 0 /\ "emptyRecovery" \notin h.latches

Granted(h) == [h EXCEPT !.latches = @ \cup {"emptyRecovery"}]

Window == Most(2 * Threshold, Threshold + 2)

\* The hard failures of an attempt; a message never seen before makes it unlike
\* every other attempt.  A candidate that passes has the empty signature.
Signature == IF "novel" \in at.verdict.hard /\ "needs_human" \notin at.verdict.hard
             THEN {"novel"} ELSE at.verdict.hard

Signed == IF Threshold = 0 \/ "needs_human" \in Signature THEN carried.sigs
          ELSE LET all == Append(carried.sigs, Signature)
                   extra == Most(0, Len(all) - Window)
               IN  SubSeq(all, extra + 1, Len(all))

\* What an attempt that is to be repeated leaves behind.
Remembered(h) ==
  [h EXCEPT !.empties = IF IsEmpty THEN Least(@ + 1, 2) ELSE @,
            !.defects = IF IsEmpty THEN @ ELSE 1]

DecideEscalate(sure, split) ==
  /\ AtRisk /\ Decision(sure, split) = "escalate"
  /\ \/ /\ GrantDue(hist) /\ pc' = "retry"
        /\ at' = [at EXCEPT !.why = "granted"]
        /\ count' = [count EXCEPT !.recovery = Limited(@ + 1)]
        /\ hist' = Remembered(Granted(hist))
        /\ carried' = [carried EXCEPT !.sigs = Signed]
        /\ UNCHANGED <<pre, outcome>>
     \/ ~GrantDue(hist) /\ EndWithout("risk", carried) /\ Returns
  /\ UNCHANGED <<round, unit>>

\* The first candidate the preservation heuristic sends back is kept.
DecideRetry(sure, split) ==
  /\ AtRisk /\ Decision(sure, split) \in {"retry", "recover"}
  /\ pc' = "retry"
  /\ at' = [at EXCEPT !.why = Decision(sure, split)]
  /\ hist' = Remembered(hist)
  /\ carried' = [carried EXCEPT
       !.sigs = Signed,
       !.stash = IF @.later = "none" /\ Passed /\ Warned({"preservation_heuristic"})
                 THEN [later |-> "kept", verdict |-> at.verdict] ELSE @]
  /\ UNCHANGED <<round, unit, pre, count, outcome>>

-----------------------------------------------------------------------------
(* The guards against going round in circles, and the next attempt. *)

Stalls(sigs) ==
  \E i \in DOMAIN sigs :
    /\ "novel" \notin sigs[i]
    /\ Cardinality({j \in DOMAIN sigs : sigs[j] = sigs[i]}) >= Threshold
Stalled == Threshold > 0 /\ "needs_human" \notin Signature /\ Stalls(carried.sigs)

\* No progress: once a call a prompt with only a few lines around the failure,
\* then a side of the whole file that compiles, then the recovery turn of empty
\* answers, then the end.
Stall ==
  /\ pc = "retry" /\ Stalled
  /\ LET shattered == [hist EXCEPT !.latches = @ \cup {"shatter"}]
     IN  \/ /\ "shatter" \notin hist.latches
            /\ \E fills \in {"region", "window"} : AcceptPassing("shatter", fills)
            /\ Returns /\ UNCHANGED <<pre, carried>>
         \/ /\ AcceptPassing("side takeover", "file")
            /\ Returns /\ UNCHANGED <<pre, carried>>
         \/ /\ GrantDue(shattered) /\ pc' = "turn"
            /\ count' = [count EXCEPT !.recovery = Limited(@ + 1)]
            /\ hist' = Granted(shattered)
            /\ UNCHANGED <<pre, at, carried, outcome>>
         \/ /\ ~GrantDue(shattered) /\ EndWithout("no progress", carried)
            /\ Returns
  /\ UNCHANGED <<round, unit>>

NextTurn ==
  \/ pc = "turn"
  \/ pc = "retry" /\ ~Stalled

SeenTooOften ==
  /\ at.hashed \in Texts
  /\ hist.seen[at.hashed] > IF unit.cap # NoCap THEN EffBudget ELSE RoleBudget
Converged == Repeats /\ ~IsEmpty /\ ~unit.canonical

Circles ==
  /\ NextTurn /\ (SeenTooOften \/ Converged)
  /\ EndWithout("no convergence", carried)
  /\ Returns /\ UNCHANGED <<round, unit>>

\* The next attempt counts as a recovery, as a retry, or as the critic's, which
\* depends on the wording of the reasons: those of content losses are retries.
Reseed(worded) ==
  /\ NextTurn /\ ~SeenTooOften /\ ~Converged
  /\ LET losing == Passed /\ Warned(ContentLoss \cup {"unattributed_code"})
         which == IF at.why = "recover" THEN "recovery"
                  ELSE IF at.cand.kind \in Technical THEN "retry"
                  ELSE IF Warned({"verifier_model"}) /\ ~losing /\ ~worded THEN "critic"
                  ELSE "retry"
     IN  count' = [count EXCEPT ![which] = Limited(@ + 1)]
  /\ pc' = "top"
  /\ at' = NoAttempt(TRUE)
  /\ UNCHANGED <<round, unit, pre, hist, carried, outcome>>

-----------------------------------------------------------------------------
\* Every unit of the file is accepted and the file fails: the step asks again for
\* the same unit, with what it remembers of it and without the cascade.  Or it is
\* done with it.
AskedAgain ==
  /\ pc = "ended" /\ AcceptedBy(outcome) /\ round < unit.rounds
  /\ pc' = "top" /\ round' = round + 1
  /\ at' = [at EXCEPT !.failures = TRUE]
  /\ outcome' = NoOutcome
  /\ UNCHANGED <<unit, pre, count, hist, carried>>

Leave ==
  /\ pc = "ended"
  /\ pc' = "done"
  /\ UNCHANGED <<round, unit, pre, at, count, hist, carried, outcome>>

Judge ==
  \/ AcceptDeletion \/ ConvergenceEscape
  \/ HeaderRepairs \/ HeaderExtraTurn \/ HeaderRecovers \/ HeaderEscalates
  \/ AtTheCap \/ ZeroBudgetEscape
  \/ \E fills \in {"region", "file"} : FastFail(fills)

Decide ==
  \E sure, split \in BOOLEAN :
    /\ split => Sampling
    /\ \/ DecideAccept(sure, split) \/ StrictRefuses(sure, split)
       \/ DecideEscalate(sure, split) \/ DecideRetry(sure, split)

Attempt == \E c \in Answers : \E v \in VerdictsOf(c) : Draw(c, v)

Call ==
  \/ CascadeStep /\ UNCHANGED <<round, at, count, hist, carried>>
  \/ CascadeDeclines
  \/ Oversized \/ TimeIsUp \/ Attempt
  \/ Judge \/ Decide
  \/ Stall \/ Circles \/ \E worded \in BOOLEAN : Reseed(worded)

Next == Call \/ AskedAgain \/ Leave

Spec == Init /\ [][Next]_vars
Fairness == WF_vars(Call) /\ SF_vars(TimeIsUp) /\ WF_vars(Leave)
FairSpec == Spec /\ Fairness

-----------------------------------------------------------------------------
\* The recovery turns exceed what the policy allows by at most the one granted to
\* a unit that has only had empty answers.
TypeOK ==
  /\ pc \in {"cascade", "top", "counted", "capped", "decide", "retry",
             "turn", "ended", "done"}
  /\ round \in 1..unit.rounds /\ unit \in Units
  /\ count \in [{"retry", "critic", "recovery"} -> 0..Ceiling]
  /\ count.recovery <= MaxRecovery + 1
  /\ pre.stage \in 1..Guard /\ pre.passed \subseteq pre.tried /\ pre.tried \subseteq Sides
  /\ pre.tree \in {"conflict", "left", "emptied", "fragment"} \cup Sides
  /\ at.cand.kind \in Kinds /\ at.hashed \in Texts \cup {Fresh, NoText}
  /\ at.failures \in BOOLEAN /\ at.why \in {"none", "retry", "recover", "granted"}
  /\ DOMAIN hist.memo \subseteq Texts
  /\ hist.seen \in [Texts -> 0..Ceiling]
  /\ hist.empties \in 0..2 /\ hist.defects \in 0..1
  /\ carried.norms \in [Texts -> 0..Threshold] /\ Len(carried.sigs) <= Window
  /\ carried.stash.later \in {"none", "kept", "worse", "better"}
  /\ outcome.fills \in {"none", "region", "window", "file"}

\* Safety, in two parts.  No way out accepts a text with a hard failure standing
\* that its verification looks for, but a deletion, which is accepted for being
\* empty, and a text into which a core was put after it was verified ...
NoHardFailure ==
  AcceptedBy(outcome) /\ outcome.by \notin {"deletion", "deferred_core"}
    => Seen(outcome.verdict, outcome.fast).hard = {}

\* ... and where the strict modes are asked in full ("UNLESS it dropped a side
\* obligation", policy_strictness.py) no obligation is dropped.
StrictAsked == (Mechanisms \ Replays) \cup {"ordered_splice", "risk"}
StrictObeyed ==
  AcceptedBy(outcome) /\ unit.strict /\ ~outcome.fast /\ outcome.by \in StrictAsked
    => "obligation" \notin outcome.verdict.warns

AcceptedPassed == NoHardFailure /\ StrictObeyed

\* Safety: of the texts the risk policy or one of the escapes judges by their
\* warnings, none that drops what the base, or a later commit, depends on is
\* accepted ("must ESCALATE, not silently accept", risk.py).  What is accepted for
\* having passed, and a text restored, is not judged so.
JudgedBy == {"risk", "convergence escape", "cap boundary", "zero budget"}
JudgedLosesNoDependency ==
  outcome.by \in JudgedBy => outcome.verdict.warns \cap Dependency = {}

\* Safety: when the model is asked, and when a conflict is given up at its first
\* resolution, its file shows the conflict as git left it, also after sides were
\* tried in it ("On a plain escalation the markers are already in the worktree",
\* orchestrator.py), unless the tests raised, or it could not be read before.
ConflictShown ==
  round = 1 /\ pc # "cascade" /\ ~AcceptedBy(outcome)
    => pre.tree \in {"conflict", "left", "emptied"}

\* Liveness: with a wall-time budget every resolution comes to an end, and the
\* repair loop is bounded ("bounded by retry policy", README).
Terminates == <>(pc = "done")
=============================================================================
