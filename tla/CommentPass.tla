---------------------------- MODULE CommentPass ----------------------------
(***************************************************************************)
(* Comments of a file that has passed the gate: orchestrator's phase 3,    *)
(* _reconcile_comments, and the comment jury.  A model plans what becomes  *)
(* of the comments the conflict touched; a trusted comment nobody can      *)
(* reconcile has the code resolved again; the jury looks at what was       *)
(* rewritten, and in enforce mode its rulings are acted on.  What comes    *)
(* out goes through the gate once more and is staged.                      *)
(*                                                                         *)
(* Comments of one lineage are a note.  A text is its executable code, by  *)
(* the number of the resolution it was spliced from (0 is the one the file *)
(* came with, and the one the step's outcomes name), whether the gate      *)
(* mended it, and the notes that were edited.  Plans that differ in case   *)
(* and space only are one.  A failure of the jury has a kind of its own,   *)
(* so no pass ever repeats one and the repeated pass for the jury has no   *)
(* early end (jury_enforce 656).                                           *)
(***************************************************************************)
EXTENDS Naturals, FiniteSets

CONSTANTS
  Notes,     \* the notes of a file
  Ledgers,   \* what a text's ledger may say of them
  Files,     \* the number of files of the session
  Retries,   \* policy.comment_reconciliation_retries
  Reopens,   \* policy.max_comment_to_code_repair_retries
  Reloops,   \* future.jury_comment_cegis_budget
  Configs    \* the configurations: [enforce, blocks, reopen]

Version == {"base", "current", "replayed", "resolved"}

\* Where a note occurs, whether its variants are the same text, whether it
\* overlaps a conflict, whether its entity is gone from the resolved text, and
\* whether it reads like an invariant.
Shape == [at : SUBSET Version, texts : {"same", "cosmetic", "differ"},
          overlaps : BOOLEAN, gone : BOOLEAN, trusted : BOOLEAN]

\* Whether the jury's rulings are acted on (mode enforce, in an eligible
\* language), whether a review blocks, and enable_jury_code_reopen.
Config == [enforce : BOOLEAN, blocks : BOOLEAN, reopen : BOOLEAN]

ASSUME CommentAssumption ==
  /\ Ledgers \subseteq [Notes -> Shape] /\ Configs \subseteq Config
  /\ Files \in Nat \ {0} /\ {Retries, Reopens, Reloops} \subseteq Nat

VARIABLES
  config,    \* the configuration
  pc, file,  \* where phase 3 is, and at which file
  why,       \* what the pass or the re-resolution is for
  ledger,    \* the ledger of the text
  text,      \* the text a pass works on, later the one that is returned
  accepted,  \* the number of the last resolution in the accepted list
  outcome,   \* what the pass that counts came to
  try,       \* the pass: attempts made, and what refused plans asked for
  left,      \* re-resolutions and jury passes the file may still have
  todo,      \* the notes for which code is being resolved again
  rulings,   \* the jury's rulings, by note
  lost,      \* whether an exception ended the jury's work
  latch,     \* failed calls in a row, and whether the phase is latched off
  owed,      \* history: failed calls no pass without one makes up for
  staged     \* the text the file is staged with

vars == <<config, pc, file, why, ledger, text, accepted, outcome, try, left, todo,
          rulings, lost, latch, owed, staged>>

-----------------------------------------------------------------------------
(* Texts, the frontier, plans. *)

Text(code, edited, spoilt) ==
  [code |-> code, edited |-> edited, spoilt |-> spoilt, mended |-> FALSE]
Frozen == Text(0, {}, FALSE)

NoComments(l) == \A n \in Notes : "resolved" \notin l[n].at

Complete(s) == {"base", "current", "replayed"} \subseteq s.at \/ s.at = {"resolved"}

\* The code of the note is gone, and the note with it.
FastDeleted(s) == s.gone /\ "resolved" \notin s.at

\* The notes a model has to look at.
Frontier(l) ==
  {n \in Notes : /\ l[n].at # {} /\ ~FastDeleted(l[n])
                 /\ l[n].overlaps \/ ~Complete(l[n]) \/ l[n].texts = "differ"}

Operation == {"keep", "delete", "rewrite"}

\* A plan: an operation for some of the notes of the frontier, the notes that are
\* named twice or rewritten in a way the verifiers refuse, whether it names a
\* note that is not there, and whether it would change executable tokens.
Plans(front) ==
  UNION {{[ops |-> o, wrong |-> w, stray |-> s, tokens |-> t] :
            o \in [some -> Operation], w \in SUBSET some, s \in BOOLEAN, t \in BOOLEAN} :
         some \in SUBSET front}

IsPlan(p) == DOMAIN p.ops # {} \/ p.stray

\* Only a note of the resolved text can be edited.
Edited(p) == {n \in DOMAIN p.ops : p.ops[n] # "keep" /\ "resolved" \in ledger[n].at}
Rewritten(p) == {n \in DOMAIN p.ops : p.ops[n] = "rewrite"}

\* Mutant: the executable tokens are not compared.
Applies_Unchecked(p) == TRUE

\* apply_comment_plan.
Applies(p) == ~(p.tokens /\ Edited(p) # {})
Applied(p) == Text(text.code, text.edited \cup Edited(p),
                  text.spoilt \/ (p.tokens /\ Edited(p) # {}))

\* verify_comment_plan; a note without an operation is kept, if that is all.
Refused(p) == p.wrong # {} \/ p.stray
Rejected(p) == p.wrong \cup (Frontier(ledger) \ DOMAIN p.ops)

\* _synthesize_code_reopen_requests.
Requests(p) == {n \in Rejected(p) : ledger[n].trusted}

-----------------------------------------------------------------------------
(* The jury. *)

Verdict == {"SUPPORTED", "CONTRADICTED", "UNGROUNDED", "UNVERIFIABLE", "NON_CHECKABLE"}

\* A juror whose call fails or whose answer cannot be parsed has no verdict.
Vote == Verdict \cup {"none"}
Claim == [origin : {"inherited", "synthesized", "uncertain"},
          kind : {"contract", "rationale", "other"}]

\* What the contradiction juror cites, and whether the packet and every
\* reference into it hold up.
Evidence == [executable : BOOLEAN, sound : BOOLEAN]

Strictness == [v \in Vote |-> CASE v = "CONTRADICTED" -> 5 [] v = "UNGROUNDED" -> 4
                                [] v = "UNVERIFIABLE" -> 3 [] v = "NON_CHECKABLE" -> 2
                                [] v = "SUPPORTED" -> 1 [] OTHER -> 0]

Effective(c, p) == LET v == IF Strictness[c] >= Strictness[p] THEN c ELSE p IN
                   IF v = "none" THEN "NON_CHECKABLE" ELSE v

\* DeterministicChair's matrix; the router sends what is to be preserved and
\* audited to review.
Matrix(claim, v) ==
  CASE v \in {"SUPPORTED", "NON_CHECKABLE"} -> "accept"
    [] v = "CONTRADICTED" ->
         IF claim = [origin |-> "inherited", kind |-> "contract"] THEN "reopen"
         ELSE "counterexample"
    [] OTHER -> IF claim.origin = "synthesized" THEN "counterexample" ELSE "review"

Quorum(c, p, ev) == c = "CONTRADICTED" /\ ev.executable /\ p # "UNVERIFIABLE"

\* EnforcementRouter.route.
Route(claim, c, p, ev, reopen) ==
  LET m == Matrix(claim, Effective(c, p)) IN
  CASE "none" \in {c, p} -> "review"
    [] m = "reopen" /\ ~Quorum(c, p, ev) -> "counterexample"
    [] m = "reopen" /\ ~reopen -> "review"
    [] m = "accept" /\ ~ev.sound -> "review"
    [] OTHER -> m

Routes == {"accept", "counterexample", "review", "reopen"}
Rulings == [r \in BOOLEAN |->
  {Route(k, c, p, ev, r) : k \in Claim, c \in Vote, p \in Vote, ev \in Evidence}]

Ruled(route) == {n \in Notes : rulings[n] = route}

-----------------------------------------------------------------------------
(* A file comes, and goes. *)

None == [is |-> "none", text |-> Frozen, rewritten |-> {}, requests |-> {}]
Skipped == [None EXCEPT !.is = "skipped"]
Failed(requests) == [None EXCEPT !.is = "failed", !.requests = requests]
Reconciled(p) == [None EXCEPT !.is = "ok", !.text = Applied(p), !.rewritten = Rewritten(p)]

NewPass == [made |-> 0, refused |-> {}]
Unruled == [n \in Notes |-> "none"]

Init ==
  /\ config \in Configs /\ ledger \in Ledgers
  /\ pc = "pass" /\ file = 1 /\ why = "first"
  /\ text = Frozen /\ accepted = 0 /\ outcome = None /\ try = NewPass
  /\ left = [reopens |-> Reopens, reloops |-> Reloops]
  /\ todo = {} /\ rulings = Unruled /\ lost = FALSE
  /\ latch = [fails |-> 0, off |-> FALSE] /\ owed = 0
  /\ staged = Frozen

NextFile ==
  /\ pc = "staged" /\ file < Files
  /\ file' = file + 1 /\ pc' = "pass" /\ why' = "first" /\ ledger' \in Ledgers
  /\ text' = Frozen /\ accepted' = 0 /\ outcome' = None /\ try' = NewPass
  /\ left' = [reopens |-> Reopens, reloops |-> Reloops]
  /\ todo' = {} /\ rulings' = Unruled /\ lost' = FALSE
  /\ staged' = Frozen
  /\ UNCHANGED <<config, latch, owed>>

\* The caller keeps the file's text when nothing is returned.
Return(t) == text' = t /\ pc' = "verify"

\* _verify_post_comment, of a text that changed: the gate passes it, mended or
\* not, or the file keeps its text.
Verify ==
  /\ pc = "verify"
  /\ staged' \in IF text = Frozen THEN {Frozen}
                 ELSE {Frozen, text, [text EXCEPT !.mended = TRUE]}
  /\ pc' = "staged"
  /\ UNCHANGED <<config, file, why, ledger, text, accepted, outcome, try, left, todo,
                 rulings, lost, latch, owed>>

-----------------------------------------------------------------------------
(* One pass: _run_comment_pass and run_comment_cegis. *)

\* What a pass for the jury comes to: its text, another pass, or nothing.
ForTheJury(o) ==
  /\ UNCHANGED outcome
  /\ IF o.is = "ok" THEN text' = o.text ELSE UNCHANGED text
  /\ left' = [left EXCEPT !.reloops = @ - 1]
  /\ pc' = IF o.is \in {"skipped", "failed"} /\ left.reloops > 1 THEN "pass" ELSE "review"

\* What another pass comes to.  A re-resolution is asked for while there is one left.
ForTheFile(o) ==
  IF o.is = "none" THEN
       /\ IF why = "first" THEN Return(Frozen) ELSE pc' = "settle" /\ UNCHANGED text
       /\ UNCHANGED <<outcome, left>>
  ELSE /\ outcome' = o
       /\ IF o.requests # {} /\ left.reopens > 0
          THEN pc' = "reopen" /\ left' = [left EXCEPT !.reopens = @ - 1]
          ELSE pc' = "settle" /\ UNCHANGED left
       /\ UNCHANGED text

PassReturns(o) ==
  /\ IF why = "reloop" THEN ForTheJury(o) ELSE ForTheFile(o)
  /\ todo' = o.requests
  /\ try' = NewPass
  /\ UNCHANGED <<config, file, why, ledger, accepted, rulings, lost, staged>>

\* Mutant: the phase is latched off one failed call too late.
Noted_Late(raised) ==
  LET fails == IF raised THEN latch.fails + 1 ELSE 0 IN
  [fails |-> fails, off |-> latch.off \/ fails > 2]

\* _note_comment_transport: a pass without a failed call resets the count.
Noted(raised) ==
  LET fails == IF raised THEN latch.fails + 1 ELSE 0 IN
  [fails |-> fails, off |-> latch.off \/ fails >= 2]

Note(raised) ==
  /\ latch' = Noted(raised)
  /\ owed' = IF raised THEN owed + 1 ELSE IF owed = 0 THEN 0 ELSE owed - 1

PassSkipped ==
  /\ pc = "pass" /\ (latch.off \/ NoComments(ledger))
  /\ PassReturns(None) /\ UNCHANGED <<latch, owed>>

Looks == pc = "pass" /\ ~latch.off /\ ~NoComments(ledger)

NothingToDo ==
  /\ Looks /\ Frontier(ledger) = {}
  /\ Note(FALSE) /\ PassReturns(Skipped)

CallRaises ==
  /\ Looks /\ Frontier(ledger) # {}
  /\ Note(TRUE) /\ PassReturns(Failed({}))

\* An attempt failed: the next one, on the same text, if there is one.
AttemptFails(requests, again, refused) ==
  IF again /\ try.made < Retries
  THEN /\ try' = [made |-> try.made + 1, refused |-> refused]
       /\ UNCHANGED <<config, pc, file, why, ledger, text, accepted, outcome, left, todo,
                      rulings, lost, latch, owed, staged>>
  ELSE Note(FALSE) /\ PassReturns(Failed(requests))

\* Not a plan.
Unparseable ==
  /\ Looks /\ Frontier(ledger) # {}
  /\ AttemptFails({}, TRUE, try.refused)

\* A plan that does not apply, is refused, or is taken.  A plan that was refused
\* before, which asks for what it asked for then, ends the pass.
Planned ==
  /\ Looks
  /\ \E p \in Plans(Frontier(ledger)) :
       /\ IsPlan(p)
       /\ \/ ~Applies(p) /\ AttemptFails({}, TRUE, try.refused)
          \/ /\ Applies(p) /\ Refused(p)
             /\ \E again \in {TRUE, Requests(p) \notin try.refused} :
                  AttemptFails(Requests(p), again, try.refused \cup {Requests(p)})
          \/ /\ Applies(p) /\ ~Refused(p)
             /\ Note(FALSE) /\ PassReturns(Reconciled(p))

-----------------------------------------------------------------------------
(* _resolve_comment_contract_conflicts: code is resolved again. *)

\* The accepted list changes with each note's resolution; the text does when all
\* are done, and then has a ledger of its own.
ReResolved ==
  /\ pc = "reopen"
  /\ \E n \in todo : todo' = todo \ {n}
  /\ accepted' = accepted + 1
  /\ IF todo' # {} THEN UNCHANGED <<pc, why, text, ledger>>
     ELSE /\ text' = Text(accepted', {}, FALSE) /\ ledger' \in Ledgers
          /\ IF why = "jury" THEN pc' = "counter" /\ UNCHANGED why
                             ELSE pc' = "pass" /\ why' = "reopened"
  /\ UNCHANGED <<config, file, outcome, try, left, rulings, lost, latch, owed, staged>>

\* One of them escalates, after others may have been replaced.
ReResolveFails ==
  /\ pc = "reopen"
  /\ pc' = IF why = "jury" THEN "counter" ELSE "settle"
  /\ todo' = {}
  /\ UNCHANGED <<config, file, why, ledger, text, accepted, outcome, try, left, rulings,
                 lost, latch, owed, staged>>

\* Outside the jury nobody catches it, and the session ends.
ReResolveRaises ==
  /\ pc = "reopen" /\ why # "jury"
  /\ pc' = "raised"
  /\ UNCHANGED <<config, file, why, ledger, text, accepted, outcome, try, left, todo,
                 rulings, lost, latch, owed, staged>>

-----------------------------------------------------------------------------
(* The jury at work: _run_jury and _apply_jury_enforcement. *)

\* The loop of passes and re-resolutions is over.
Settle ==
  /\ pc = "settle"
  /\ IF outcome.is = "ok"
     THEN IF config.enforce THEN text' = outcome.text /\ pc' = "judge"
                            ELSE Return(outcome.text)
     ELSE Return(Frozen)
  /\ UNCHANGED <<config, file, why, ledger, accepted, outcome, try, left, todo, rulings,
                 lost, latch, owed, staged>>

\* A comment that cannot be taken apart into claims has no ruling.
Judge ==
  /\ pc = "judge"
  /\ \E r \in [outcome.rewritten -> Rulings[config.reopen] \cup {"none"}] :
       rulings' = [n \in Notes |-> IF n \in outcome.rewritten THEN r[n] ELSE "none"]
  /\ pc' = IF rulings' = Unruled THEN "verify" ELSE "enforce"
  /\ UNCHANGED <<config, file, why, ledger, text, accepted, outcome, try, left, todo,
                 lost, latch, owed, staged>>

Enforce ==
  /\ pc = "enforce"
  /\ why' = "jury" /\ todo' = Ruled("reopen")
  /\ pc' = IF Ruled("reopen") # {} THEN "reopen" ELSE "counter"
  /\ UNCHANGED <<config, file, ledger, text, accepted, outcome, try, left, rulings, lost,
                 latch, owed, staged>>

\* Disputed comments go through the pass again, unless another is for review.
Counter ==
  /\ pc = "counter"
  /\ IF Ruled("counterexample") # {} /\ Ruled("review") = {} /\ left.reloops > 0
     THEN pc' = "pass" /\ why' = "reloop" /\ ledger' \in Ledgers
     ELSE pc' = "review" /\ UNCHANGED <<why, ledger>>
  /\ UNCHANGED <<config, file, text, accepted, outcome, try, left, todo, rulings, lost,
                 latch, owed, staged>>

\* Mutant: only if all that was rewritten is for review.
Blocked_All == Ruled("review") = outcome.rewritten /\ config.blocks

\* A review blocks: nothing is returned.
Blocked == Ruled("review") # {} /\ config.blocks

Review ==
  /\ pc = "review"
  /\ Return(IF Blocked THEN Frozen ELSE text)
  /\ UNCHANGED <<config, file, why, ledger, accepted, outcome, try, left, todo, rulings,
                 lost, latch, owed, staged>>

\* An exception in any of this is dropped, and the reconciled text is returned.
JuryRaises ==
  /\ pc = "judge" \/ (pc = "reopen" /\ why = "jury") \/ (pc = "pass" /\ why = "reloop")
  /\ lost' = TRUE /\ Return(outcome.text)
  /\ UNCHANGED <<config, file, why, ledger, accepted, outcome, try, left, todo, rulings,
                 latch, owed, staged>>

-----------------------------------------------------------------------------
Done == (pc = "raised" \/ (pc = "staged" /\ file = Files)) /\ UNCHANGED vars

Pass == PassSkipped \/ NothingToDo \/ CallRaises \/ Unparseable \/ Planned
Reopen == ReResolved \/ ReResolveFails \/ ReResolveRaises
Jury == Settle \/ Judge \/ Enforce \/ Counter \/ Review \/ JuryRaises
Next == NextFile \/ Pass \/ Reopen \/ Jury \/ Verify \/ Done

Spec == Init /\ [][Next]_vars

-----------------------------------------------------------------------------
(* Properties. *)

Latch == [fails : Nat, off : BOOLEAN]
Texts == [code : Nat, edited : SUBSET Notes, spoilt : BOOLEAN, mended : BOOLEAN]
Outcomes == [is : {"none", "skipped", "failed", "ok"}, text : Texts,
             rewritten : SUBSET Notes, requests : SUBSET Notes]

\* The types of the variables.
TypeOK ==
  /\ config \in Configs /\ file \in 1..Files /\ ledger \in Ledgers
  /\ pc \in {"pass", "reopen", "settle", "judge", "enforce", "counter", "review", "verify",
             "staged", "raised"}
  /\ why \in {"first", "reopened", "jury", "reloop"}
  /\ text \in Texts /\ staged \in Texts /\ accepted \in Nat
  /\ outcome \in Outcomes
  /\ try \in [made : 0..Retries, refused : SUBSET SUBSET Notes]
  /\ left \in [reopens : 0..Reopens, reloops : 0..Reloops]
  /\ todo \subseteq Notes /\ rulings \in [Notes -> Routes \cup {"none"}]
  /\ lost \in BOOLEAN /\ latch \in Latch /\ owed \in Nat

\* Whatever passes, repeats and juries a file went through, the code it is staged
\* with is the code of a resolution that was accepted for it, no plan for its
\* comments has changed that code, and only the gate may have mended it.
CodeKept == pc = "staged" => ~staged.spoilt /\ staged.code <= accepted

\* A file with a comment that was sent to human review, where that blocks, is
\* staged as it was before its comments were touched; but for an exception after
\* the ruling, which the code drops together with the ruling.
ReviewBlocks ==
  pc = "staged" /\ config.enforce /\ config.blocks /\ Ruled("review") # {} /\ ~lost
    => staged = Frozen

\* Whatever stretch of a session one looks at, over its files, passes and jury
\* repeats: it has at most two failed calls for plans more than passes that end
\* without one, so a server that stays down costs two where every pass asks.  A
\* pass with nothing to ask counts as one of those that end without, and the
\* jurors' own calls are not counted.
TwoDeadCalls == owed <= 2
=============================================================================
