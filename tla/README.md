# A TLA+ model of capybase

capybase resolves the conflicts of a `git rebase` with deterministic mechanisms
and language models, gates what it resolved, and continues the rebase, or hands
the conflict to the human, or puts the branch back. This directory holds TLA+
models of the parts that decide *what happens to commits, branches and files*,
the configurations that model-check them with TLC, and machine-checked (TLAPS)
proofs of the results that matter most. Source paths below are relative to the
repository's `src/capybase/`.

## 1. Inventory

| component | state it keeps | operations | hard part | correct when |
|---|---|---|---|---|
| **Candidate mode** `candidate_ref.py` | source branches, candidate branches, linked worktrees, backup branches, `session_state.json` per candidate, remote and remote-tracking refs | `run_candidate_rebase`, `promote_candidate`, `publish_candidate` | promote and publish take no lock; everything promote checks is read before its swap; crashes between any two git commands; names made from a one-second clock | a branch only receives what was tested from the commit it is at, with consent; no edit lost; nothing left behind |
| **Session loop** `orchestrator.py` `rebase`, `run`, `interactive_resolve` | git's rebase in progress, index and files, stuck counter, last known position, last offered step | start, gather, resolve, gate, continue, skip an empty pick, ask the human, abort | git answers in words; "no progress" must end the session; the human resolves part of a file; interruptions | no pick is dropped and no markers are committed, but where git's words or a half-done paste mislead; the session ends, and where it says |
| **Run lock** `runlock.py`, `cli.py` | `.rebase-agent/run.lock` | check, write, remove | check and write are two steps; stale locks, reused process ids, copied repositories | a live lock is a live run; a second run comes in only past a lock that was missed |
| **Clean and recovery** `cleanup.py`, `journal.py` | session journals, `refs/rebase-agent/<s>/start`, backup branches, stopped rebase | check the lock, attribute the rebase, take stock, remove branches, refs, state | runs beside it; a crash judged from the last journal line; killed half-way | a rebase in progress keeps its recovery refs, unless clean looked just before it; only crashed runs' rebases are aborted; nothing is left |
| **Step resolution** `orchestrator.py` `_resolve_step`, `_resolve_unit`, `_repair_whole_file` | retries, grants and caps of a conflict; per-file results of a step, some of which outlive their file; caches, build and repair flags | the loop around one conflict, the two phases of a step, whole-file repair and its rungs, the rescues, the floor, staging | nested budgets with grants, verdicts that change late, repairs that undo each other, state of one file read for another | what is staged passed the gate as it stands, but on the ways that are named; budgets bound the work; one good side is not given up |
| **Verification, risk, acceptance** `verification.py`, `risk.py`, `acceptance.py`, `escalation.py` | the worktree file under trial, the build tracker of the session, test results | validate one conflict, gate a file (`verify_file`), build and test it, judge the risk | a build needs the text in the worktree; timeouts degrade later checks; missing tools; stages that mend the text | the worktree is put back; a mended text was compiled; no full build once degraded |
| **Models** `adapters/llm_openai.py`, `resolution_engine.py`, `consensus.py` | a pool of threads, the client's interrupt flag and profile, retries of a call | draw candidates in parallel, as a batch, serially, or in two passes; retry; text mode after a refused JSON mode; interrupt | late answers of abandoned workers, deadlines racing answers, one sample failing | an answer is for its own call, an interrupt is heeded, every draw ends |
| **Comments and jury** `orchestrator.py` 14209-15129, `comment_reconciler.py`, `comment_verifiers.py`, `shadow_jury.py`, `jury_enforce.py`, `jury_evidence.py`, `comment_claims.py` | the file's text and list of accepted resolutions, budgets of the file, the latch of the session | plan, apply, verify, ask again; resolve code again for a trusted comment; judge what was rewritten; repeat, reopen, review; gate once more | loops in loops (attempts, re-resolutions, jury repeats) that hand on text, list or verdict of an earlier one; exceptions dropped half-way | comments never change code; what is staged belongs to a resolution; a blocking review holds; a dead server is not asked on and on |
| **Structural merge, parsers, splice** `structural_resolver.py`, `conflict_extractor.py`, `adapters/diff.py`, `adapters/_cdiff` | none (pure) | match lines, parse markers, merge by rules, leave a core open, splice | positions after edits, repeated lines, two implementations of the matcher | both sides' edits land, the rest of the file is kept |
| **History, future-apply probe, resurrection scan** `history.py`, `resurrection.py` | temporary indexes | advise, scan | none of it writes the branch | verdicts reach the gate they are for |
| **Memory, exact reuse, calibration, drift** `memory/`, `exact_reuse.py`, `calibration.py`, `drift.py` | advisory stores | look up, record | staleness | never decides acceptance by itself |
| **CLI, config, preflight, inspect, status, dry-run** `cli.py`, `config.py`, ... | none beyond the above | parse, report | | |
| **Evaluation harness, corpora, scripts** | | | | |

How they interact. The CLI takes the run lock around `manual`, `run` and
`rebase`; `promote`, `publish` and `clean` do not take it, `clean` only reads
it. Candidate mode runs the session loop in a linked worktree and looks only at
how it ended. The session loop calls step resolution once per stop, reads its
verdict (escalated or not), and shares with it the repository's index and
working tree. A step resolves each conflict of each file with the structural
rules first and the models after them, each answer checked by the validators of
one conflict; then it gates, builds and repairs each file as a whole and stages
it; before that the comments of the passed file are reconciled, and what comes
out goes through the gate once more. Clean shares files, refs and the stopped rebase with everything else and
knows of a session only what its journal says.

The hazards this gives rise to, each at its line, are the list `hazards` in
`PROJECT.json`; every property below was written for one or more of them.

## 2. Modules

    Promotion            what candidate mode promises (abstract)
      ^ implemented by
    CandidateRef         candidate mode            <- MCCandidateRef, CandidateRefProofs
    RebaseLoop           one rebase session        <- MCRebaseLoop, SessionProofs
    RunLock              the run lock
      ^ extended by
    Clean                clean beside in-place runs <- MCClean, SessionProofs (the lock's theorem, too)
    StepContract         how one stop may end (abstract)
      ^ implemented by
    ResolveStep          both phases of one stop   <- MCResolveStep, ResolveStepProofs
    Cascade              the mechanisms before the model
      ^ extended by
    ResolveUnit          the loop around one conflict <- MCResolveUnit, ResolveUnitProofs
    RepairLadder         the rungs of a whole-file repair <- MCRepairLadder, GateProofs
    CommentPass          the comments of a passed file, the jury <- MCCommentPass, CommentPassProofs
    FileGate             the gate of one file, its builds and tests <- MCFileGate, GateProofs
    ModelCalls           one draw of candidates    <- MCModelCalls, ModelCallsProofs
    LineDiff, MarkerFile   matching lines; parsing and splicing markers
      ^ extended by
    StructuralMerge      the textual merge rules   <- MCStructuralMerge, StructuralMergeProofs

An MC module instantiates the module it is named after for TLC; a Proofs module
holds theorems, of one module or of two that are used together.

### CandidateRef, Promotion

A commit is a record of what its tree holds: the owner's edits, the version of
the rebase target it sits on, and the run that made it. That is all the
properties tell apart; commits with equal records are one object, as in git.
Remote tips are the last published commit and the set of other people's pushes
on top of it.

One action per step between which the code can be interleaved or die:

| code | actions |
|---|---|
| `run_candidate_rebase` | `StartRun` (snapshot, name probe, `worktree add`), `StartRebase`, `RebaseCompletes`, `RebaseEscalates`, `WriteBundle` (tier, bundle, state file), the `finally` clause as `RemoveWorktree` and `DeleteRefs`; `Interrupt`, `Kill` |
| `promote_candidate` | `Promote` (read the state file), `CheckPromote` (all checks), `Swap` (`update-ref` with the expected old value), `ResetCheckout`, `RecordPromotion`, `ConsumeBranch`; `AbandonPromote` is every refusal, interruption or kill |
| `publish_candidate` | `Publish`, `Push` (with the explicit lease), `RecordPublication`; `AbandonPublish` |
| everyone else | `OwnerCommits`, `OwnerResets`, `OwnerWorks`, `OwnerChecksOut`, `UpstreamMoves`, `ForeignPush`, `Fetch`, `CollectGarbage`, `Tick` |

Promotes and publishes are sets of concurrent processes; runs are serialised by
the run lock and so are one process whose successive runs are counted.
`AggregateTier` translates the aggregation of step tiers, `Matching` the reuse
of a retained candidate, `IsFreeName` the name probe and `BackupsOf` the
textual match of backup branches (which reaches further than the run's own).

The owner's worktree is clean, has uncommitted `"work"`, or is `"stale"`:
promote moved the branch under it without `--checkout`. A stale worktree is not
committed from before it is refreshed, as promote's closing note asks for.
`OwnerRaces` says whether the owner may use the worktree or move the branch
between the check and the reset of `promote --checkout`. The code does not
exclude it, and then the hard reset discards what the owner did; every result
about edits is therefore for `OwnerRaces = FALSE`, and the hazard list says so.

The refinement is the identity on `source`, `offers` and `landed`: `Swap` is
the abstract `Land`, `WriteBundle` the abstract `Test`, and the owner's commits
and resets and promote's `reset --hard` (which writes a commit that has landed
already, or repeats the owner's choice) are `Move`.

### RebaseLoop

One session. `git` is git's own state: where the rebase is, at which pick, what
became of each pick (`applied`, dropped as `empty`, `lost`, committed with
markers: `marked`), and the state of every file at a stop. Git is external and
modelled from the commands `git_backend.py` issues and how it reads the
answers: `Answers` is every way `git rebase --continue` may answer with the
index as it is (a refusal that lasts, as by a hook, drop or refusal of an empty
pick, the next conflict, the end); refusals for a passing reason, as a lock held
by another process, are bounded by `MaxGlitch` with the misread positions. What
a pick conflicts on is chosen at the start, and so are the picks whose subject lines
read like git's words for an empty pick (`Misleading` gives the sets to choose from):
git prints the subject of the pick it stops at, and `ReadsEmpty` is the search for
those words in what it printed.

`StartRebase`, `ScanClean`, `NothingToResolve`, `NoUnits`, `ResolutionFails`,
`ValidationFails`, `Resolves`, `Gate`, `Continue`, `Complete`, `Settle` follow
`rebase()` and `run()`. `Continue` is the whole of continue, the detection and
skip of an empty pick, and the stuck-loop guard with the position that may be
unreadable. How a unit is resolved is a nondeterministic choice among the ways
`_resolve_step` returns, *with the files it has written and staged by then*:
resolution writes all files before validation stages them one by one, so both
kinds of half-done step are there. `OpenMenu`, `Bail`, `DontOffer`,
`HumanResolves`, `HumanSkips`, `HumanAborts`, `HumanDone` are the interactive
fallback. `Interrupt` is a signal or exception inside the `try` that aborts,
`Die` one outside it, or SIGKILL.

### RunLock, Clean

RunLock is the guard with the check and the write as two steps, crashes, reused
process ids (a process is an id and a start time) and copies of the directory.
Clean extends it with sessions: their journals, recovery refs, backup branches,
and the rebase in progress, whoever started it; and the steps of `clean`, which
may be killed at each. A run prepares (`Prepare`: journal, ref, backup) before git
stops at a conflict (`BeginRebase`), as the code does. Nothing is assumed about the
order of checks, writes and cleans. What happened between them is kept in three
history variables, which no step of the program reads: `crossed` (directories in
which a lock was missed, not written, or taken by a clean that had looked before,
while anybody is past the check there), `beside` (sessions under way between
clean's look for a rebase and its taking stock) and `recent` (sessions that left
something since clean took stock). `Remember` updates them, conjoined to the steps
of the program, and forgets what no longer concerns anybody.

### Cascade, ResolveUnit

Cascade is what `_resolve_unit_core` tries before the model, in the order of the
code: the replays of a sibling's or a past resolution (`Replay`, `ExactReuse`), the
structural rules with the core they may leave open (`StructuralResolve`,
`DeferredCore`), the generated file, empty side, docs and list unions, move race,
combination search, the side the tests pick (`ProbeSide`, once for each side,
`ProbeRaises`, `PickSide`, `PickNone`, with what the file holds meanwhile and what
is put back, nothing if the file could not be read before), block
capture and the source portfolio. A conflict says which of them are offered to it;
what they propose is a choice, and a verdict is what a full verification would say of
it. `Seen` is what a fast one says. ResolveUnit extends it.

The loop of `_resolve_unit` around one conflict. A verdict is the set of hard
and of soft findings of the validators; an answer of the model is a text or none,
with the reason it failed for. Each way out and each budget of the loop is there:
retries with their grants (oversized units, a critic's doubts, a recovery turn),
the caps a learned policy sets, the no-progress guard on repeated texts, the wall
budget, sampling, the strictness gate, risk (`risk.py`), the stash of a candidate
that only lost a dependency and its restoration, deletion acceptance, and the
cache of verdicts; and, in the wrapper around the loop, the rescue that asks for the
order of the sides' blocks. The locals of a call are gone with it (`Returns`).

### ResolveStep, StepContract

One call of `_resolve_step` for the files of a stop: phase 1 resolves the units
of each file and writes it; phase 2 gates, builds, repairs, rescues and stages
each. The verdict of the gate is a function of the text, so a text that is seen
again is judged again in the same way, from the cache or not. The state shared
between files (flags of the build test, the repair history, the seed) is kept
where the code keeps it, also where it outlives the file it was for. `landed` notes
for each file which file's text was staged, what that file's gate says of it, and by
which mechanism. StepContract
is what the session loop relies on: a stop is either resolved, with every file
staged, or escalated, with an initial part of the files staged; a file once staged
stays.

### RepairLadder

One `_repair_whole_file`: the rungs in their order, each with what must be
reported for it to fire, which texts it may try, how its text is verified and
how an error in it is dealt with; the rounds and the model rung; the tiers of
the budget; the wrapper that may decline a repair; the final climb. `Jobs` are the
files, callers and settings considered, each with what its texts may fail of. The
registry of what was tried is keyed as in the code by a rung's *name*, the failures
and the text; the picks of the two sides share one name.

### FileGate

`verify_file` with all its stages (markers, brackets, directives, repeats,
syntax, cargo and its baseline, target and full builds, compile database, header
fallback, language server, clippy, tests), each with the text it puts into the
worktree while it looks (the text on trial, or the conflict with its markers
blanked), the timeouts it notes in the session's `BuildTracker` and the retries
these grant; the build test of phase 2 that shares the tracker; the test gate.
`Setups` are the tools and settings found; `Texts` records what each stage would
find in a text.

### CommentPass

Phase 3 of `_resolve_step`, for one file after the other; ResolveStep has it as
one choice of a text. Comments of one lineage are a note, and a ledger says where
each note occurs and how its variants differ. A text is the number of the
resolution its code was spliced from and the notes edited in it.

| code | actions |
|---|---|
| `_run_comment_pass`, `run_comment_cegis` | `PassSkipped`, `NothingToDo`, `CallRaises`, `Unparseable`, `Planned`; each that ends the pass ends in `PassReturns`, which does what the caller does next |
| `_resolve_comment_contract_conflicts` | `ReResolved` (one trusted note after the other), `ReResolveFails`, `ReResolveRaises` |
| `_reconcile_comments`, `_run_jury` | `Settle`, `Judge`, `JuryRaises` |
| `_apply_jury_enforcement`, `_jury_driven_comment_reloop` | `Enforce`, `Counter`, `Review` |
| the caller, `_verify_post_comment` | `Verify`, `NextFile` |

The three callers of a pass (the first, the one on reopened code, the jury's
repeat) differ in `why`. `Route` is the jury's router and chair for a claim, a
pair of verdicts and a packet of evidence; `Rulings` is everything it may say. A
rewritten comment has one claim here and so one ruling, or none. What the last gate
makes of the text is a choice, too: it may put the text back, or mend its code. The
test for a repeated counterexample (14874) never holds, as the kinds that are compared
are never the jury's own (`jury_enforce.py` 656), so it is left out. `owed` is a history
variable: failed calls for plans that no later pass without one makes up for. What a verifier
finds wrong with a rewrite, and whether a plan would change tokens, is a choice.

### ModelCalls

One draw of `propose` or `propose_two_pass`: the calling thread, the threads of
the pool with one call each, the requests with their tries, deadlines and
abandoned workers, text mode after a refused JSON mode, the batch call, and the
signal that sets the client's interrupt flag. A batch may
bring up to `MaxExtra` more texts than it was asked for, each a candidate. The server
may answer, answer late, fail or stay silent at any time.

### LineDiff, MarkerFile, StructuralMerge

Pure operators, translated one by one. LineDiff is the matcher in Python and the
one in C; MarkerFile the parser of conflict markers and the splicers; StructuralMerge
nine rules that go by whole lines, in the order the resolver tries them, the check of
their result, the core a rule may leave open, and the way its answer goes back, with
the repair of its braces (a line that is but a brace taken out or put in).

The other rules stand between the nine: the union of two grown prose texts
(`structural_resolver.py` 397-400), lint against refactoring, a block one side moved
(491-494), lines inserted into a block the other side deleted (501-505), which all go
by lines, and those that read tokens, entities, brackets, lists, directives or
numbers. Where one of them stands it may offer any of the texts that may also come
from outside (`OtherRule`), and its offer goes through the same check and the same
splicing; what it computes is not modelled, and no property is about it. A brace
that is put inside a line of code is not modelled either.

Lines that differ in horizontal space only are one value. The parser has two tests for
a title above an underline, of which one forbids a stop, comma or exclamation mark at
its end (`parsers.py` 251, 260-262): `Titles` pass both, `Sentences` the laxer one. A
behaviour is one conflict taken through parsing, merging and splicing.

## 3. What the runs check

* **candidate_promote** - two promotes, a run, gc, the owner committing,
  resetting, working and switching. `NoLostEdit`: no committed edit leaves its
  branch unless its owner took it away. `TestedCandidateNotLost`: a state file
  that says success names a commit that still exists, or one that landed.
  `Promised`: the refinement. Both promotes can hold the same state file, and
  the owner can reset back to the tested commit after it landed, so a
  candidate can land twice. There is one candidate run, so no later run takes
  over the name of an earlier one: the theorem about `TestedCandidateNotLost`
  (section 4) is for any number of runs and has to exclude that.
* **candidate_runs** - two runs in the same second (one second is the worst
  case for names), a publish, others' pushes, fetches, a moving target.
  `TidyUnlessKilled`: only a killed run leaves a worktree or backup behind, and
  a branch is left only by a run whose rebase was accepted or that was killed.
  `PublishDropsOnlySeenPushes` (an action property): the only pushes a publish
  can overwrite are those the published run's snapshot had seen.
* **rebase_loop** - two picks, two files of which one offers several units to the
  human, every conflict pattern, subjects that mislead or not, both scan policies,
  refusals of git that last and two that pass or misread positions, all options of the
  session (348,480 states). `NoPickLost`: success means that every pick was replayed or
  dropped, and one that still had changes is dropped only where a subject git printed
  reads like its words for an empty pick. `MarkersOnlyByHand`: only a file of several
  units, in the hands of a human, brings markers into a commit. `EndedWhereClaimed`:
  the branch is where the result says, unless the rebase was over already (`TooLate`:
  the policy `stop`, or a third continue without a position). `Terminates` (liveness).
  Two picks are the least with a "next" conflict after a continue, two files the least
  with a file before and one after a failure, two glitches the least for `TooLate`.
  Each exception happens in the run: without it TLC finds the property violated, by the
  behaviours section 5 describes.
* **clean** - two processes in a repository and a copy of it, clean beside them, every
  order of checks, writes, crashes, copies and removals (665,132 states).
  `LiveMeansRunning`: a lock that reads as live is the lock of a run there.
  `SecondRunMissedTheLock`: a second run comes into a directory only after a lock was
  missed there in one of three ways. `RecoveryWhileRebasing`: the recovery ref and
  backup of a rebase in progress are there, unless its session was under way just
  between clean's look for a rebase and its taking stock. `CleanLeavesNothing`: a clean
  that ran to its end has left only what came after it took stock. Two processes and
  two births are enough for two runs that cross and for a stale lock read by a reuse of
  the same id, two clock values for a journal within and beyond the slack, here 0. In the
  run two processes do cross, and clean does rob a run of its lock and refs.
* **unit_loop** - a conflict of five kinds (strict and of a refactoring, strict
  with the probe of the sides, asked again, capped, one that deletes under a
  header), which between them are offered every mechanism of the cascade; one text
  that may come back and fresh ones, one retry, critic and recovery turn each, the
  wall budget on. `AcceptedPassed`: nothing is accepted while a hard failure stands
  that its verification looks for, but a deletion and an open core put in after the
  check; nor, where the strict modes are asked in full, what drops an obligation.
  `JudgedLosesNoDependency`: what the policy or an escape accepts by its warnings
  loses no dependency. `ConflictShown`: the file shows the conflict when the model
  is asked and when the conflict is given up, unless the tests raised over a side or the
  file could not be read before they ran. `TypeOK` bounds the turns.
  `Terminates`. 176,910 states.
* **step** - two files, five sets of features, two repair turns and one allowed on top,
  a no-progress threshold, the wall budget, the ship gate, with and without an
  unsupported file in conflict: every action of both phases happens (1,189,825 states).
  `StagedPassed`: what is staged for a file is a text of that file which the gate passes
  as it stands; four ways drop the repair the gate made (the seed, an injected symbol,
  F1, the second tier), the floor asks nobody, and the churn fallback goes by the file F1
  last looked at. `OneGoodSideNotLost`: a file with just one side that passes is not given
  up once its repairs are used up. `KeepsContract`: the refinement of StepContract.
  `Terminates`: a step returns, unless the verdict cache, the extra rung and the build
  test meet, which can then hand one text to and fro for ever (`Unbounded`; one of the
  five sets has all three). Two files are the least for state of one to reach the other.
* **comments** - three files with two notes each, of six ledgers (changed by a side,
  trusted or not, cosmetically changed, dropped from the text, gone with their
  code, new), two attempts a pass, one re-resolution, two jury repeats; the jury
  off, acting with blocking reviews, acting without (214,440 states). `CodeKept`: a file
  is staged with the code of a resolution accepted for it, which no plan has changed and
  only the gate may have mended. `ReviewBlocks`: where a review blocks, a file with a
  comment for review is staged as it was before its comments were touched, whatever was
  reopened or repeated meanwhile; but for an exception after the ruling, which the code
  drops together with the ruling. `TwoDeadCalls`: in any stretch of a session failed
  calls for plans outnumber the passes that end without one by at most two. That is not a
  bound for a session: a pass with nothing to reconcile sets the count back, so files
  that alternate with such a pass ask a dead server once each; nor are the jurors' own
  calls counted (14602). Two notes are the least for rulings of two kinds in one file and
  for a re-resolution that succeeds before one that fails, three files for two that fail
  with a pass between them, or before one that must not be asked about.
* **gate_session** - five texts (sound, wrong in every way, broken, garbled but
  mendable, with mendable directives), the tools present and missing, three
  checks in one session. `TreeIsTheSessions`: outside a build on trial and a
  tool's look at the file the worktree holds the session's own text (252,259 states). `MendedTextSeen`: a text the gate mended
  passes only if a compiler looked at it and did not refuse it (target builds and
  embedding Rust files aside). `NoFullBuildOnceDegraded` (an action property):
  once full builds are given up only a required test gate runs one. Three checks are enough for two timeouts to degrade the session and
  a third text to meet it degraded.
* **model_calls** - three calls of one try, or two of two tries with JSON mode,
  two threads for the code's eight so that calls queue, two signals. `OwnAnswers`:
  every candidate was made of the answer to the last request sent for its own
  sample (or the batch), never of a given-up one, and read under the profile its
  prompt was written for; there is one for each sample, and more only of a batch. `OneStallPerCall`: a call leaves one abandoned request
  at the server at most. `InterruptHeeded`: after a signal no request is sent
  again, unless the draw is in the pool, whose threads do not hear of it. `Ends`
  (liveness). 743,799 states.
* **ladder** - two merges, one or two rounds, five shapes of failure; the jobs
  are chosen so that the side picks, the rungs for C, the guard and the tier each
  happen, and the guard together with the side picks over two rounds, where the text
  it declined comes back. `OncePerText`: a rung that declined a text with certain
  failures does not try them again, and if a rung that fits is passed over, one of
  its name was tried on just that text.
* **text_merge** - 19,749 conflicts: every base of up to three lines up to
  renaming, against every pair of sides of up to three lines over its lines and
  a new one; four-line bases edited by both sides; long bases cut short; texts
  that end in a newline; sides that hold an underline of a divider's length
  (1,298,202 states).
  `MatcherIsExact`: both matchers return one same longest common subsequence.
  `BothEditsLand`: what the disjoint rule and the union of insertions offer holds
  the edits of both sides, each line as often as both differences give.
  `SidesInterchange`: the two line-by-line rules do not care which side is which.
  `CoresFit`: an open core lies where the offer says and is smaller than the
  conflict it was left by, and at most two are open (`CoresNest`). `FileIsWhole`: a finished file has the lines around the
  blocks, each block's text in its place, and no marker. The code's own
  limits (2, 5, 5 and 10 lines) are kept. The offers were compared with those of
  the code's functions on every conflict of the instance, without a difference.

* **merge_revives** *(violation)* - the zealous merge brings back a line both
  sides agree to have removed: `NothingRevived` fails. With base `a b b`,
  current `x x b` and replayed `a x` the result is `x x b`.
  `PROJECT.json` quotes the docstring this contradicts.

**Bounds.** `MaxUpstream`, `MaxRun`, `MaxTime`, `MaxUndo` (CandidateRef),
`MaxGlitch` (RebaseLoop), `MaxBorn`, `MaxTime` (RunLock, Clean), `MaxChecks`
(FileGate), `MaxTries`, `MaxSignals`, `MaxExtra` (ModelCalls), `MaxMerges` (RepairLadder)
bound counters in guards. Each limits how often the environment acts, none limits
the code; the budgets of the code itself (`MaxRetries`, `MaxCritic`, `Budget`,
`Allowance`, `Threshold`, ...) are small values of its own settings.
`MaxGlitch` is more than a bound on the search: were every read of the position
to fail the stuck-loop guard would never fire, so `Terminates` holds for
finitely many failures only. Promoters
and the processes of clean are interchangeable and declared symmetric in runs of safety; runs that
check liveness use no symmetry.

**Deadlock** checking is on where a session cannot stop half-way
(the runs of ResolveStep, CommentPass, FileGate and ModelCalls) and off elsewhere: sessions
and processes end, and
bounded environments run out.

**Fairness.** RebaseLoop: weak fairness of `Step`, as capybase is one sequential
process that runs on when it can (model calls have timeouts), and of `HumanStep`,
as the prompt waits for the human and a human at the terminal answers.
ResolveUnit: weak fairness of `Call` and `Leave`, and strong fairness of
`TimeIsUp`, as the clock the wall budget reads does run out though the loop looks
at it only between calls. ResolveStep: weak fairness of `Next`, one thread.
ModelCalls: weak fairness of the calling thread and of each thread of the pool;
nothing is owed by the server or by whoever interrupts, only deadlines are. The
others state none.

## 4. What is proved

For every value of the constants that satisfies the `ASSUME`s:

| theorem | says |
|---|---|
| `CandidateTypes` | `Spec => []TypeOK` of CandidateRef |
| `CandidateInvariant` | the inductive invariant `ImplInv` holds |
| `CandidateImplementsPromotion` | `Spec => Promised`: candidate mode implements Promotion |
| `NoEditIsLost` | `Spec => []NoLostEdit`, assuming `OwnerRaces = FALSE` |
| `PublishDropsWhatWasSeen` | `Spec => PublishDropsOnlySeenPushes` |
| `RunsAreTidy` | `Spec => []TidyUnlessKilled` |
| `TestedCandidateIsKept` | `Spec /\ [][ConsumedLater]_vars => []TestedCandidateNotLost` |
| `LiveLockIsARun` | `LockSpec => []LiveMeansRunning` |
| `RebaseTypes` | `Spec => []TypeOK` of RebaseLoop |
| `NoPickIsLost`, `MarkersComeByHand`, `EndsWhereClaimed` | `NoPickLost`, `MarkersOnlyByHand`, `EndedWhereClaimed` of RebaseLoop, for any subjects, files of several units, policies and numbers of glitches |
| `CleanTypes`, `CleanKeepsLocks` | types of Clean; the lock's result also beside clean |
| `LockMissedFirst`, `RecoveryOutlives`, `NothingIsLeft` | `SecondRunMissedTheLock`, `RecoveryWhileRebasing`, `CleanLeavesNothing`, for any order of checks, writes and cleans |
| `UnitTypes` | `Spec => []TypeOK` of ResolveUnit, with the bound on recovery turns |
| `NothingFailedIsAccepted`, `DependenciesAreKept`, `ConflictIsShown` | the three other invariants of unit_loop |
| `StepTypes` | types of ResolveStep |
| `OnlyPassedIsStaged`, `GoodSideIsTaken` | the two invariants of step, for every configuration |
| `StepKeepsContract` | `Spec => KeepsContract`: a step implements StepContract |
| `GateTypes` | types of FileGate, with the bounds on timeouts and second attempts |
| `TreeStaysTheSessions`, `MendedTextsAreSeen`, `DegradedForGood` | the three properties of gate_session |
| `NoRungTwice` | `OncePerText`, for any file, switches, failures and rounds |
| `CandidatesAreOwn`, `OneConnectionPerCall`, `SignalsAreHeeded` | the three safety properties of model_calls |
| `DisputedIsNotAccepted` | the jury's router accepts no claim a juror calls contradicted or has no verdict on |
| `ReopenedForContracts` | it reopens code only for an inherited contract, contradicted with executable evidence, where that is switched on |
| `CommentTypes` | types and budgets of CommentPass |
| `CodeIsKept`, `ReviewsBlock`, `TwoCallsAtMost` | the three properties of comments |
| `TextsInTheirPlaces` | `Spec => []FileIsWhole` of StructuralMerge, assuming `CloseMark \notin Lines` |
| `WhicheverIsCurrent` | `Spec => []SidesInterchange`, for texts of any length |
| `CoresInCores` | `Spec => []CoresNest`: at most two open cores, each the core of the offer under it (a part of `CoresFit`) |

`NoLostEdit` is not inductive: that a swap keeps the edits needs that a
candidate has the edits of the commit it was made from, wherever it is written
down. `ImplInv` says so of the state files (`FilesAreOffered`), of the copies
promote and publish hold (`DealsAreOffered`), and of the run in progress, whose
branch nobody else can move while the run's worktree has it checked out
(`RunOwnsBranch`): this is where git's refusal to delete a checked-out branch is
needed. `Consented` carries the approval from the check to the swap, for the
refinement. `EditInv` adds `CheckoutStable`: between swap and reset the branch
that is checked out is the one that was landed on, and still wants no more than
the candidate holds.

The other three results of candidate mode speak of all copies of a state: those
on disk and those promotes and publishes work with (`Live`). One lemma (`LiveStep`)
says where a copy can come from: it is one that was there, but for the record of a
promotion or publication, or the one the run in progress writes. An invariant
about all copies then has to be followed for the run only. `LeasesKnown` says that
the lease of a state holds no push the snapshot of its run had not seen; the push
of a publish is the only step that takes one off. `TidyInv` accounts for each
worktree, backup and branch by how its run ended, except those of the run under
way, and needs that a run removes its worktree before its refs. `KeptInv` is that
every successful copy is `Held`: its branch has its commit, or the candidate
landed and its second is over. That two copies of one name name one candidate, and
that a run still without a result has its name to itself (`OneOfAName`,
`NameUntaken`), is what makes the deletion of a branch harmless.

Without `ConsumedLater`, `TestedCandidateNotLost` is false. It says that promote
comes to delete a branch (`candidate_ref.py` 688-692) in a later second than its
name was made in (256-272). Otherwise: a run makes a candidate, a promote lands it,
the owner resets the branch and the promote deletes the candidate's branch; a
second run starts within the same second and takes the name, which is free again;
another promote, that had read the first run's state, lands that once more and
deletes the branch, now of the second run's candidate, which gc may collect though
a state file offers it. TLC finds this with two runs, one promoter, one reset and
one step of the clock; in practice a rebase seldom fits into a second.

`LiveLockIsARun` rests on `LockInv`: the start time of every process differs
from that of every other, and a lock's start time belongs to one process only,
the one that is running in the directory it names, or is gone. For clean,
`OrderInv` adds that in a directory that is not in `crossed` a process past its check
is alone (`Alone`) and a run's lock is its own (`Owner`): whoever comes then finds the
lock live and is refused (`OwnedIsLive`). `Births` says that start times are handed out
once and only a run leaves something, so what clean took stock of (`Stock`) can only be
what was there. `Keeping` is the heart of `RecoveryWhileRebasing`: whoever is under way
and not in `beside` has its ref and backup, and none of these is in the stock. `Counted`
follows what clean has still to remove, stage by stage, for `CleanLeavesNothing`.

RebaseLoop has four invariants. `Where` ties the session's place in the code to git's.
`Fates` says which picks are done at which position, and that a pick that is skipped with
its changes is `Misread`: git has printed a misleading subject since it last stopped
before it. `Marks` says of each file at a stop that what is touched had units, and that
one staged with markers is of several units and in a human's hands. `Patient` is that the
stuck counter counts continues that failed for a passing reason, so that two of them are
needed before the guard can fire on a finished rebase; the least pick of those left is
found by well-founded induction.

ResolveUnit's state falls into parts that a step treats alike: the locals of a
call (`Locals`), which go when it returns, what the session carries
(`CarriedType`), what the cascade has done to the file (`PreType`, `Probing`) and
how it ended (`Ends`). Every way out is one of two, a text accepted or none, and
is treated once. Beyond the properties it needs that what is stashed to fall back
on had passed, that a side is in the file only while the sides are probed, or after an exception, and
that a recovery turn is decided on only within the budget, which the latch of the
granted one has raised by one (`Recoveries`).

ResolveStep's invariant says what a text at each place in phase 2 is known to have
passed and of which file it is (`Standing`), what may be staged by which way (`Right`),
what F1 leaves behind for later files and which file it is
true of (`Remains`, `ToChurn`), that a file F1 has been over has not exactly one
good side (`PastF1`), and where the markers still are (`Marked`), from which the
refinement follows: phase 1 writes every file, so no step can stage or return with
one that shows its conflict.

For ModelCalls, an attempt is sent only when the one before was answered, and a call
given up sends no more, so the only request of a call that a worker may still read
is its last (`OpenIsLast`), and an answer on record was made of it (`Answers`); what a call has
sent and what it has left stay within its tries (`Attempts`); intents and plans
come before the samples, so that neither the profile nor the number of samples
changes while answers come in (`Order`).

FileGate's invariant has five parts, which the tools that look at the file keep, too: `Types`, `TimeoutsCounted` (the tracker's count is
the number of timeouts noted), `Kept` (who holds the worktree and what it was
before), `Allowed` (which builds a degraded session may start) and `Looked` (a
verdict on a mended text comes with the compiler's look at it).

For RepairLadder, `Registered` says that the registry and what was really tried agree:
every key was noted with a rung of that name tried on that text for those failures, and
a rung that notes before it tries, or when it declines, has its key there once it
declined. `NoRungTwice` follows, as only the registry, and never the rung's kind, makes a
fitting rung be passed over.

For StructuralMerge, `TextsInTheirPlaces` has to say what the parser finds in the file
git left. The recursion over the file has a solution (the least position from which it
can be solved is the first one), so the list of blocks satisfies its own equation;
from the position of each line in the file the first block ends at the closer git
wrote even when lines of a side look like openers, base marks or dividers, or the file
is given up; and so does the second. What is spliced then has two pieces and the rest.
A side that holds a line like a closer is excluded by `CloseMark \notin Lines`: the
parser takes that line for the end of the block, and with a line like an opener after
it finds three blocks where git wrote two. `WhicheverIsCurrent` needs no induction, as
the walk and the regions depend on the two scripts together only; it does need that
the unit on top of the stack is one (`StackInv`). `CoresInCores` follows from the depth
the two deferring rules ask for, and from every offer having three texts for a core or
none.

CommentPass's invariant has, beside the types: `Safe` (every text at hand, the
one that is staged included, is of an accepted resolution and unspoilt; numbers
of resolutions only grow, so a later one cannot make a text foreign), `Early`
(before the jury there are no rulings), `Heeded` (from the review on, a blocked
file has its frozen text in hand), `Counted` (a repeat for the jury still has
budget) and `Latched` (what is owed is what the latch has counted, and two of it latch the
phase off). The two
facts about the router are cases of its tables.

Where a theorem states the types of a module for all its instances, its run leaves
`TypeOK` out.

The assumptions say that bounds and budgets are numbers and switches Booleans, and
that names stand apart: a fresh text or none is not among the texts that come
back, a verdict of the gate is not one of the loop's own words, a verdict on a
conflict is made of findings, a text is a list of at least one line. TLC evaluates each of them on the module's run.

Only model-checked: `MatcherIsExact`, `BothEditsLand` and, but for `CoresNest`,
`CoresFit` of StructuralMerge. They say what the folds and recursive functions of
LineDiff compute for lists of any length (a longest common subsequence, a script
without gaps, how often a line occurs), which needs induction over data; that the
core of a partial merge is smaller than its conflict rests on that script as well.
And every liveness property (`Terminates` of RebaseLoop, ResolveUnit and
ResolveStep, `Ends` of ModelCalls), as fairness and ENABLED are out of the provers'
reach.

## 5. Where code and documentation part

Met while modelling, with the lines that disagree. The first has a run of its own, which
TLC refutes. Where one of the others touches a property, the property names it as an
exception and the run has it happen.

*Merging.* `structural_resolver.py:3646` zealous merge revives removed lines
(merge_revives). When current empties the overlap core, its offset (2127) points
at the following line, which `_resolve_deferred_core` (7328) then replaces, against
7217-7221: base `a a`, current `a`, replayed `b a`. A conflict between two runs may
duplicate lines (base `a b c d`, `p b q d` and `r b s d`), against 2195. The partial
disjoint merge drops a pure insertion at the edges (2035), against 1973-1984. A
convergent addition drops a line one side added twice, against 3281-3284. The
matcher is described as anchored on rare lines (`diff.py` 246-300); it counts
occurrences but does not use them.

*Resolving a conflict.* The retry counter is raised by recoveries that are granted
(`orchestrator.py` 20927); a stashed candidate that loses a dependency is restored
(18451-18487) though `risk.py` says it must escalate; a failed call on a deletion is
accepted for being empty (`verification.py` 288-296); a wall budget is ignored by a
loop of recoveries (18947).

*Before the model.* A deferred core is resolved and put in after the text around it
was verified, and what comes out is accepted unseen (7181, against 7110-7112).
Replayed texts are verified fast, where all syntax is left out (6815, 6877, against
6783-6784); strictness is not asked of them, and of a rule that takes lines as they
are it hears of no obligation, as that validator is left out, too (6223, against
`policy_strictness.py` 77-79). Fast verification leaves out a validator
`dependency_preservation`; none has that name. When the tests raise, on output that is
not text, the side that was tried stays in the file (8664), and when the file could not be
read before, nothing is put back (8612-8616); when they pick a side, the
one tried last does until the file is written, and if another file escalates before
that the human is shown no markers (6327). The probe accepts no side if both pass (8619-8625,
against 8573-8575). A block's path counts as deliberately kept before its text is
verified (8944). What a mechanism or a repair accepts is not judged by its warnings;
only the model's candidates are (`risk.py` 380-385).

*A step.* The churn fallback uses what F1 left of the file it looked at before (13883-13941,
against 13436-13441); 12746 takes a timeout of the
build test for a defect; the cached repair and the rung can hand two texts to and fro
for ever (12834, against 12215-12217), outside every budget; a final repair that passes is still followed
by the last resorts (13304-13365); a repair of the build test's findings is not built
again (13225-13265, against 12884-12886); several exits stage a mended text in its
unmended form (13112, against 12430-12434); the floor lands a side nobody verified; the ship-gate returns
before the files are staged (13992, against 13962-13963).

*Repairing a file.* An error in a rung after its text verified is swallowed with the
text (16497, 16604, ... against 16432-16433); a list of one whole-file unit still has
the sides of one conflict (17153); the model rung has changed the merge when the guard
declines (17888, against 14247-14250); the final climb is given no failures (13326), so
no rung that reads them can fire, against 13282-13303; the
picks of the two sides are noted as one before either is tried (17150-17151), so once
the guard has declined current's, replayed's is not tried on that text.

*Comments and jury.* A blocking review keeps the file's text, which is then staged
like any other, and the rebase goes on (`orchestrator.py` 14038-14042, against
`config.py` 1266-1270). When the jury's repeats are used up, or allowed none, the
disputed comments are staged (14860, 14892, 14824, against 14855-14857 and `config.py`
1251-1253);
the counterexamples are never given to the model (14863), and the test for a
repeated one compares kinds that never agree (14874), against 14852-14857. An
exception anywhere in the enforcement returns the reconciled text (14388, against
14580-14582, 14354), and a comment that cannot be taken apart into claims is not
judged (14658). An unknown verdict is read as not checkable, which is accepted
(`shadow_jury.py` 221-223, against `config.py` 1238-1239). Comments whose code is
gone are journalled as deleted and stay (`comment_reconciler.py` 538-549: only a
comment of the resolved text can be edited, and these have none). Code is reopened
for a trusted comment the last plan merely left out (1246-1262, against 1231-1232).
When the comments of reopened code fail, the text goes back and the list of accepted
resolutions does not (`orchestrator.py` 15008, 14390, against 2852). The
last gate may hand back a text whose code differs from the one that was reconciled
(15106-15109). The overlap with conflicts
compares positions in other versions, or lines of the file with markers, to
positions in the resolved text (`comment_reconciler.py` 384, `orchestrator.py`
15055-15060).

*Gating.* Phase 2 notes every timeout as generic (12740), so those that merit a longer
second attempt get none (against `verification.py` 6767-6770); a missing tool reads as
a passed syntax check in the end (7421-7433, against 6699-6704); a linker error hides
the compiler's (7061-7068).

*Calling a model.* A hard deadline is retried or not depending on which thread notices
it (`config.py` 156-159, `llm_openai.py` 72-79); an exception of one sample loses the
whole draw (`resolution_engine.py` 4883, against `llm_openai.py` 6-8); a draw in the
pool waits for its threads after an interrupt (4393, against `llm_openai.py` 154-156).

*The session.* A commit whose subject contains one of git's phrases for an empty pick
is skipped (`orchestrator.py` 2889, against 2875-2887); pasting one unit
of a file and skipping another stages markers (6340, against 6349); a
completion scan under the policy `stop` escalates after git has finished (11479, against
9190-9192 and 10511-10512); the stuck guard counts the continue that
finishes (11449, against 11434-11439).

*Around it.* The directory of a candidate lacks the suffix of its branch, so a
second run in one second replaces the first one's state (`candidate_ref.py` 337,
against 258-259), and a promote of a candidate whose name was consumed and taken
again in its second deletes the later candidate's branch (688-692, against 258-259);
an escalated session reads as crashed (`cleanup.py` 241, against 219-220); two
processes may both find no lock (`runlock.py` 126, against `cli.py` 1444), and
a run that starts after clean has looked for one loses what it writes (`cleanup.py` 317,
against `cli.py` 1444-1445).

## 6. What is not modelled

* *Conflicts.* What a mechanism of the cascade proposes, and how a repair edits a
  text, is a choice of a text; the validators of one conflict are a choice of
  findings. Tests that raise while an open core is probed. What a verdict then causes is modelled, how
  it is reached from the program text is not. Prompts and what models make of
  them, consensus by syntax tree, the tier rules of `acceptance.py`, and what the merge
  rules other than the nine compute (section 2).
* *Candidate mode.* Fingerprints of configuration, profile and toolchain in the
  reuse test (taken equal), a detached HEAD, a source branch that was deleted, a
  repository without a remote (publish refuses there).
* *The session.* The stash of unrelated dirty files before a continue: nothing
  reads it again. A second process that works on the rebase of a running session:
  it needs RebaseLoop composed with Clean.
* *Clean and the lock.* `--dry-run` and gc in clean, operations other than
  rebase, systems without `/proc`.
* *FileGate.* The registry that lets one of several equal builds run for all, and
  files that vanish during a check: one session builds one text at a time.
* *ModelCalls.* The planning answers between the two passes beyond their failure,
  answers that arrive after the draw is over (they reach nobody), a signal between
  setting a profile and the assignment after it.
* *CommentPass.* How lineages are formed and which rewrites each verifier refuses;
  shadow mode, which records rulings and acts on none; reports and bundles.
* *ResolveStep, RepairLadder.* The side pick at line 17472, which no path reaches;
  errors in rungs that cannot fire; the test of `_interactive_pending` (13377, 13390),
  which reads a default, as nothing sets that attribute; in Cascade, that a side restored
  from the stash is not asked again for what it loses (18451).
* *Everything else.* History advice, the future-apply probe and the resurrection
  scan, memory, calibration, drift, reports: what they advise is a verdict among
  those RebaseLoop's `Gate` may give. CLI, configuration, inspection, dry-run; the
  evaluation harness, corpora and scripts, which are not the product.

The map covers less than a fifth of the implementation. The rest is for the larger part
parsers, prompt builders, the single structural mechanisms, validators of single
programming languages, probes and scripts: code without state of its own, whose
answers are the nondeterministic choices above.

## 7. Plan

Done: candidate mode and its refinement; the session loop; the lock and clean;
step resolution in five modules with its contract; the gate of a file; drawing
candidates; comments and jury; the textual merge rules; proofs of candidate mode,
the lock, clean, the session loop, the conflict, the step, the repair ladder, the gate
of a file, the draws, the comments and the structural merge.

Next:

1. The gates between a resolved step and its continue (future-apply probe,
   resurrection, guardian, evolution audit), in place of RebaseLoop's `Gate`.
2. RebaseLoop composed with RunLock and Clean: a session aborted from outside, an
   interrupted session found by clean; with ResolveStep behind StepContract.
3. Proofs: that the script of LineDiff covers both lists without a gap, from which the
   rest of `CoresFit` would follow; it needs the fold of the matcher's gaps.
