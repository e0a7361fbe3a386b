---------------------------- MODULE ResolveStep ----------------------------
(***************************************************************************)
(* One step of a session: orchestrator._resolve_step, from the gathered    *)
(* conflicts to its return.  First every file gets a text and is written;  *)
(* then each file goes through the gate (verify_file), the build test and  *)
(* the repairs of phase 2, the last resorts of an exhausted budget, and    *)
(* landing.  How one conflict is resolved is ResolveUnit's.                *)
(*                                                                         *)
(* A text is known by what the gate and the build test say of it, and by   *)
(* whether it is one side of the conflict unchanged; both say the same     *)
(* whenever they are asked again.                                          *)
(***************************************************************************)
EXTENDS Naturals, Sequences, FiniteSets, SequencesExt

CONSTANTS
  Files,            \* the number of conflicted files with units
  Gates,            \* what the gate may say of a merge: "ok", "mended" or a failure
  CompileFailures,  \* the failures among them that the compiler reported
  Budget,           \* policy.max_whole_file_repair_retries, or the unit's retries
  Allowance,        \* extra repairs while the undeclared names get fewer: 4
  Threshold,        \* rounds of the same signature that stop the repairs
  NoClear,          \* future.no_clear_stop_rounds
  Configs,          \* the configurations and conflicts, see Config
  TimeBudget,       \* whether max_whole_file_repair_seconds is set
  ShipGate          \* future.enable_ship_gate_final_probe

\* The build test, of the file or the full build it falls back to, the features
\* that are switched on, whether an unsupported file is in conflict, too, and what
\* the gate and the build test may say of a whole side.
Features == {"seed", "cache", "rung", "rescue", "floor", "comments", "collapse"}
Config == [build : {"none", "file", "full"}, on : SUBSET Features,
           blocked : BOOLEAN, verdicts : SUBSET [gate : Gates, builds : BOOLEAN]]
Passing == {"ok", "mended"}

ASSUME StepAssumption ==
  /\ Files \in Nat \ {0} /\ Budget \in Nat \ {0} /\ Allowance \in Nat
  /\ Threshold \in Nat \ {0, 1} /\ NoClear \in Nat \ {0, 1}
  /\ "ok" \in Gates /\ CompileFailures \subseteq Gates \ Passing
  /\ {"none", "passed", "build", "collapsed"} \cap Gates = {}
  /\ Configs \subseteq Config /\ {TimeBudget, ShipGate} \subseteq BOOLEAN

File == 1..Files
Side == {"current", "replayed"}

VARIABLES
  config,   \* the configuration, and what kind of conflicts there are
  sides,    \* what the gate and the build say of each file's sides
  pc, file, \* where _resolve_step is, and at which file
  tree,     \* each file: with markers ("raw"), "written", or "staged"
  buffer,   \* each file's text until it is staged, and how its accepted
            \* resolutions came about
  loop,     \* phase 2 of the file
  cache,    \* _gate_pass_cache of the file
  left,     \* _pipe_ctx and _compiling: the file F1 last looked at, and
            \* whether both its sides passed
  landed,   \* what was staged for each file: a text of which file, what that
            \* file's gate says of it, and by which mechanism
  result    \* how the step returned

vars == <<config, sides, pc, file, tree, buffer, loop, cache, left, landed, result>>

-----------------------------------------------------------------------------
(* Texts. *)

Text(f, side, gate, builds) == [of |-> f, side |-> side, gate |-> gate, builds |-> builds]
Builds == IF config.build = "none" THEN {TRUE} ELSE BOOLEAN
Merges(f) == {Text(f, "none", g, b) : g \in Gates, b \in Builds}
SideText(f, s) == Text(f, s, sides[f][s].gate, sides[f][s].builds)
NoText == Text(0, "none", "none", FALSE)

\* "mended": the gate passes what its own coherence repair made of the text.
Passes(t) == t.gate \in Passing

Mended(t) == IF t.gate = "mended" THEN Text(t.of, "none", "ok", t.builds) ELSE t

\* The provenance of the accepted resolutions: a model's, a rule's, a side's, the
\* floor's, the cache's.
Via == {"model", "rules", "source", "floor", "cache"}
Made(t, via) == [text |-> t, via |-> via]
NoBuffer == Made(NoText, "rules")

\* The sides the portfolio, the rung and the rescue take: they pass as they are.
Intact == {s \in Side : sides[file][s].gate = "ok"}

NewLoop == [retries |-> 0, verdict |-> "none", built |-> FALSE, portfolio |-> FALSE,
            rung |-> FALSE, injected |-> FALSE, rounds |-> <<>>, noClear |-> 0,
            cycles |-> {}, model |-> FALSE]

setup == <<config, sides>>

Init ==
  /\ config \in Configs
  /\ sides \in [File -> [Side -> config.verdicts]]
  /\ pc = "first" /\ file = 1
  /\ tree = [f \in File |-> "raw"]
  /\ buffer = [f \in File |-> NoBuffer]
  /\ loop = NewLoop /\ cache = <<>> /\ left = [of |-> 0, both |-> FALSE]
  /\ landed = [f \in File |-> [of |-> 0, gate |-> "none", by |-> "none"]]
  /\ result = "none"

text == buffer[file].text
To(b) == buffer' = [buffer EXCEPT ![file] = b]

-----------------------------------------------------------------------------
(* Going on to the next file, and returning. *)

\* Files seeded in phase 1 skip phase 2.
ToDo(tr) == {f \in File : tr[f] # "staged"}

\* The next file that is not staged enters phase 2.
GoOn(tr) ==
  /\ loop' = NewLoop /\ cache' = <<>>
  /\ IF ToDo(tr) = {} THEN pc' = "staged" /\ UNCHANGED file
                      ELSE pc' = "verify" /\ file' = Min(ToDo(tr))
  /\ UNCHANGED result

Return(how) == result' = how /\ pc' = "returned" /\ UNCHANGED file

\* An unsupported file is still unmerged.
Outcome == IF config.blocked THEN "escalated" ELSE "clean"

Finish ==
  /\ pc = "staged"
  /\ Return(Outcome)
  /\ UNCHANGED <<setup, tree, buffer, loop, cache, left, landed>>

\* _write_and_stage.
StageOnly(t, by) ==
  /\ To(NoBuffer)
  /\ tree' = [tree EXCEPT ![file] = "staged"]
  /\ landed' = [landed EXCEPT ![file] = [of |-> t.of, gate |-> t.gate, by |-> by]]

StageAs(t, by) ==
  /\ StageOnly(t, by)
  /\ GoOn(tree')
  /\ UNCHANGED setup

Stage(t, by) == StageAs(t, by) /\ UNCHANGED left

-----------------------------------------------------------------------------
(* Phase 1. *)

NextFirst ==
  /\ IF file < Files THEN file' = file + 1 /\ UNCHANGED <<pc, result, loop, cache>>
                     ELSE GoOn(tree')
  /\ UNCHANGED <<setup, left>>

\* A convergence seed that passes the gate is staged at once.
Seed ==
  /\ pc = "first" /\ "seed" \in config.on
  /\ \E t \in Merges(file) : Passes(t) /\ StageOnly(t, "seed")
  /\ NextFirst

\* A whole side by a fast path or the floor, or a resolution of every unit, by
\* models, rules, the majority rescue or the terminal arms.
Resolutions ==
  {Made(SideText(file, s), v) : s \in Side, v \in {"source", "floor"}}
  \cup {Made(t, v) : t \in Merges(file), v \in {"model", "rules", "source"}}

FirstText ==
  /\ pc = "first"
  /\ \E b \in Resolutions : (b.via = "floor" => "floor" \in config.on) /\ To(b)
  /\ tree' = [tree EXCEPT ![file] = "written"]
  /\ NextFirst
  /\ UNCHANGED landed

\* Mutant: the step stops there and is not marked as escalated.
FirstFails_Unmarked ==
  /\ pc = "first"
  /\ \E left_ \in {"raw", "written"} : tree' = [tree EXCEPT ![file] = left_]
  /\ Return("clean")
  /\ UNCHANGED <<setup, buffer, loop, cache, left, landed>>

\* A unit stays unresolved; a probe may have overwritten the file.
FirstFails ==
  /\ pc = "first"
  /\ \E left_ \in {"raw", "written"} : tree' = [tree EXCEPT ![file] = left_]
  /\ Return("escalated")
  /\ UNCHANGED <<setup, buffer, loop, cache, left, landed>>

-----------------------------------------------------------------------------
(* Phase 2: the gate. *)

Keep == UNCHANGED <<setup, tree, left, landed, result, file>>
Move(to) == pc' = to /\ Keep
Verdict(v) == loop' = [loop EXCEPT !.verdict = v]

\* The newest three buffers that passed.
Cached(b) ==
  IF "cache" \notin config.on \/ \E n \in DOMAIN cache : cache[n] = b THEN cache
  ELSE LET all == Append(cache, b) IN
       IF Len(all) > 3 THEN Tail(all) ELSE all

\* The last Threshold rounds: what the gate said, and whether a model's
\* resolution was in the buffer.
Rounds(r) == LET all == Append(loop.rounds, r) IN
             IF Len(all) > Threshold THEN Tail(all) ELSE all

SameSignature(rounds) ==
  /\ Len(rounds) = Threshold
  /\ \A n \in DOMAIN rounds : rounds[n].sig = rounds[1].sig
  /\ \E n \in DOMAIN rounds : rounds[n].model

StoppedClearing(n) == n >= NoClear

AfterLoop(verdict) == IF verdict = "passed" THEN "landing" ELSE "exhausted"

Verify ==
  /\ pc = "verify"
  /\ LET v == IF Passes(text) THEN "passed" ELSE text.gate
         model == buffer[file].via = "model"
         rounds == Rounds([sig |-> v, model |-> model])
         noClear == IF loop.rounds = <<>> THEN 0
                    ELSE IF v = "passed" THEN 0
                    ELSE IF model THEN loop.noClear + 1 ELSE loop.noClear
     IN  /\ To([buffer[file] EXCEPT !.text = Mended(@)])
         /\ cache' = IF v = "passed" THEN Cached(Mended(text)) ELSE cache
         /\ loop' = [loop EXCEPT !.verdict = v, !.rounds = rounds, !.noClear = noClear]
         /\ Move(IF SameSignature(rounds) \/ StoppedClearing(noClear) THEN AfterLoop(v)
                 ELSE "portfolio")

AfterPortfolio(verdict) == IF verdict = "passed" THEN "build" ELSE "failed"

\* The true-side portfolio, once and before the first repair: an intact side
\* replaces the merge; after a failure it goes through the gate again.
PortfolioDue == loop.retries = 0 /\ ~loop.portfolio

TakesSide(s) ==
  /\ pc = "portfolio" /\ PortfolioDue /\ s \in Intact
  /\ To(Made(SideText(file, s), "source"))
  /\ loop' = [loop EXCEPT !.portfolio = TRUE]
  /\ Move(IF loop.verdict = "passed" THEN "build" ELSE "verify")
  /\ UNCHANGED cache

NoPortfolio ==
  /\ pc = "portfolio"
  /\ loop' = [loop EXCEPT !.portfolio = @ \/ PortfolioDue]
  /\ Move(AfterPortfolio(loop.verdict))
  /\ UNCHANGED <<buffer, cache>>

\* A text put in whole is to be built.
Unbuilt(l) == [l EXCEPT !.built = FALSE]

\* What the build test says of a text: a build without an error line (a
\* timeout) says nothing.
BuildSays(t) == {"unclear", IF t.builds THEN "builds" ELSE "build"}

\* The build test, once until the flag is reset.  After one that says nothing
\* the text goes on to the repairs, although it has passed.
BuildTest ==
  /\ pc = "build" /\ config.build # "none" /\ ~loop.built
  /\ \E says \in BuildSays(text) :
       /\ loop' = [loop EXCEPT !.built = TRUE,
                     !.verdict = IF says = "build" THEN "build" ELSE @]
       /\ Move(IF says = "builds" THEN "landing" ELSE "failed")
  /\ UNCHANGED <<buffer, cache>>

NoBuildTest ==
  /\ pc = "build" /\ (config.build = "none" \/ loop.built)
  /\ Move("landing") /\ UNCHANGED <<buffer, loop, cache>>

-----------------------------------------------------------------------------
(* Phase 2: after a failure. *)

\* _gate_pass_cache_lookup: the newest other buffer that passed.
Others == {n \in DOMAIN cache : cache[n] # text}

Restorable == loop.verdict # "passed" /\ Others # {}

Restore ==
  /\ pc = "failed" /\ Restorable
  /\ To(Made(cache[Max(Others)], "cache"))
  /\ loop' = Unbuilt(loop)
  /\ Move("verify") /\ UNCHANGED cache

CompileFlavoured(v) == v \in CompileFailures \cup {"build"}

\* Mutant: the rung forgets that it has been tried.
RungDue_Again == "rung" \in config.on /\ CompileFlavoured(loop.verdict)

RungDue == "rung" \in config.on /\ ~loop.rung /\ CompileFlavoured(loop.verdict)

\* The whole-side repair rung: a model picks among the intact sides, or none.
Rung ==
  /\ pc = "failed" /\ ~Restorable /\ RungDue
  /\ \/ \E s \in Intact : /\ To(Made(SideText(file, s), "source"))
                          /\ loop' = [Unbuilt(loop) EXCEPT !.rung = TRUE]
                          /\ Move("verify")
     \/ loop' = [loop EXCEPT !.rung = TRUE] /\ Move("failed") /\ UNCHANGED buffer
  /\ UNCHANGED cache

Repairing == pc = "failed" /\ ~Restorable /\ ~RungDue

\* A failure that reads like one between units: the units' sides spliced, if
\* they pass the gate and the file's own build.
CrossUnit ==
  /\ Repairing /\ loop.retries = 0 /\ loop.verdict # "passed"
  /\ \E t \in Merges(file) :
       /\ Passes(t) /\ (config.build = "file" => t.builds)
       /\ To(Made(Mended(t), "source"))
  /\ Verdict("passed")
  /\ Move("landing") /\ UNCHANGED cache

\* The allowance is live while the undeclared names get fewer, the history of
\* the files before this one included.
MayRepair ==
  /\ ~(TimeBudget /\ loop.model)
  /\ loop.retries < Budget + Allowance
  /\ loop.verdict \notin loop.cycles

\* Out of budget, out of time, the failure of a rule's buffer back again, or the
\* gate found unable to judge: by a stamp, or by rust-analyzer one retry later.
GiveUp ==
  /\ Repairing
  /\ \E n \in {0, 1} : /\ n = 1 => MayRepair
                       /\ loop' = [loop EXCEPT !.retries = @ + n]
  /\ Move(AfterLoop(loop.verdict)) /\ UNCHANGED <<buffer, cache>>

\* A signature copied from a side, gated but not built and, if the gate mended
\* it, not mended; the accepted resolutions stay what they were.
Inject ==
  /\ Repairing /\ loop.verdict # "passed" /\ MayRepair
  /\ \E t \in Merges(file) : Passes(t) /\ To(Made(t, buffer[file].via))
  /\ loop' = [loop EXCEPT !.verdict = "passed", !.injected = TRUE]
  /\ Move("landing") /\ UNCHANGED cache

\* _guarded_whole_file_repair, and what the oscillation tracker and the time
\* budget remember of its result.
Repaired(b) ==
  /\ To(b)
  /\ loop' = [loop EXCEPT !.retries = @ + 1,
                !.cycles = IF b.via = "model" THEN @ ELSE @ \cup {loop.verdict},
                !.model = @ \/ b.via = "model"]
  /\ Move("verify") /\ UNCHANGED cache

\* The deterministic repairs, in order; the first that finds something to do.
RepairByRule ==
  /\ Repairing /\ MayRepair
  /\ \E t \in Merges(file) : Repaired(Made(t, "rules"))

\* The unit at fault is resolved again, by a model or by the cascade before it.
AskAgain ==
  /\ Repairing /\ MayRepair
  /\ \E t \in Merges(file) : Repaired(Made(t, "model"))

\* Nothing came back: the side fallback of a whole-file repair.
SideFallback ==
  /\ Repairing /\ MayRepair
  /\ \E t \in Merges(file) : Repaired(Made(t, "source"))

\* Nothing came back, and the buffer is that side already.
NoRepair ==
  /\ Repairing /\ MayRepair
  /\ loop' = [loop EXCEPT !.retries = @ + 1, !.verdict = "none"]
  /\ Move("exhausted") /\ UNCHANGED <<buffer, cache>>

-----------------------------------------------------------------------------
(* The last resorts. *)

\* A final repair that passes goes where a failed one goes, except past the floor.
LastRepair(passes) == "endgame"

\* One more deterministic repair; it becomes the buffer only if the gate mends it.
FinalRepair ==
  /\ pc = "exhausted"
  /\ \/ Verdict(loop.verdict) /\ Move("endgame") /\ UNCHANGED buffer
     \/ \E t \in Merges(file) :
          /\ To(IF t.gate = "mended" THEN Made(Mended(t), "rules")
                ELSE [buffer[file] EXCEPT !.via = "rules"])
          /\ Verdict(IF Passes(t) THEN "passed" ELSE t.gate)
          /\ Move(LastRepair(Passes(t)))
  /\ UNCHANGED cache

\* The wholesale winner's side, whatever the gate says of it.
Floor ==
  /\ pc = "endgame" /\ "floor" \in config.on /\ loop.verdict # "passed"
  /\ \E s \in Side : To(Made(SideText(file, s), "floor"))
  /\ Move("landing") /\ UNCHANGED <<loop, cache>>

\* F1 looks at a file whose repairs are used up; it would leave one alone whose
\* repair is being asked of a human, but nothing sets _interactive_pending.
Eligible == loop.retries >= Budget

\* Tier 1: the side that carries the churn, if it passes the gate.
TakenOver(near) == {s \in near : Passes(SideText(file, s))}

\* Mutant: the side probed first, if it passes, whatever the other does.
CompileClean_Current == IF Passes(SideText(file, "current")) THEN {"current"} ELSE {}

\* After tier 1: the only side that passes.
CompileClean == LET ok == {s \in Side : Passes(SideText(file, s))} IN
                IF Cardinality(ok) = 1 THEN ok ELSE {}

\* What stays behind: once tier 1 has taken over, it would engage again and
\* keep the churn fallback from doing so.
Probed(tookOver) ==
  left' = [of |-> file,
           both |-> ~tookOver /\ \A s \in Side : Passes(SideText(file, s))]

F1 ==
  /\ pc = "endgame" /\ Eligible
  /\ \E near \in {{}} \cup {{s} : s \in Side} :
       LET took == TakenOver(near) IN
       /\ Probed(took # {})
       /\ \/ \E s \in took \cup (IF took = {} THEN CompileClean ELSE {}) :
               StageAs(SideText(file, s), "f1")
          \/ /\ took = {} /\ CompileClean = {} /\ pc' = "rescue"
             /\ UNCHANGED <<setup, file, tree, buffer, loop, cache, landed, result>>

NoF1 ==
  /\ pc = "endgame" /\ ~Eligible
  /\ Move("rescue") /\ UNCHANGED <<buffer, loop, cache>>

\* The side takeover rescue: the nearest of the intact sides.
Rescue ==
  /\ pc = "rescue" /\ "rescue" \in config.on
  /\ \E s \in Intact : Stage(SideText(file, s), "rescue")

\* None is intact, or the deadline is near.
NoRescue ==
  /\ pc = "rescue"
  /\ Move("tier 2") /\ UNCHANGED <<buffer, loop, cache>>

Other(s) == CHOOSE o \in Side : o # s

\* Tier 2: a model picks a side; it, a repair of it, or the other side must pass.
Tier2 ==
  /\ pc = "tier 2" /\ Eligible
  /\ \E s \in Side :
       LET own == SideText(file, s)  other == SideText(file, Other(s)) IN
       \/ Passes(own) /\ Stage(own, "tier 2")
       \/ ~Passes(own) /\ \E t \in Merges(file) : Passes(t) /\ Stage(t, "tier 2")
       \/ ~Passes(own) /\ Passes(other) /\ Stage(other, "tier 2")
       \/ ~Passes(own) /\ ~Passes(other) /\ Move("lost") /\ UNCHANGED <<buffer, loop, cache>>

\* Tier 2 is not asked, or does not answer.
NoTier2 ==
  /\ pc = "tier 2"
  /\ Move(IF left.both THEN "churn" ELSE "lost") /\ UNCHANGED <<buffer, loop, cache>>

\* The churn fallback takes a side of the file F1 last looked at.
ChurnText(s) == SideText(left.of, s)

Churn ==
  /\ pc = "churn"
  /\ \E s \in Side : Stage(ChurnText(s), "churn")

\* Escalation; the ship gate's fresh pass takes it back, and the file stays unstaged.
Escalate ==
  /\ pc = "lost"
  /\ Return(IF ShipGate /\ Passes(text) THEN "clean" ELSE "escalated")
  /\ UNCHANGED <<setup, tree, buffer, loop, cache, left, landed>>

-----------------------------------------------------------------------------
(* Landing. *)

\* Mutant: the reconciled text is kept although the gate refuses it.
Reconciled_Unverified(b) == {b} \cup {[b EXCEPT !.text = t] : t \in Merges(file)}

\* Comments reconciled, if the gate passes the result.
Reconciled(b) ==
  {b} \cup {[b EXCEPT !.text = Mended(t)] :
            t \in {u \in Merges(file) : "comments" \in config.on /\ Passes(u)}}

\* A degenerate output is replaced by the wholesale winner's side.
Floored(b) ==
  {b} \cup {Made(SideText(file, s), "floor") : s \in {r \in Side : "floor" \in config.on}}

\* Deleted code that came back: the current side, or the buffer pruned, if it passes.
Respectful(b) ==
  {b} \cup {Made(Mended(t), "source") :
            t \in {u \in Merges(file) \cup {SideText(file, "current")} : Passes(u)}}

Landings ==
  UNION {UNION {Respectful(c) : c \in Floored(r)} : r \in Reconciled(buffer[file])}

\* By which way the buffer came: an injected text is staged as it was injected,
\* unless a step of the landing replaces it.
WayOf(b) == IF b.via = "floor" THEN "floor"
            ELSE IF loop.injected /\ b = buffer[file] THEN "injection" ELSE "loop"

Land ==
  /\ pc = "landing"
  /\ \E b \in Landings : Stage(b.text, WayOf(b))

\* The merge is one side verbatim and nobody designed it to be.
Collapse ==
  /\ pc = "landing" /\ "collapse" \in config.on
  /\ \E b \in Landings : b.via # "source" /\ To(b)
  /\ Verdict("collapsed")
  /\ Return("escalated")
  /\ UNCHANGED <<setup, tree, cache, left, landed>>

-----------------------------------------------------------------------------
Done == pc = "returned" /\ UNCHANGED vars

FirstPhase == Seed \/ FirstText \/ FirstFails
Gate == Verify \/ NoPortfolio \/ BuildTest \/ NoBuildTest \/ \E s \in Side : TakesSide(s)
Failed == Restore \/ Rung \/ CrossUnit \/ GiveUp \/ Inject \/ RepairByRule
          \/ AskAgain \/ SideFallback \/ NoRepair
LastResorts == FinalRepair \/ Floor \/ F1 \/ NoF1 \/ Rescue \/ NoRescue \/ Tier2
               \/ NoTier2 \/ Churn \/ Escalate
Next == Finish \/ FirstPhase \/ Gate \/ Failed \/ LastResorts \/ Land \/ Collapse \/ Done

Spec == Init /\ [][Next]_vars
FairSpec == Spec /\ WF_vars(Next)

-----------------------------------------------------------------------------
(* Properties. *)

Ways == {"none", "seed", "injection", "f1", "rescue", "tier 2", "churn", "loop", "floor"}
Texts == [of : 0..Files, side : Side \cup {"none"}, gate : Gates \cup {"none"},
          builds : BOOLEAN]
Verdicts == Gates \cup {"none", "passed", "build", "collapsed"}

\* The types of the variables.
TypeOK ==
  /\ config \in Configs /\ sides \in [File -> [Side -> config.verdicts]]
  /\ pc \in {"first", "verify", "portfolio", "build", "failed", "exhausted", "endgame",
             "rescue", "tier 2", "churn", "lost", "landing", "staged", "returned"}
  /\ file \in File
  /\ tree \in [File -> {"raw", "written", "staged"}]
  /\ buffer \in [File -> [text : Texts, via : Via]]
  /\ loop.retries \in 0..(Budget + Allowance) /\ loop.noClear \in 0..NoClear
  /\ loop.verdict \in Verdicts /\ loop.cycles \subseteq Verdicts
  /\ {loop.built, loop.portfolio, loop.rung, loop.injected, loop.model} \subseteq BOOLEAN
  /\ Len(loop.rounds) <= Threshold
  /\ Range(loop.rounds) \subseteq [sig : Verdicts, model : BOOLEAN]
  /\ Len(cache) <= 3 /\ Range(cache) \subseteq Texts
  /\ left \in [of : 0..Files, both : BOOLEAN]
  /\ landed \in [File -> [of : 0..Files, gate : Gates \cup {"none"}, by : Ways]]
  /\ result \in {"none", "clean", "escalated"}

Staged == {f \in File : tree[f] = "staged"}

\* The mechanisms that stage a text the gate has passed as they gave it, without
\* the coherence repair the gate may have made.
Unmended == {"seed", "injection", "f1", "tier 2"}

\* Whatever stages a file, through the loop or past it, stages a text of that very
\* file which the gate passes as it stands, or, for the four mechanisms that drop
\* the repair, passes mended.  Two go by that: the wholesale floor, which asks
\* nobody, and the churn fallback, whose text and verdict are those of the file F1
\* last looked at.
StagedPassed ==
  \A f \in Staged :
     LET l == landed[f] IN
     \/ l.by = "floor"
     \/ l.by = "churn" /\ l.gate \in Passing
     \/ l.of = f /\ l.gate \in (IF l.by \in Unmended THEN Passing ELSE {"ok"})

\* A file whose repairs are used up, with one side that passes, is not given up:
\* F1 takes that side before anybody is asked.
OneGoodSideNotLost ==
  /\ TypeOK
  /\ pc = "lost" /\ Eligible =>
       Cardinality({s \in Side : Passes(SideText(file, s))}) # 1

\* What run() relies on: see StepContract.
Contract ==
  INSTANCE StepContract WITH File <- File, ShipGate <- ShipGate, blocked <- config.blocked,
                             tree <- tree, result <- result
KeepsContract == Contract!Contract

\* A text that passes the gate and fails to build may go back and forth with a side
\* the rung takes, outside every budget: the cache gives the one back for the other,
\* and nothing counts it.
Unbounded == {"cache", "rung"} \subseteq config.on /\ config.build # "none"

\* Every step returns: the repairs, the restored buffers and the last resorts come
\* to an end, but where the cache, the rung and a build test meet.
Terminates == Unbounded \/ <>(pc = "returned")
=============================================================================
