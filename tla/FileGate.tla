------------------------------ MODULE FileGate ------------------------------
(***************************************************************************)
(* The whole-file gate: VerificationEngine.verify_file, and the session's  *)
(* BuildStateTracker, which it shares with the build test of phase 2 and   *)
(* with the test gate (both orchestrator.py).  A session checks texts one  *)
(* after the other, tests the builds of those that pass, and runs its test *)
(* gate, in any order.                                                     *)
(*                                                                         *)
(* What a compiler or a build says is chosen anew whenever it runs, among  *)
(* what it may say of such a text.  Whole-file syntax and markers are      *)
(* required, the default; a file is never a header and a target at once.   *)
(***************************************************************************)
EXTENDS Naturals, FiniteSets

CONSTANTS
  Texts,      \* the texts a session may check
  Setups,     \* the files and tools considered
  MaxChecks   \* bound: how many texts one session checks

Shape == {"ok", "mendable", "broken"}

\* What there is to know of a text.  "garbled" does not parse; "wrong" parses
\* but does not compile.  embeds: it uses include_str!.  flaws: what the checks
\* behind the compiler would find in it.
Flaws == {"duplicate", "unreachable", "lsp", "clippy", "tests"}
Text == [braces : Shape, directives : Shape, repeats : BOOLEAN, marked : BOOLEAN,
         says : {"compiles", "wrong", "garbled"}, embeds : BOOLEAN, flaws : SUBSET Flaws]

\* The file and the tools at hand.  tool: the language's standalone compiler.
\* db: compile_commands.json knows the file.  sides: whether a side of the
\* conflict is itself imbalanced.  build: cc_build_command, as it is ("full"), with
\* a target template, or with a template that does not apply to a header.
Setup == [language : {"c", "python", "rust", "toml", "other"},
          tool : BOOLEAN, cargo : BOOLEAN, db : BOOLEAN, ccache : BOOLEAN, sides : BOOLEAN,
          build : {"none", "full", "target", "header"},
          tests : {"none", "advisory", "required"}, extras : SUBSET {"lsp", "clippy", "tests"}]

ASSUME GateAssumption ==
  Texts \subseteq Text /\ Setups \subseteq Setup /\ MaxChecks \in Nat

VARIABLES
  setup,
  session,  \* the BuildStateTracker
  pc, call, \* where verify_file is, and what it knows so far
  tree,     \* what the worktree's file holds
  mine,     \* what the session itself last wrote there
  last,     \* what verify_file said last
  checks,   \* how many texts were checked
  ran       \* the build that the last step ran, if any

vars == <<setup, session, pc, call, tree, mine, last, checks, ran>>

-----------------------------------------------------------------------------

\* Conflict markers do not compile, and the tests that import them fail.
Unresolved == [braces |-> "ok", directives |-> "ok", repeats |-> FALSE, marked |-> TRUE,
               says |-> "garbled", embeds |-> FALSE, flaws |-> {"tests"}]

\* The baseline: the conflict with its markers blanked and one side left.
Blanked == [Unresolved EXCEPT !.marked = FALSE]

\* seen: what the best oracle that looked at the text made of it.  due: the later
\* tools that have still to look at the worktree's file.
NewCall(t) == [text |-> t, mended |-> FALSE, failed |-> t.marked, checked |-> FALSE,
               ok |-> TRUE, unknown |-> FALSE, seen |-> "no", attempts |-> 0, cap |-> 0,
               due |-> {}]
NoVerdict == [text |-> Unresolved, passed |-> FALSE, mended |-> FALSE, credited |-> FALSE,
              unknown |-> TRUE, seen |-> "no", built |-> FALSE]
NewSession == [available |-> TRUE, timeouts |-> 0, retries |-> 0]

Init ==
  /\ setup \in Setups
  /\ session = NewSession
  /\ pc = "idle" /\ call = NewCall(Unresolved)
  /\ tree = Unresolved /\ mine = Unresolved
  /\ last = NoVerdict /\ checks = 0 /\ ran = "none"

\* note_timeout: the session gives full builds up.
GiveUp(kind) ==
  session' = [session EXCEPT
    !.timeouts = @ + 1,
    !.available = @ /\ kind # "generic" /\ session.retries = 0]

Degraded == setup.build = "full" /\ ~session.available

Looks == UNCHANGED <<setup, session, mine>> /\ ran' = "none"
Quiet == Looks /\ UNCHANGED tree
Becomes(c, next) == call' = c /\ pc' = next

-----------------------------------------------------------------------------
(* The cheap checks, and the repairs that come with them. *)

InC == setup.language = "c"

\* Braces, literals and delimiters, unless a side is imbalanced itself; the
\* preprocessor; repeated `use` lines.
Braces(t) == IF setup.language \in {"c", "python", "rust"} /\ ~setup.sides THEN t.braces ELSE "ok"
Directives(t) == IF InC THEN t.directives ELSE "ok"
Uses(t) == IF setup.language = "rust" /\ t.repeats THEN "mendable" ELSE "ok"

Broken(t) == "broken" \in {Braces(t), Directives(t)}
Mendable(t) == "mendable" \in {Braces(t), Directives(t), Uses(t)}

\* The tools after the compiler that look at a Rust file in the worktree.
LaterTools ==
  IF setup.language # "rust" THEN {}
  ELSE setup.extras \ (IF setup.cargo THEN {} ELSE {"lsp"})

Refused(t) == [NoVerdict EXCEPT !.text = t, !.unknown = FALSE]

Check(t) ==
  /\ pc = "idle" /\ checks < MaxChecks
  /\ checks' = checks + 1
  /\ IF Broken(t)
       THEN last' = Refused(t) /\ UNCHANGED <<pc, call>>
       ELSE /\ Becomes([NewCall(t) EXCEPT !.mended = Mendable(t), !.due = LaterTools], "syntax")
            /\ UNCHANGED last
  /\ Quiet

-----------------------------------------------------------------------------
(* What an oracle may say: [ok, seen]. *)

Says(ok, seen) == [ok |-> ok, seen |-> seen]

\* A conclusive check against the baseline's errors.
Delta(t) == IF t.says = "compiles" THEN {Says(TRUE, "compiled")}
                                   ELSE {Says(FALSE, "rejected"), Says(TRUE, "excused")}

\* A compile without the project around it: it may fail on what only the project
\* has, and complaints of the kinds it cannot judge are excused.
OnItsOwn(t) ==
  {Says(FALSE, "rejected"), Says(TRUE, "excused")}
  \cup (IF t.says = "compiles" THEN {Says(TRUE, "compiled")} ELSE {})

\* _syntax_only_fallback.
Fallback(t) == IF setup.tool THEN OnItsOwn(t) ELSE {Says(FALSE, "no")}

\* The syntax stage answers: a refusal is a hard failure.
Hears(c, s) == [c EXCEPT !.checked = TRUE, !.ok = s.ok, !.failed = @ \/ ~s.ok,
                         !.seen = IF s.seen = "no" \/ @ = "compiled" THEN @ ELSE s.seen]

PyCompile ==
  /\ pc = "syntax" /\ setup.language = "python"
  /\ LET ok == call.text.says # "garbled"
     IN Becomes(Hears(call, Says(ok, IF ok THEN "compiled" ELSE "rejected")), "semantic")
  /\ Quiet /\ UNCHANGED <<last, checks>>

\* The worktree's file holds what a tool or a build looks at, until it is put back.
Shown(t) == tree' = t
Restore == tree' = mine

\* cargo check of the baseline and of the text, a manifest the other way round.
Cargo ==
  /\ pc = "syntax" /\ setup.language \in {"rust", "toml"} /\ setup.cargo
  /\ Becomes(call, "cargo") /\ Shown(IF setup.language = "rust" THEN Blanked ELSE call.text)
  /\ Looks /\ UNCHANGED <<last, checks>>

CargoAgain ==
  /\ pc = "cargo"
  /\ Becomes(call, "cargo2") /\ Shown(IF setup.language = "rust" THEN call.text ELSE Blanked)
  /\ Looks /\ UNCHANGED <<last, checks>>

\* Both runs are conclusive, or one is not: what is left is rustc alone.
CargoSays ==
  /\ \/ pc = "cargo2" /\ \E s \in Delta(call.text) : Becomes(Hears(call, s), "semantic")
     \/ /\ pc = "cargo2" \/ (pc = "cargo" /\ setup.language = "toml")
        /\ Becomes(call, "alone")
  /\ Restore
  /\ Looks /\ UNCHANGED <<last, checks>>

\* No cargo, or it was inconclusive: rustc on the file alone, if there is one; it
\* cannot look into a file that embeds others.
Rustc ==
  /\ pc = (IF setup.cargo THEN "alone" ELSE "syntax") /\ setup.language = "rust"
  /\ IF ~setup.tool THEN Becomes(call, "semantic")
     ELSE IF call.text.embeds
       THEN Becomes([call EXCEPT !.checked = TRUE, !.unknown = TRUE], "semantic")
       ELSE \E s \in OnItsOwn(call.text) : Becomes(Hears(call, s), "semantic")
  /\ Quiet /\ UNCHANGED <<last, checks>>

\* No oracle for this file.
Unchecked ==
  /\ \/ pc = "syntax" /\ (setup.language = "other" \/ (setup.language = "toml" /\ ~setup.cargo))
     \/ pc = "alone" /\ setup.language = "toml"
  /\ Becomes(call, "semantic")
  /\ Quiet /\ UNCHANGED <<last, checks>>

-----------------------------------------------------------------------------
(* C and C++. *)

\* compile_commands.json: the file's own flags, without its build.  Its yes only
\* saves the build, and its no is only what is left when nothing else runs.
CompileCommands ==
  /\ pc = "syntax" /\ InC
  /\ LET ToBuild == IF setup.build # "none" THEN "build" ELSE "alone"
     IN \/ Becomes(call, ToBuild)
        \/ /\ setup.db
           /\ \E s \in Delta(call.text) :
                Becomes([Hears(call, s) EXCEPT !.failed = call.failed],
                        IF s.ok THEN "alone" ELSE ToBuild)
  /\ Quiet /\ UNCHANGED <<last, checks>>

\* No build, or no need of one.
Standalone ==
  /\ pc = "alone" /\ InC
  /\ IF setup.tool THEN \E s \in OnItsOwn(call.text) : Becomes(Hears(call, s), "semantic")
                   ELSE Becomes(call, "semantic")
  /\ Quiet /\ UNCHANGED <<last, checks>>

\* The session has given full builds up: the fallback decides.
SkipBuild ==
  /\ pc = "build" /\ Degraded
  /\ \E s \in Fallback(call.text) : Becomes(Hears(call, s), "semantic")
  /\ Quiet /\ UNCHANGED <<last, checks>>

Building(c, next) == Becomes(c, next) /\ Shown(c.text)

Cap == IF setup.build = "full" THEN 300 ELSE 30

\* Without a template the fallback goes first, and what it refuses is not built:
\* it is refused, unless the error is in a header.
StartBuild ==
  /\ pc = "build" /\ ~Degraded
  /\ LET c == [call EXCEPT !.checked = TRUE, !.cap = Cap]
     IN IF setup.build # "full" THEN Building(c, "building")
        ELSE \E s \in Fallback(call.text) :
          IF s.ok THEN Building(Hears(c, s), "building")
          ELSE /\ Restore
               /\ \/ Becomes(Hears(c, s), "semantic")
                  \/ setup.tool /\ Becomes(Hears(c, Says(TRUE, "excused")), "semantic")
  /\ Looks /\ UNCHANGED <<last, checks>>

\* What a finished build shows.  The first of these that its output shows decides:
\* a linker's error, no build system, an error in this file, one elsewhere; or it
\* failed without naming an error.
Built(t) == {"linker", "unavailable", "elsewhere", "silent"}
            \cup {IF t.says = "compiles" THEN "ok" ELSE "here"}

Judged(c, how) ==
  CASE how = "ok"                -> Hears(c, Says(TRUE, "compiled"))
    [] how \in {"here", "silent"} -> Hears(c, Says(FALSE, "rejected"))
    [] OTHER                      -> [c EXCEPT !.ok = TRUE]

Command == IF setup.build = "target" THEN "target" ELSE "full"

\* Mutant: the tree keeps the text whose build could not be judged.
Finished_Kept(how) == Becomes(Judged(call, how), "semantic")
                      /\ IF how = "silent" THEN UNCHANGED tree ELSE Restore

Finished(how) == Becomes(Judged(call, how), "semantic") /\ Restore

\* The build ends.  A failure of ccache, and a target make knows no rule for, are
\* run again.
RunBuild ==
  /\ pc = "building" /\ ran' = Command
  /\ \/ \E how \in Built(call.text) : Finished(how)
     \/ setup.ccache /\ Becomes(call, "again") /\ UNCHANGED tree
     \/ setup.build = "target" /\ Becomes(call, "norule") /\ UNCHANGED tree
  /\ UNCHANGED <<setup, session, mine, last, checks>>

\* Or it times out.  A full build that was slow for a passing reason gets one more
\* attempt with twice the time; otherwise the fallback decides.
BuildTimesOut ==
  /\ pc = "building" /\ ran' = Command
  /\ \E kind \in {"generic", "passing"} :
       IF setup.build = "full" /\ kind = "passing" /\ call.attempts = 0
         THEN /\ session' = [session EXCEPT !.retries = @ + 1]
              /\ Becomes([call EXCEPT !.attempts = 1, !.cap = 2 * @], "building")
              /\ UNCHANGED tree
         ELSE /\ IF setup.build = "full" THEN GiveUp(kind) ELSE UNCHANGED session
              /\ \E s \in Fallback(call.text) : Becomes(Hears(call, s), "semantic")
              /\ Restore
  /\ UNCHANGED <<setup, mine, last, checks>>

\* These two builds run outside the handling of timeouts: a timeout leaves
\* verify_file as an exception.
Rerun(next) ==
  /\ \/ \E how \in Built(call.text) : Finished(how)
     \/ next /\ Becomes(call, "norule") /\ UNCHANGED tree
     \/ Becomes(call, "raised") /\ Restore
  /\ UNCHANGED <<setup, session, mine, last, checks>>

WithoutCcache == pc = "again" /\ ran' = Command /\ Rerun(setup.build = "target")

\* "No rule to make target": the full build instead.
FullInstead == pc = "norule" /\ ran' = "full" /\ Rerun(FALSE)

-----------------------------------------------------------------------------
(* What comes after the compiler, and the verdict. *)

Duplicates(t) ==
  IF setup.language \in {"python", "rust", "c"} THEN t.flaws \cap {"duplicate"} ELSE {}
Unreachable(t) == IF setup.language = "python" THEN t.flaws \cap {"unreachable"} ELSE {}
Clippy(t) ==
  IF setup.language = "rust" THEN t.flaws \cap setup.extras \cap {"clippy"} ELSE {}
Lsp(t) ==
  IF setup.language \in {"python", "rust"} THEN t.flaws \cap setup.extras \cap {"lsp"} ELSE {}

\* The tests of a Python file run on the worktree as it is.
ShadowTests(t) ==
  CASE setup.language = "python" -> tree.flaws \cap setup.extras \cap {"tests"}
    [] setup.language = "rust"   -> t.flaws \cap setup.extras \cap {"tests"}
    [] OTHER                     -> {}

\* In the order of the code: the language server on the baseline and on the text,
\* clippy the other way round (not on the baseline if it could not look at the
\* text), the tests on the text.
Foremost == IF "lsp" \in call.due THEN "lsp" ELSE IF "clippy" \in call.due THEN "clippy" ELSE "tests"

Later ==
  /\ pc = "semantic" /\ call.due # {}
  /\ Becomes(call, "tool") /\ Shown(IF Foremost = "lsp" THEN Blanked ELSE call.text)
  /\ Looks /\ UNCHANGED <<last, checks>>

LaterAgain ==
  /\ pc = "tool" /\ Foremost \in {"lsp", "clippy"}
  /\ Becomes(call, "tool2") /\ Shown(IF Foremost = "lsp" THEN call.text ELSE Blanked)
  /\ Looks /\ UNCHANGED <<last, checks>>

LaterDone ==
  /\ pc = "tool2" \/ (pc = "tool" /\ Foremost \in {"clippy", "tests"})
  /\ Becomes([call EXCEPT !.due = @ \ {Foremost}], "semantic") /\ Restore
  /\ Looks /\ UNCHANGED <<last, checks>>

\* Mutant: coherence alone is enough.
Verdict_Provisional(flaws) ==
  [text |-> call.text, passed |-> ~call.failed /\ flaws = {},
   mended |-> call.mended, credited |-> call.checked /\ call.ok,
   unknown |-> ~call.checked \/ call.unknown, seen |-> call.seen, built |-> FALSE]

\* A mended text is refused unless the compiler's verdict is positive.
Verdict(flaws) ==
  LET credited == call.checked /\ call.ok
  IN [text |-> call.text,
      passed |-> ~call.failed /\ flaws = {} /\ (call.mended => credited),
      mended |-> call.mended, credited |-> credited,
      unknown |-> ~call.checked \/ call.unknown, seen |-> call.seen, built |-> FALSE]

Decide ==
  /\ pc = "semantic" /\ call.due = {}
  /\ LET t == call.text
     IN \E unsure \in SUBSET (Lsp(t) \cup Clippy(t) \cup ShadowTests(t)) :   \* or it could not run
          last' = Verdict(Duplicates(t) \cup Unreachable(t) \cup unsure)
  /\ pc' = "idle" /\ call' = NewCall(Unresolved)
  /\ Quiet /\ UNCHANGED checks

-----------------------------------------------------------------------------
(* The session's other builds. *)

\* The file's own target, or else pre_continue, if that is a build.
TestBuild == IF setup.build \in {"target", "header"} THEN "target"
             ELSE IF setup.tests # "none" THEN "phase2" ELSE "none"

\* Mutant: phase 2 does not look at the state of the session.
Phase2Skips_Never == FALSE
Phase2Skips == TestBuild = "none" \/ (TestBuild = "phase2" /\ ~session.available)

\* The build test of a text that passed, once.  A timeout is always noted as one
\* for no particular reason.
BuildTest ==
  /\ pc = "idle" /\ last.passed /\ ~last.built
  /\ last' = [last EXCEPT !.built = TRUE]
  /\ IF Phase2Skips THEN Quiet
     ELSE /\ tree' = last.text /\ mine' = last.text
          /\ ran' = TestBuild
          /\ UNCHANGED setup
          /\ UNCHANGED session \/ GiveUp("generic")
  /\ UNCHANGED <<pc, call, checks>>

\* _run_tests, when the test command is a build.  Its timeouts are not noted.
RunTests ==
  /\ pc = "idle" /\ setup.tests # "none"
  /\ session.available \/ setup.tests = "required"
  /\ ran' = "tests"
  /\ UNCHANGED <<setup, session, pc, call, tree, mine, last, checks>>

\* Nothing is left to do, or the session died of the exception.
Over ==
  /\ pc = "raised" \/ (pc = "idle" /\ checks = MaxChecks)
  /\ ran' = "none"
  /\ UNCHANGED <<setup, session, pc, call, tree, mine, last, checks>>

Next ==
  \/ \E t \in Texts : Check(t)
  \/ PyCompile \/ Cargo \/ CargoAgain \/ CargoSays \/ Rustc \/ Unchecked
  \/ CompileCommands \/ Standalone \/ SkipBuild \/ StartBuild
  \/ RunBuild \/ BuildTimesOut \/ WithoutCcache \/ FullInstead
  \/ Later \/ LaterAgain \/ LaterDone
  \/ Decide \/ BuildTest \/ RunTests \/ Over

Spec == Init /\ [][Next]_vars

-----------------------------------------------------------------------------
(* Properties. *)

TypeOK ==
  /\ setup \in Setups
  /\ session \in [available : BOOLEAN, timeouts : 0..(2 * MaxChecks), retries : 0..MaxChecks]
  /\ pc \in {"idle", "syntax", "cargo", "cargo2", "alone", "build", "building", "again",
             "norule", "semantic", "tool", "tool2", "raised"}
  /\ {tree, mine, call.text, last.text} \subseteq Texts \cup {Unresolved, Blanked}
  /\ checks \in 0..MaxChecks

\* However a check ends, also by an exception, the worktree's file holds what the
\* session wrote, not the text that was on trial.
TreeIsTheSessions == pc \in {"idle", "raised"} => tree = mine

\* A mended text is accepted only if some compiler looked at it and did not refuse
\* it: after any sequence of timeouts, skipped builds and missing tools, except
\* where the target build of a file has no preflight, and where rustc cannot look
\* into the file.
MendedTextSeen ==
  last.passed /\ last.mended /\ setup.build \notin {"target", "header"}
  /\ ~(setup.language = "rust" /\ last.text.embeds)
  => last.seen \in {"compiled", "excused"}

\* Once full builds are given up, only a required test gate runs one, and the
\* build that replaces a missing target.
NoFullBuildOnceDegraded ==
  [][ran' \in {"full", "phase2", "tests"} /\ setup.build \in {"none", "full"}
     => session.available \/ (ran' = "tests" /\ setup.tests = "required")]_vars
=============================================================================
