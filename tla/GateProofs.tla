----------------------------- MODULE GateProofs -----------------------------
(***************************************************************************)
(* Proofs about the whole-file gate and about the ladder of repairs of a   *)
(* file that failed it, for any texts, files, tools and any number of      *)
(* checks and rounds.  The four properties of the gate rest on one         *)
(* invariant, in four parts: the types; how many timeouts are still        *)
(* possible; what the worktree's file and the session's flag are while a   *)
(* build runs; and that a positive verdict of the compiler stage comes     *)
(* with a compiler that looked.  That of the ladder rests on what its      *)
(* registry of tried repairs says of what was really tried.                *)
(***************************************************************************)
EXTENDS FileGate, RepairLadder, TLAPS

-----------------------------------------------------------------------------
(* The gate. *)

Seen  == {"no", "compiled", "excused", "rejected"}
Good  == {"compiled", "excused"}
Known == Texts \cup {Unresolved, Blanked}

Calls == [text : Known, mended : BOOLEAN, failed : BOOLEAN, checked : BOOLEAN, ok : BOOLEAN,
          unknown : BOOLEAN, seen : Seen, attempts : {0, 1}, cap : Nat,
          due : SUBSET {"lsp", "clippy", "tests"}]

Sessions == [available : BOOLEAN, timeouts : Nat, retries : Nat]

Results == [text : Known, passed : BOOLEAN, mended : BOOLEAN, credited : BOOLEAN,
             unknown : BOOLEAN, seen : Seen, built : BOOLEAN]

Types ==
  /\ setup \in Setups
  /\ session \in Sessions
  /\ pc \in {"idle", "syntax", "cargo", "cargo2", "alone", "build", "building", "again",
             "norule", "semantic", "tool", "tool2", "raised"}
  /\ call \in Calls /\ last \in Results
  /\ tree \in Known /\ mine \in Known
  /\ checks \in 0..MaxChecks

\* A check may still note a timeout until its build is over, and the test of its
\* build may note another; a check tries a slow build again only once.
Trying == pc \in {"syntax", "cargo", "cargo2", "alone", "build", "building"}
Closing == pc \in {"again", "norule", "semantic", "tool", "tool2"}
Owed == IF Trying THEN 2
        ELSE IF Closing \/ (last.passed /\ ~last.built) THEN 1
        ELSE 0
TimeoutsCounted ==
  /\ session.timeouts + Owed <= 2 * checks
  /\ session.retries + (IF Trying /\ call.attempts = 0 THEN 1 ELSE 0) <= checks

\* The text on trial, or the baseline, is in the worktree only while a build or a
\* tool runs on it.
OnTrial == pc \in {"building", "again", "norule"}
LookedAt == pc \in {"cargo", "cargo2", "tool", "tool2"}
Kept == OnTrial \/ LookedAt \/ tree = mine

\* A full build runs in a session that has not given them up, after a compiler
\* looked at the text.
InBuild == OnTrial \/ pc = "build"
Allowed ==
  /\ InBuild => setup.build # "none"
  /\ OnTrial /\ setup.build = "full" => session.available /\ call.seen \in Good
  /\ pc = "norule" => setup.build = "target"

\* A positive answer of the compiler stage comes from a compiler.
Judging == setup.build \notin {"target", "header"}
Looked ==
  /\ Judging /\ ~(setup.language = "rust" /\ call.text.embeds) /\ call.checked /\ call.ok
       => call.seen \in Good
  /\ MendedTextSeen

Inv == Types /\ TimeoutsCounted /\ Kept /\ Allowed /\ Looked

-----------------------------------------------------------------------------
(* What the oracles say. *)

Said == [ok : BOOLEAN, seen : Seen]

LEMMA AnswersFit ==
  ASSUME NEW t
  PROVE  /\ Delta(t) \subseteq Said /\ OnItsOwn(t) \subseteq Said
         /\ Fallback(t) \subseteq Said
         /\ \A s \in Delta(t) \cup OnItsOwn(t) \cup Fallback(t) : s.ok => s.seen \in Good
<1> DEFINE Sound(s) == s \in Said /\ (s.ok => s.seen \in Good)
<1>1. /\ Sound(Says(TRUE, "compiled")) /\ Sound(Says(FALSE, "rejected"))
      /\ Sound(Says(TRUE, "excused")) /\ Sound(Says(FALSE, "no"))
  BY DEF Says, Said, Seen, Good
<1> HIDE DEF Sound
<1>2. \A s \in Delta(t) \cup OnItsOwn(t) \cup Fallback(t) : Sound(s)
  BY <1>1 DEF Delta, OnItsOwn, Fallback
<1> QED BY <1>2 DEF Sound

\* Updates keep the types of what they update.
LEMMA CallUpdates ==
  ASSUME NEW c \in Calls
  PROVE  /\ \A b \in BOOLEAN : /\ [c EXCEPT !.mended = b] \in Calls
                               /\ [c EXCEPT !.failed = b] \in Calls
                               /\ [c EXCEPT !.checked = b] \in Calls
                               /\ [c EXCEPT !.unknown = b] \in Calls
         /\ \A d \in SUBSET {"lsp", "clippy", "tests"} : [c EXCEPT !.due = d] \in Calls
         /\ \A n \in Nat : [c EXCEPT !.cap = n] \in Calls
         /\ \A n \in {0, 1} : [c EXCEPT !.attempts = n] \in Calls
  BY DEF Calls

LEMMA SessionUpdates ==
  ASSUME NEW s \in Sessions
  PROVE  /\ \A b \in BOOLEAN : [s EXCEPT !.available = b] \in Sessions
         /\ \A n \in Nat : /\ [s EXCEPT !.timeouts = n] \in Sessions
                           /\ [s EXCEPT !.retries = n] \in Sessions
  BY DEF Sessions

\* The call with which a build starts.
LEMMA TrialFits ==
  ASSUME call \in Calls
  PROVE  LET c == [call EXCEPT !.checked = TRUE, !.cap = Cap] IN
         c \in Calls /\ c.text = call.text /\ c.text \in Known /\ c.attempts = call.attempts
<1>1. [call EXCEPT !.checked = TRUE] \in Calls
  BY CallUpdates
<1>2. Cap \in Nat
  BY DEF Cap
<1>3. [call EXCEPT !.checked = TRUE, !.cap = Cap] \in Calls
  BY <1>1, <1>2, CallUpdates
<1> QED BY <1>3 DEF Calls

LEMMA GivingUp ==
  ASSUME session \in Sessions, NEW kind, GiveUp(kind)
  PROVE  session' \in Sessions /\ session'.timeouts = session.timeouts + 1
         /\ session'.retries = session.retries
<1>1. [session EXCEPT !.timeouts = session.timeouts + 1] \in Sessions
  BY SessionUpdates DEF Sessions
<1>2. session' \in Sessions
  BY <1>1, SessionUpdates DEF GiveUp, Sessions
<1> QED BY <1>2 DEF GiveUp, Sessions

\* What the syntax stage makes of an answer.
LEMMA HearsFits ==
  ASSUME NEW c \in Calls, NEW s \in Said
  PROVE  /\ Hears(c, s) \in Calls
         /\ Hears(c, s).text = c.text /\ Hears(c, s).attempts = c.attempts
         /\ Hears(c, s).ok = s.ok
         /\ (s.ok => s.seen \in Good) => (s.ok => Hears(c, s).seen \in Good)
  BY DEF Hears, Calls, Said, Seen, Good

LEMMA JudgedFits ==
  ASSUME NEW c \in Calls, NEW how \in {"ok", "here", "silent", "linker", "unavailable", "elsewhere"}
  PROVE  /\ Judged(c, how) \in Calls
         /\ Judged(c, how).text = c.text
         /\ c.seen \in Good /\ Judged(c, how).ok => Judged(c, how).seen \in Good
<1> DEFINE yes == Says(TRUE, "compiled") no == Says(FALSE, "rejected")
<1>1. yes \in Said /\ no \in Said /\ yes.ok /\ ~no.ok /\ yes.seen \in Good
  BY DEF Says, Said, Seen, Good
<1>2. CASE how = "ok"
  BY <1>1, <1>2, HearsFits DEF Judged
<1>3. CASE how \in {"here", "silent"}
  BY <1>1, <1>3, HearsFits DEF Judged
<1>4. CASE how \in {"linker", "unavailable", "elsewhere"}
  BY <1>4 DEF Judged, Calls
<1> QED BY <1>2, <1>3, <1>4

LEMMA BuiltHow ==
  ASSUME NEW t
  PROVE  Built(t) \subseteq {"ok", "here", "silent", "linker", "unavailable", "elsewhere"}
  BY DEF Built
-----------------------------------------------------------------------------
(* The invariant holds at the start and after every step: for each part,   *)
(* one step per kind of action.                                            *)

LEMMA UnresolvedIsKnown == {Unresolved, Blanked} \subseteq Known /\ NewCall(Unresolved) \in Calls
  BY DEF Unresolved, Known, NewCall, Calls, Seen

LEMMA NewCallFits ==
  ASSUME NEW t \in Known, t.marked \in BOOLEAN
  PROVE  NewCall(t) \in Calls
  BY DEF NewCall, Calls, Seen

LEMMA InvInit == Init => Inv
  BY UnresolvedIsKnown, GateAssumption
  DEF Init, Inv, Types, TimeoutsCounted, Kept, Allowed, Looked, MendedTextSeen, NewSession, NewCall,
      NoVerdict, Results, Sessions, Seen, Trying, Closing, Owed, OnTrial, InBuild

LEMMA TextFits ==
  ASSUME NEW t \in Texts
  PROVE  t \in Known /\ t.marked \in BOOLEAN /\ t.embeds \in BOOLEAN
  BY GateAssumption DEF Known, Text

LEMMA SetupFits ==
  Types => /\ setup.language \in {"c", "python", "rust", "toml", "other"}
           /\ setup.build \in {"none", "full", "target", "header"}
           /\ setup.tests \in {"none", "advisory", "required"}
           /\ LaterTools \in SUBSET {"lsp", "clippy", "tests"}
  BY GateAssumption DEF Types, Setup, LaterTools

LEMMA VerdictFits ==
  ASSUME Types, NEW flaws
  PROVE  /\ Verdict(flaws) \in Results
         /\ Verdict(flaws).text = call.text /\ ~Verdict(flaws).built
         /\ Verdict(flaws).seen = call.seen
         /\ Verdict(flaws).passed /\ Verdict(flaws).mended => call.checked /\ call.ok
  BY DEF Verdict, Results, Types, Calls

\* The types: the actions that answer a question of the compiler stage, those
\* that begin or end a build, and the rest.
LEMMA StepTypes == Inv /\ [Next]_vars => Types'
<1> SUFFICES ASSUME Inv, [Next]_vars PROVE Types'
  OBVIOUS
<1> USE GateAssumption
<1>0. Types /\ call \in Calls
  BY DEF Inv, Types
<1>1. ASSUME NEW t \in Texts, Check(t) PROVE Types'
  <2>1. [NewCall(t) EXCEPT !.mended = Mendable(t), !.due = LaterTools] \in Calls
    <3>1. Mendable(t) \in BOOLEAN
      BY DEF Mendable
    <3>2. [NewCall(t) EXCEPT !.mended = Mendable(t)] \in Calls
      BY <3>1, TextFits, NewCallFits, CallUpdates
    <3> QED BY <1>0, <3>2, SetupFits, CallUpdates
  <2>2. Refused(t) \in Results
    BY TextFits DEF Refused, NoVerdict, Results, Seen
  <2> QED BY <1>0, <1>1, <2>1, <2>2 DEF Check, Types, Quiet, Looks, Becomes
<1>2. CASE PyCompile
  <2> DEFINE ok == call.text.says # "garbled"
             s == Says(ok, IF ok THEN "compiled" ELSE "rejected")
  <2>1. s \in Said
    BY DEF Says, Said, Seen
  <2>2. Hears(call, s) \in Calls
    BY <1>0, <2>1, HearsFits
  <2> HIDE DEF s
  <2>3. call' = Hears(call, s) /\ pc' = "semantic" /\ Quiet /\ UNCHANGED <<last, checks>>
    BY <1>2 DEF PyCompile, Becomes, s
  <2> QED BY <1>0, <2>2, <2>3 DEF Types, Quiet, Looks
<1>3. CASE Cargo \/ CargoAgain \/ CargoSays
  <2>1. call' \in Calls
    BY <1>0, <1>3, HearsFits, AnswersFit DEF Cargo, CargoAgain, CargoSays, Becomes
  <2>2. tree' \in Known /\ pc' \in {"cargo", "cargo2", "alone", "semantic"}
    BY <1>0, <1>3, UnresolvedIsKnown
    DEF Cargo, CargoAgain, CargoSays, Becomes, Shown, Restore, Types, Calls
  <2> QED BY <1>0, <1>3, <2>1, <2>2 DEF Cargo, CargoAgain, CargoSays, Types, Looks
<1>4. CASE Rustc
  <2>1. [call EXCEPT !.checked = TRUE, !.unknown = TRUE] \in Calls
    BY <1>0 DEF Calls
  <2> QED BY <1>0, <1>4, <2>1, HearsFits, AnswersFit DEF Rustc, Types, Quiet, Looks, Becomes
<1>5. CASE Unchecked
  BY <1>0, <1>5 DEF Unchecked, Types, Quiet, Looks, Becomes
<1>6. CASE CompileCommands
  <2>1. ASSUME NEW s \in Said PROVE [Hears(call, s) EXCEPT !.failed = call.failed] \in Calls
    BY <1>0, HearsFits DEF Calls
  <2> QED BY <1>0, <1>6, <2>1, AnswersFit DEF CompileCommands, Types, Quiet, Looks, Becomes
<1>7. CASE Standalone
  BY <1>0, <1>7, HearsFits, AnswersFit DEF Standalone, Types, Quiet, Looks, Becomes
<1>8. CASE SkipBuild
  BY <1>0, <1>8, HearsFits, AnswersFit DEF SkipBuild, Types, Quiet, Looks, Becomes
<1>9. CASE StartBuild
  <2> DEFINE c == [call EXCEPT !.checked = TRUE, !.cap = Cap]
  <2>1. c \in Calls /\ c.text \in Known
    BY <1>0, TrialFits
  <2>2. Says(TRUE, "excused") \in Said
    BY DEF Says, Said, Seen
  <2>3. \A s \in Said : Hears(c, s) \in Calls /\ Hears(c, s).text \in Known
    BY <2>1, HearsFits
  <2>4. Fallback(call.text) \subseteq Said
    BY AnswersFit
  <2> HIDE DEF c
  <2>5. call' \in Calls /\ pc' \in {"building", "semantic"} /\ tree' \in Known
    <3>1. CASE setup.build # "full"
      BY <1>9, <3>1, <2>1 DEF StartBuild, Building, Shown, Looks, Becomes, c
    <3>2. CASE setup.build = "full"
      <4>1. PICK s \in Fallback(call.text) :
              IF s.ok THEN Building(Hears(c, s), "building")
              ELSE /\ Restore
                   /\ \/ Becomes(Hears(c, s), "semantic")
                      \/ setup.tool /\ Becomes(Hears(c, Says(TRUE, "excused")), "semantic")
        BY <1>9, <3>2 DEF StartBuild, c
      <4> QED BY <1>0, <4>1, <2>2, <2>3, <2>4 DEF Building, Shown, Becomes, Restore, Types
    <3> QED BY <3>1, <3>2
  <2> QED BY <1>0, <1>9, <2>5 DEF StartBuild, Looks, Types
<1>10. ASSUME NEW how \in Built(call.text), Finished(how)
       PROVE  call' \in Calls /\ pc' = "semantic" /\ tree' \in Known
  BY <1>0, <1>10, BuiltHow, JudgedFits DEF Finished, Becomes, Restore, Types
<1>11. CASE RunBuild
  <2>1. call' \in Calls /\ pc' \in {"semantic", "again", "norule"} /\ tree' \in Known
    BY <1>0, <1>10, <1>11 DEF RunBuild, Becomes, Types
  <2> QED BY <1>0, <1>11, <2>1 DEF RunBuild, Types
<1>12. CASE BuildTimesOut
  <2>1. [call EXCEPT !.attempts = 1, !.cap = 2 * @] \in Calls
    <3>1. [call EXCEPT !.attempts = 1] \in Calls
      BY <1>0, CallUpdates
    <3>2. 2 * call.cap \in Nat
      BY <1>0 DEF Calls
    <3> QED BY <3>1, <3>2, CallUpdates
  <2>2. ASSUME NEW kind, GiveUp(kind) PROVE session' \in Sessions
    BY <1>0, <2>2, GivingUp DEF Types
  <2>3. [session EXCEPT !.retries = @ + 1] \in Sessions
    BY <1>0, SessionUpdates DEF Types, Sessions
  <2> QED BY <1>0, <1>12, <2>1, <2>2, <2>3, HearsFits, AnswersFit
          DEF BuildTimesOut, Becomes, Restore, Types
<1>13. CASE WithoutCcache \/ FullInstead
  BY <1>0, <1>10, <1>13 DEF WithoutCcache, FullInstead, Rerun, Becomes, Restore, Types
<1>14. CASE Decide
  BY <1>0, <1>14, VerdictFits, UnresolvedIsKnown DEF Decide, Types, Quiet, Looks
<1>15. CASE BuildTest
  <2>1. [last EXCEPT !.built = TRUE] \in Results /\ last.text \in Known
    BY <1>0 DEF Types, Results
  <2>2. GiveUp("generic") => session' \in Sessions
    BY <1>0, GivingUp DEF Types
  <2> QED BY <1>0, <1>15, <2>1, <2>2 DEF BuildTest, Types, Quiet, Looks
<1>17. CASE Later \/ LaterAgain \/ LaterDone
  <2>1. call' \in Calls
    <3>1. call.due \ {Foremost} \in SUBSET {"lsp", "clippy", "tests"}
      BY <1>0 DEF Calls
    <3> QED BY <1>0, <1>17, <3>1, CallUpdates DEF Later, LaterAgain, LaterDone, Becomes
  <2>2. tree' \in Known /\ pc' \in {"tool", "tool2", "semantic"}
    BY <1>0, <1>17, UnresolvedIsKnown
    DEF Later, LaterAgain, LaterDone, Becomes, Shown, Restore, Types, Calls
  <2> QED BY <1>0, <1>17, <2>1, <2>2 DEF Later, LaterAgain, LaterDone, Types, Looks
<1>16. CASE RunTests \/ Over \/ UNCHANGED vars
  BY <1>0, <1>16 DEF RunTests, Over, vars, Types
<1> QED
  BY <1>1, <1>2, <1>3, <1>4, <1>5, <1>6, <1>7, <1>8, <1>9, <1>11, <1>12, <1>13, <1>14, <1>15,
     <1>16, <1>17 DEF Next

\* The worktree's file: the actions that leave it alone, and those that do not.
LEMMA StepKept == Inv /\ [Next]_vars => Kept'
<1> SUFFICES ASSUME Inv, [Next]_vars PROVE Kept'
  OBVIOUS
<1>1. CASE \/ \E t \in Texts : Check(t)
           \/ PyCompile \/ Rustc \/ Unchecked \/ CompileCommands \/ Standalone
           \/ SkipBuild
  <2>1. tree = mine /\ Quiet
    BY <1>1 DEF Check, PyCompile, Rustc, Unchecked, CompileCommands, Standalone,
               SkipBuild, Inv, Kept, OnTrial, LookedAt
  <2> QED BY <2>1 DEF Quiet, Looks, Kept
<1>2. CASE StartBuild
  BY <1>2 DEF StartBuild, Building, Shown, Looks, Becomes, Restore, Kept, OnTrial, LookedAt
<1>3. CASE RunBuild \/ BuildTimesOut \/ WithoutCcache \/ FullInstead
  BY <1>3 DEF RunBuild, BuildTimesOut, WithoutCcache, FullInstead, Rerun, Finished, Becomes,
              Restore, Kept, OnTrial, LookedAt
<1>4. CASE Decide \/ RunTests \/ Over \/ UNCHANGED vars
  BY <1>4 DEF Decide, RunTests, Over, vars, Quiet, Looks, Inv, Kept, OnTrial, LookedAt
<1>5. CASE BuildTest
  BY <1>5 DEF BuildTest, Quiet, Looks, Inv, Kept, OnTrial, LookedAt
<1>6. CASE Cargo \/ CargoAgain \/ CargoSays \/ Later \/ LaterAgain \/ LaterDone
  BY <1>6 DEF Cargo, CargoAgain, CargoSays, Later, LaterAgain, LaterDone, Looks, Becomes,
              Restore, Kept, LookedAt
<1> QED
  BY <1>1, <1>2, <1>3, <1>4, <1>5, <1>6 DEF Next

\* What is known while a build runs.
LEMMA StepAllowed == Inv /\ [Next]_vars => Allowed'
<1> SUFFICES ASSUME Inv, [Next]_vars PROVE Allowed'
  OBVIOUS
<1>0. Types /\ call \in Calls /\ Allowed
  BY DEF Inv, Types
<1>1. CASE \/ \E t \in Texts : Check(t)
           \/ PyCompile \/ Cargo \/ CargoAgain \/ CargoSays \/ Rustc \/ Unchecked \/ Standalone
           \/ SkipBuild \/ Later \/ LaterAgain \/ LaterDone \/ Decide
  <2>1. pc' \notin {"build", "building", "again", "norule"}
    BY <1>1 DEF Check, PyCompile, Cargo, CargoAgain, CargoSays, Rustc, Unchecked, Standalone,
               SkipBuild, Later, LaterAgain, LaterDone, Decide, Becomes
  <2> QED BY <2>1 DEF Allowed, InBuild, OnTrial
<1>2. CASE CompileCommands
  <2>1. pc' \in {"alone", "build"} /\ setup' = setup /\ (pc' = "build" => setup.build # "none")
    BY <1>2 DEF CompileCommands, Becomes, Quiet, Looks
  <2> QED BY <2>1 DEF Allowed, InBuild, OnTrial
<1>3. CASE StartBuild
  <2> DEFINE c == [call EXCEPT !.checked = TRUE, !.cap = Cap]
  <2>1. c \in Calls
    BY <1>0, TrialFits
  <2>2. \A s \in Fallback(call.text) : s \in Said /\ (s.ok => s.seen \in Good)
    BY AnswersFit
  <2>3. \A s \in Fallback(call.text) : s.ok => Hears(c, s).seen \in Good
    BY <2>1, <2>2, HearsFits
  <2> HIDE DEF c
  <2>4. /\ pc' \in {"building", "semantic"} /\ setup' = setup /\ session' = session
        /\ pc' = "building" /\ setup.build = "full" => call'.seen \in Good
    BY <1>3, <2>3 DEF StartBuild, Building, Shown, Looks, Becomes, c
  <2>5. pc = "build" /\ (setup.build = "full" => session.available)
    BY <1>3 DEF StartBuild, Degraded
  <2> QED BY <1>0, <2>4, <2>5 DEF Allowed, InBuild, OnTrial
<1>4. CASE RunBuild
  <2>1. /\ pc' \in {"semantic", "again", "norule"} /\ setup' = setup /\ session' = session
        /\ pc' \in {"again", "norule"} => call' = call
        /\ pc' = "norule" => setup.build = "target"
    BY <1>4 DEF RunBuild, Finished, Becomes
  <2>2. pc = "building"
    BY <1>4 DEF RunBuild
  <2> QED BY <1>0, <2>1, <2>2 DEF Allowed, InBuild, OnTrial
<1>5. CASE BuildTimesOut
  <2>1. pc' \in {"building", "semantic"} /\ setup' = setup /\ pc = "building"
    BY <1>5 DEF BuildTimesOut, Becomes
  <2>2. CASE pc' = "building"
    <3>1. /\ session' = [session EXCEPT !.retries = @ + 1]
          /\ call' = [call EXCEPT !.attempts = 1, !.cap = 2 * @]
      BY <1>5, <2>2 DEF BuildTimesOut, Becomes
    <3>2. session'.available = session.available /\ call'.seen = call.seen
      BY <1>0, <3>1 DEF Types, Sessions, Calls
    <3> QED BY <1>0, <2>1, <2>2, <3>2 DEF Allowed, InBuild, OnTrial
  <2> QED BY <2>1, <2>2 DEF Allowed, InBuild, OnTrial
<1>6. CASE WithoutCcache \/ FullInstead
  <2>1. /\ pc' \in {"semantic", "norule", "raised"} /\ setup' = setup /\ session' = session
        /\ pc' = "norule" => call' = call /\ setup.build = "target" /\ OnTrial
    BY <1>6 DEF WithoutCcache, FullInstead, Rerun, Finished, Becomes, OnTrial
  <2> QED BY <1>0, <2>1 DEF Allowed, InBuild, OnTrial
<1>7. CASE BuildTest \/ RunTests \/ Over
  BY <1>7 DEF BuildTest, RunTests, Over, Allowed, InBuild, OnTrial
<1>8. CASE UNCHANGED vars
  BY <1>0, <1>8 DEF vars, Allowed, InBuild, OnTrial
<1> QED
  BY <1>1, <1>2, <1>3, <1>4, <1>5, <1>6, <1>7, <1>8 DEF Next

\* Timeouts and retries: every action keeps the sum, or takes what was left for it.
LEMMA StepCounted == Inv /\ [Next]_vars => TimeoutsCounted'
<1> SUFFICES ASSUME Inv, [Next]_vars PROVE TimeoutsCounted'
  OBVIOUS
<1>0. Types /\ call \in Calls /\ TimeoutsCounted /\ checks \in Nat
      /\ session.timeouts \in Nat /\ session.retries \in Nat
  BY GateAssumption DEF Inv, Types, Sessions
<1>1. ASSUME NEW t \in Texts, Check(t) PROVE TimeoutsCounted'
  <2>1. /\ pc = "idle" /\ checks' = checks + 1 /\ session' = session
        /\ \/ pc' = "idle" /\ ~last'.passed
           \/ pc' = "syntax"
    BY <1>1 DEF Check, Quiet, Looks, Becomes, Refused, NoVerdict
  <2>2. session.timeouts <= 2 * checks /\ session.retries <= checks
    BY <1>0, <2>1 DEF TimeoutsCounted, Trying, Closing, Owed
  <2> QED BY <1>0, <2>1, <2>2 DEF TimeoutsCounted, Trying, Closing, Owed
<1>2. CASE PyCompile \/ Rustc \/ Unchecked \/ Standalone \/ SkipBuild
  <2>1. /\ Trying /\ pc' = "semantic" /\ checks' = checks /\ session' = session
    BY <1>2 DEF PyCompile, Rustc, Unchecked, Standalone, SkipBuild, Quiet, Looks, Becomes,
               Trying
  <2> QED BY <1>0, <2>1 DEF TimeoutsCounted, Trying, Closing, Owed
<1>3. CASE CompileCommands
  <2>1. \A s \in Delta(call.text) :
          [Hears(call, s) EXCEPT !.failed = call.failed].attempts = call.attempts
    BY <1>0, AnswersFit, HearsFits DEF Calls
  <2>2. /\ pc = "syntax" /\ pc' \in {"alone", "build"} /\ checks' = checks
        /\ session' = session /\ call'.attempts = call.attempts
    BY <1>3, <2>1 DEF CompileCommands, Quiet, Looks, Becomes
  <2> QED BY <1>0, <2>2 DEF TimeoutsCounted, Trying, Closing, Owed
<1>4. CASE StartBuild
  <2> DEFINE c == [call EXCEPT !.checked = TRUE, !.cap = Cap]
  <2>1. c \in Calls /\ c.attempts = call.attempts
    BY <1>0, TrialFits
  <2>2. \A s \in Fallback(call.text) : Hears(c, s).attempts = call.attempts
    BY <2>1, AnswersFit, HearsFits
  <2> HIDE DEF c
  <2>3. /\ pc = "build" /\ pc' \in {"building", "semantic"} /\ checks' = checks
        /\ session' = session
        /\ pc' = "building" => call'.attempts = call.attempts
    BY <1>4, <2>1, <2>2 DEF StartBuild, Building, Shown, Looks, Becomes, c
  <2> QED BY <1>0, <2>3 DEF TimeoutsCounted, Trying, Closing, Owed
<1>5. CASE RunBuild
  <2>1. pc = "building" /\ pc' \in {"semantic", "again", "norule"} /\ checks' = checks
        /\ session' = session
    BY <1>5 DEF RunBuild, Finished, Becomes
  <2> QED BY <1>0, <2>1 DEF TimeoutsCounted, Trying, Closing, Owed
<1>6. CASE BuildTimesOut
  <2>1. pc = "building" /\ checks' = checks
    BY <1>6 DEF BuildTimesOut
  <2>2. CASE pc' = "building" /\ call.attempts = 0
             /\ call' = [call EXCEPT !.attempts = 1, !.cap = 2 * @]
             /\ session' = [session EXCEPT !.retries = @ + 1]
    <3>1. call'.attempts = 1 /\ session'.retries = session.retries + 1
          /\ session'.timeouts = session.timeouts
      BY <1>0, <2>2 DEF Calls, Types, Sessions
    <3> QED BY <1>0, <2>1, <2>2, <3>1 DEF TimeoutsCounted, Trying, Closing, Owed
  <2>3. CASE pc' = "semantic" /\ (session' = session \/ \E kind : GiveUp(kind))
    <3>1. session'.timeouts \in {session.timeouts, session.timeouts + 1}
          /\ session'.retries = session.retries
      BY <1>0, <2>3, GivingUp DEF Types
    <3> QED BY <1>0, <2>1, <2>3, <3>1 DEF TimeoutsCounted, Trying, Closing, Owed
  <2> QED BY <1>6, <2>2, <2>3 DEF BuildTimesOut, Becomes
<1>7. CASE WithoutCcache \/ FullInstead
  <2>1. pc \in {"again", "norule"} /\ pc' \in {"semantic", "norule", "raised"}
        /\ checks' = checks /\ session' = session /\ last' = last
    BY <1>7 DEF WithoutCcache, FullInstead, Rerun, Finished, Becomes
  <2> QED BY <1>0, <2>1 DEF TimeoutsCounted, Trying, Closing, Owed
<1>8. CASE Decide
  <2>1. pc = "semantic" /\ pc' = "idle" /\ checks' = checks /\ session' = session
    BY <1>8 DEF Decide, Quiet, Looks
  <2> QED BY <1>0, <2>1 DEF TimeoutsCounted, Trying, Closing, Owed
<1>9. CASE BuildTest
  <2>1. /\ pc = "idle" /\ pc' = pc /\ checks' = checks /\ last.passed /\ ~last.built
        /\ last'.built
    BY <1>9, <1>0 DEF BuildTest, Types, Results
  <2>2. session' = session \/ GiveUp("generic")
    BY <1>9 DEF BuildTest, Quiet, Looks
  <2>3. session'.timeouts \in {session.timeouts, session.timeouts + 1}
        /\ session'.retries = session.retries
    BY <1>0, <2>2, GivingUp DEF Types
  <2> QED BY <1>0, <2>1, <2>3 DEF TimeoutsCounted, Trying, Closing, Owed
<1>11. CASE Cargo \/ CargoAgain \/ CargoSays
  <2>1. /\ Trying /\ checks' = checks /\ session' = session
        /\ pc' = "semantic" \/ (Trying' /\ call' = call)
    BY <1>11 DEF Cargo, CargoAgain, CargoSays, Looks, Becomes, Trying
  <2> QED BY <1>0, <2>1 DEF TimeoutsCounted, Trying, Closing, Owed
<1>12. CASE Later \/ LaterAgain \/ LaterDone
  <2>1. /\ {pc, pc'} \subseteq {"semantic", "tool", "tool2"} /\ checks' = checks
        /\ session' = session
    BY <1>12 DEF Later, LaterAgain, LaterDone, Looks, Becomes
  <2> QED BY <1>0, <2>1 DEF TimeoutsCounted, Trying, Closing, Owed
<1>10. CASE RunTests \/ Over \/ UNCHANGED vars
  BY <1>0, <1>10 DEF RunTests, Over, vars, TimeoutsCounted, Trying, Closing, Owed
<1> QED
  BY <1>1, <1>2, <1>3, <1>4, <1>5, <1>6, <1>7, <1>8, <1>9, <1>10, <1>11, <1>12 DEF Next

\* The positive answers: a Hears brings its own compiler, a build that could not
\* be judged rests on the one that looked before it.
LEMMA StepLooked == Inv /\ [Next]_vars => Looked'
<1> SUFFICES ASSUME Inv, [Next]_vars PROVE Looked'
  OBVIOUS
<1> DEFINE Blind(c) == setup.language = "rust" /\ c.text.embeds
           Sound(c) == Judging /\ ~Blind(c) /\ c.checked /\ c.ok => c.seen \in Good
<1>0. Types /\ call \in Calls /\ Sound(call) /\ MendedTextSeen /\ Allowed
  BY DEF Inv, Types, Looked
<1>1. \A c \in Calls, s \in Said : (s.ok => s.seen \in Good) => Sound(Hears(c, s))
  BY HearsFits
<1>2. \A s \in Delta(call.text) \cup OnItsOwn(call.text) \cup Fallback(call.text) :
         s \in Said /\ (s.ok => s.seen \in Good)
  BY AnswersFit
<1>3. ASSUME setup' = setup, last' = last, Sound(call') PROVE Looked'
  BY <1>0, <1>3 DEF Looked, MendedTextSeen, Judging, Good
<1> HIDE DEF Sound
<1>4. ASSUME NEW t \in Texts, Check(t) PROVE Looked'
  <2>1. ~call'.checked \/ call' = call
    BY <1>4 DEF Check, Becomes, NewCall
  <2>2. Sound(call')
    BY <1>0, <2>1 DEF Sound
  <2>3. setup' = setup /\ (last' = last \/ ~last'.passed)
    BY <1>4 DEF Check, Quiet, Looks, Refused, NoVerdict
  <2> QED BY <1>0, <2>2, <2>3 DEF Looked, MendedTextSeen, Judging, Good, Sound
<1>5. CASE PyCompile
  <2> DEFINE ok == call.text.says # "garbled"
             s == Says(ok, IF ok THEN "compiled" ELSE "rejected")
  <2>1. s \in Said /\ (s.ok => s.seen \in Good)
    BY DEF Says, Said, Seen, Good
  <2> HIDE DEF s
  <2>2. call' = Hears(call, s) /\ setup' = setup /\ last' = last
    BY <1>5 DEF PyCompile, Becomes, Quiet, Looks, s
  <2> QED BY <1>0, <1>1, <1>3, <2>1, <2>2
<1>6. CASE CargoSays \/ SkipBuild
  <2>1. \/ call' = call
        \/ \E s \in Delta(call.text) \cup Fallback(call.text) : call' = Hears(call, s)
    BY <1>6 DEF CargoSays, SkipBuild, Becomes
  <2>2. setup' = setup /\ last' = last
    BY <1>6 DEF CargoSays, SkipBuild, Quiet, Looks
  <2> QED BY <1>0, <1>1, <1>2, <1>3, <2>1, <2>2
<1>7. CASE Rustc \/ Standalone
  <2>1. \/ call' = call
        \/ \E s \in OnItsOwn(call.text) : call' = Hears(call, s)
        \/ /\ call' = [call EXCEPT !.checked = TRUE, !.unknown = TRUE]
           /\ setup.language = "rust" /\ call.text.embeds
    BY <1>7 DEF Rustc, Standalone, Becomes
  <2>2. setup' = setup /\ last' = last
    BY <1>7 DEF Rustc, Standalone, Quiet, Looks
  <2>3. ASSUME call' = [call EXCEPT !.checked = TRUE, !.unknown = TRUE]
        PROVE  call'.text = call.text
    BY <1>0, <2>3 DEF Calls
  <2>4. Sound(call')
    BY <1>0, <1>1, <1>2, <2>1, <2>3 DEF Sound
  <2> QED BY <1>3, <2>2, <2>4
<1>8. CASE CompileCommands
  <2>1. ASSUME NEW s \in Delta(call.text)
        PROVE  Sound([Hears(call, s) EXCEPT !.failed = call.failed])
    <3>1. Hears(call, s) \in Calls /\ Sound(Hears(call, s))
      BY <1>0, <1>1, <1>2, HearsFits
    <3> QED BY <3>1 DEF Sound, Calls
  <2>2. /\ setup' = setup /\ last' = last
        /\ \/ call' = call
           \/ \E s \in Delta(call.text) : call' = [Hears(call, s) EXCEPT !.failed = call.failed]
    BY <1>8 DEF CompileCommands, Becomes, Quiet, Looks
  <2> QED BY <1>0, <1>3, <2>1, <2>2
<1>9. CASE StartBuild
  <2> DEFINE c == [call EXCEPT !.checked = TRUE, !.cap = Cap]
  <2>1. c \in Calls
    BY <1>0, TrialFits
  <2>2. \A s \in Fallback(call.text) : Sound(Hears(c, s))
    BY <1>1, <1>2, <2>1
  <2>3. Says(TRUE, "excused") \in Said /\ Says(TRUE, "excused").seen \in Good
    BY DEF Says, Said, Seen, Good
  <2>4. Sound(Hears(c, Says(TRUE, "excused")))
    BY <1>1, <2>1, <2>3
  <2> HIDE DEF c
  <2>5. /\ setup' = setup /\ last' = last
        /\ \/ setup.build # "full"
           \/ \E s \in Fallback(call.text) : call' = Hears(c, s)
           \/ call' = Hears(c, Says(TRUE, "excused"))
    BY <1>9 DEF StartBuild, Building, Shown, Looks, Becomes, c
  <2>6. setup.build # "full" => ~Judging
    BY <1>0, <1>9, SetupFits DEF StartBuild, Allowed, InBuild, Judging
  <2> QED BY <1>3, <2>2, <2>4, <2>5, <2>6 DEF Sound
<1>10. ASSUME NEW how \in Built(call.text), OnTrial, Finished(how) PROVE Sound(call')
  <2>1. Judging => setup.build = "full"
    BY <1>0, <1>10, SetupFits DEF Allowed, InBuild, Judging
  <2>2. call' = Judged(call, how) /\ (Judging => call.seen \in Good)
    BY <1>0, <1>10, <2>1 DEF Finished, Becomes, Allowed
  <2> QED BY <1>0, <2>2, BuiltHow, JudgedFits DEF Sound
<1>11. CASE RunBuild \/ WithoutCcache \/ FullInstead
  <2>1. /\ setup' = setup /\ last' = last /\ OnTrial
        /\ call' = call \/ \E how \in Built(call.text) : Finished(how)
    BY <1>11 DEF RunBuild, WithoutCcache, FullInstead, Rerun, Becomes, OnTrial
  <2> QED BY <1>0, <1>3, <1>10, <2>1
<1>12. CASE BuildTimesOut
  <2>1. /\ setup' = setup /\ last' = last
        /\ \/ call' = [call EXCEPT !.attempts = 1, !.cap = 2 * @]
           \/ \E s \in Fallback(call.text) : call' = Hears(call, s)
    BY <1>12 DEF BuildTimesOut, Becomes
  <2>2. ASSUME call' = [call EXCEPT !.attempts = 1, !.cap = 2 * @] PROVE Sound(call')
    <3>1. /\ call'.text = call.text /\ call'.checked = call.checked
          /\ call'.ok = call.ok /\ call'.seen = call.seen
      BY <1>0, <2>2 DEF Calls
    <3> QED BY <1>0, <3>1 DEF Sound
  <2> QED BY <1>0, <1>1, <1>2, <1>3, <2>1, <2>2
<1>13. CASE Decide
  <2>1. PICK flaws : last' = Verdict(flaws)
    BY <1>13 DEF Decide
  <2>2. setup' = setup /\ ~call'.checked
    BY <1>13 DEF Decide, Quiet, Looks, NewCall
  <2>3. MendedTextSeen'
    BY <1>0, <2>1, <2>2, VerdictFits DEF MendedTextSeen, Sound, Judging, Good
  <2> QED BY <2>2, <2>3 DEF Looked
<1>14. CASE BuildTest
  <2>1. setup' = setup /\ call' = call /\ last' = [last EXCEPT !.built = TRUE]
    BY <1>14 DEF BuildTest, Quiet, Looks
  <2>2. /\ last'.passed = last.passed /\ last'.mended = last.mended
        /\ last'.text = last.text /\ last'.seen = last.seen
    BY <1>0, <2>1 DEF Types, Results
  <2> QED BY <1>0, <2>1, <2>2 DEF Looked, MendedTextSeen, Sound, Judging, Good
<1>16. CASE LaterDone
  <2>1. setup' = setup /\ last' = last /\ call' = [call EXCEPT !.due = @ \ {Foremost}]
    BY <1>16 DEF LaterDone, Becomes, Looks
  <2>2. /\ call'.text = call.text /\ call'.checked = call.checked
        /\ call'.ok = call.ok /\ call'.seen = call.seen
    BY <1>0, <2>1 DEF Calls
  <2>3. Sound(call')
    BY <1>0, <2>2 DEF Sound
  <2> QED BY <1>3, <2>1, <2>3
<1>15. CASE Cargo \/ CargoAgain \/ Later \/ LaterAgain \/ Unchecked \/ RunTests \/ Over \/ UNCHANGED vars
  <2>1. setup' = setup /\ last' = last /\ call' = call
    BY <1>15 DEF Cargo, CargoAgain, Later, LaterAgain, Unchecked, RunTests, Over, vars, Quiet, Looks, Becomes
  <2> QED BY <1>0, <1>3, <2>1
<1> QED
  BY <1>4, <1>5, <1>6, <1>7, <1>8, <1>9, <1>11, <1>12, <1>13, <1>14, <1>15, <1>16 DEF Next

-----------------------------------------------------------------------------
(* The theorems. *)

LEMMA Invariance == Spec => []Inv
<1>1. Inv /\ [Next]_vars => Inv'
  BY StepTypes, StepCounted, StepKept, StepAllowed, StepLooked DEF Inv
<1> QED BY InvInit, <1>1, PTL DEF Spec

\* Every variable keeps its type, and a session notes at most two timeouts and
\* starts at most one second attempt per text it checks.
THEOREM GateTypes == Spec => []TypeOK
<1>1. Inv => TypeOK
  <2>1. ASSUME Inv PROVE session \in [available : BOOLEAN, timeouts : 0..(2 * MaxChecks),
                                      retries : 0..MaxChecks]
    <3>1. /\ session.timeouts \in Nat /\ session.retries \in Nat /\ checks \in 0..MaxChecks
          /\ session.available \in BOOLEAN /\ session \in Sessions
      BY <2>1 DEF Inv, Types, Sessions
    <3>2. session.timeouts <= 2 * checks /\ session.retries <= checks
      BY <2>1, <3>1 DEF Inv, TimeoutsCounted, Owed
    <3>3. session.timeouts \in 0..(2 * MaxChecks) /\ session.retries \in 0..MaxChecks
      BY <3>1, <3>2, GateAssumption
    <3> QED BY <3>1, <3>3 DEF Sessions
  <2> QED BY <2>1 DEF Inv, Types, TypeOK, Calls, Results, Known
<1> QED BY Invariance, <1>1, PTL

\* Whatever way a check ends, the file in the worktree is the session's own.
THEOREM TreeStaysTheSessions == Spec => []TreeIsTheSessions
<1>1. Inv => TreeIsTheSessions
  BY DEF Inv, Kept, OnTrial, LookedAt, TreeIsTheSessions
<1> QED BY Invariance, <1>1, PTL

\* A mended text passes only if a compiler looked at it and did not refuse it.
THEOREM MendedTextsAreSeen == Spec => []MendedTextSeen
<1>1. Inv => MendedTextSeen
  BY DEF Inv, Looked
<1> QED BY Invariance, <1>1, PTL

\* Once a session has given full builds up it runs none but a required test gate.
THEOREM DegradedForGood == Spec => NoFullBuildOnceDegraded
<1> DEFINE A == ran' \in {"full", "phase2", "tests"} /\ setup.build \in {"none", "full"}
                => session.available \/ (ran' = "tests" /\ setup.tests = "required")
<1>1. ASSUME Inv, Next PROVE A
  <2>1. Types /\ Allowed
    BY <1>1 DEF Inv
  <2>2. CASE RunBuild \/ BuildTimesOut
    BY <2>1, <2>2 DEF RunBuild, BuildTimesOut, Allowed, InBuild, OnTrial
  <2>3. CASE WithoutCcache
    BY <2>1, <2>3 DEF WithoutCcache, Allowed, InBuild, OnTrial
  <2>4. CASE FullInstead
    BY <2>1, <2>4 DEF FullInstead, Allowed
  <2>5. CASE BuildTest
    BY <2>5 DEF BuildTest, Phase2Skips, TestBuild, Quiet, Looks
  <2>6. CASE RunTests
    BY <2>6 DEF RunTests
  <2>7. CASE \/ \E t \in Texts : Check(t)
             \/ PyCompile \/ Cargo \/ CargoAgain \/ CargoSays \/ Rustc \/ Unchecked
             \/ CompileCommands \/ Standalone \/ SkipBuild \/ StartBuild
             \/ Later \/ LaterAgain \/ LaterDone \/ Decide \/ Over
    <3>1. ran' = "none"
      BY <2>7 DEF Check, PyCompile, Cargo, CargoAgain, CargoSays, Rustc, Unchecked,
                 CompileCommands, Standalone, SkipBuild, StartBuild, Later, LaterAgain,
                 LaterDone, Decide, Over, Quiet, Looks
    <3> QED BY <3>1
  <2> QED BY <1>1, <2>2, <2>3, <2>4, <2>5, <2>6, <2>7 DEF Next
<1>2. Inv /\ [Next]_vars => [A]_vars
  BY <1>1
<1> QED BY Invariance, <1>2, PTL DEF Spec, NoFullBuildOnceDegraded

-----------------------------------------------------------------------------
(* The ladder of repairs.  Its registry and what was really tried say the   *)
(* same: a key is noted only with a rung tried on that text for these       *)
(* failures, and a rung that notes before it tries, or when it declines,    *)
(* has its key there once it declined.                                      *)

Failed(d) == [rung |-> Ladder[d.rung].name, failures |-> d.failures, text |-> d.text]

Climbing ==
  /\ climb.at \in Nat
  /\ climb = [by |-> climb.by, failures |-> climb.failures, skip |-> climb.skip,
              placed |-> climb.placed, at |-> climb.at]

Registered ==
  /\ \A k \in tried : \E d \in done : k = Failed(d)
  /\ \A d \in done :
       d.how = "declined" /\ Ladder[d.rung].key \in {"before", "declined"} => Failed(d) \in tried

LadderInv == Climbing /\ Registered

LEMMA RungsAreFinite == Len(Ladder) \in Nat /\ Rungs = 1..Len(Ladder)
  BY DEF Ladder, Rungs

LEMMA TriedUnderItsKey ==
  ASSUME NEW i, NEW how
  PROVE  Failed(Did(i, how)) = Key(Ladder[i])
  BY DEF Failed, Did, Key

LEMMA NotedIsRegistered ==
  ASSUME Registered, NEW i \in Rungs, NEW how \in {"declined", "landed"}, Noted(i, how)
  PROVE  Registered'
<1> DEFINE d0 == Did(i, how)
<1>1. done' = done \cup {d0} /\ Failed(d0) = Key(Ladder[i])
  BY TriedUnderItsKey DEF Noted
<1>2. d0.rung = i /\ d0.how = how
  BY DEF Did
<1>3. tried' = tried \cup IF Ladder[i].key \in {how, "before"} THEN {Failed(d0)} ELSE {}
  BY <1>1 DEF Noted
<1> HIDE DEF d0
<1>4. \A k \in tried' : \E d \in done' : k = Failed(d)
  BY <1>1, <1>3 DEF Registered
<1>5. \A d \in done' :
        d.how = "declined" /\ Ladder[d.rung].key \in {"before", "declined"} => Failed(d) \in tried'
  BY <1>1, <1>2, <1>3 DEF Registered
<1>6. \A d : Failed(d)' = [rung |-> Ladder[d.rung].name, failures |-> d.failures, text |-> d.text]
  BY DEF Failed
<1> QED BY <1>4, <1>5, <1>6 DEF Registered, Failed

LEMMA StartClimbs ==
  ASSUME NEW by, NEW failures, NEW skip, Start(by, failures, skip)
  PROVE  Climbing'
  BY DEF Start, Climbing

LEMMA RegistryInit == LadderInit => LadderInv
<1> SUFFICES ASSUME LadderInit PROVE LadderInv
  OBVIOUS
<1>1. tried = {} /\ done = {} /\ climb = NoClimb
  BY DEF LadderInit
<1> QED BY <1>1 DEF LadderInv, Climbing, Registered, NoClimb

LEMMA StepUp ==
  ASSUME Climbing, NEW i \in Rungs, climb' = [climb EXCEPT !.at = i + 1]
  PROVE  Climbing' /\ climb'.at = i + 1
  BY RungsAreFinite DEF Climbing

LEMMA ToTheTop ==
  ASSUME Climbing, climb' = [climb EXCEPT !.at = Len(Ladder) + 2]
  PROVE  Climbing' /\ climb'.at = Len(Ladder) + 2
  BY RungsAreFinite DEF Climbing

\* A rung that is tried moves the climb on, and what is noted then is registered.
LEMMA TryMovesOn ==
  ASSUME LadderInv, NEW i \in Rungs, Try(i)
  PROVE  climb' = [climb EXCEPT !.at = i + 1] /\ Registered'
<1>1. CASE \E how \in {"declined", "landed"} : Noted(i, how)
  <2>1. PICK how \in {"declined", "landed"} : Noted(i, how)
    BY <1>1
  <2> QED BY <2>1, NotedIsRegistered DEF Noted, LadderInv
<1>2. CASE climb' = [climb EXCEPT !.at = i + 1] /\ UNCHANGED <<tried, done>>
  BY <1>2 DEF LadderInv, Registered, Failed
<1>3. \/ \E how \in {"declined", "landed"} : Noted(i, how)
      \/ climb' = [climb EXCEPT !.at = i + 1] /\ UNCHANGED <<tried, done>>
  BY DEF Try, Declines
<1> QED BY <1>1, <1>2, <1>3

LEMMA RegistryStep == LadderInv /\ [LadderNext]_ladderVars => LadderInv'
<1> SUFFICES ASSUME LadderInv, [LadderNext]_ladderVars PROVE LadderInv'
  OBVIOUS
<1>0. UNCHANGED <<tried, done>> => Registered'
  BY DEF LadderInv, Registered, Failed
<1>1. ASSUME Gate PROVE LadderInv'
  <2>1. UNCHANGED climb => Climbing'
    BY DEF LadderInv, Climbing
  <2> QED BY <1>0, <1>1, <2>1, StartClimbs DEF Gate, LadderInv
<1>2. ASSUME Deferral PROVE LadderInv'
  BY <1>0, <1>2, StartClimbs DEF Deferral, LadderInv
<1>3. ASSUME NEW i \in Rungs, Try(i) PROVE LadderInv'
  BY <1>3, TryMovesOn, StepUp DEF LadderInv
<1>4. ASSUME Ask \/ NotAsked PROVE LadderInv'
  <2>1. climb' = [climb EXCEPT !.at = Len(Ladder) + 2] /\ UNCHANGED <<tried, done>>
    BY <1>4 DEF Ask, NotAsked
  <2> QED BY <1>0, <2>1, ToTheTop DEF LadderInv
<1>5. ASSUME TakeASide \/ NoRepair PROVE LadderInv'
  <2>1. UNCHANGED climb => Climbing'
    BY DEF LadderInv, Climbing
  <2> QED BY <1>0, <1>5, <2>1, StartClimbs DEF TakeASide, NoRepair, LadderInv
<1>6. ASSUME Recheck \/ UNCHANGED ladderVars PROVE LadderInv'
  BY <1>0, <1>6 DEF Recheck, ladderVars, LadderInv, Climbing
<1> QED BY <1>1, <1>2, <1>3, <1>4, <1>5, <1>6 DEF LadderNext

LEMMA RegistryHolds == LadderSpec => []LadderInv
<1> QED BY RegistryInit, RegistryStep, PTL DEF LadderSpec

\* A rung that fits and is not due was tried on the text for these failures.
LEMMA PassedOver ==
  ASSUME LadderInv, NEW j \in Rungs, ~climb.skip, Fits(Ladder[j]), ~Due(j)
  PROVE  \E d \in done : /\ Ladder[d.rung].name = Ladder[j].name
                         /\ d.failures = climb.failures /\ d.text = accepted.text
<1>1. Key(Ladder[j]) \in tried
  BY DEF Due
<1>2. PICK d \in done : Key(Ladder[j]) = Failed(d)
  BY <1>1 DEF LadderInv, Registered
<1>3. /\ Key(Ladder[j]).rung = Ladder[j].name /\ Key(Ladder[j]).failures = climb.failures
      /\ Key(Ladder[j]).text = accepted.text
  BY DEF Key
<1>4. /\ Failed(d).rung = Ladder[d.rung].name /\ Failed(d).failures = d.failures
      /\ Failed(d).text = d.text
  BY DEF Failed
<1> QED BY <1>2, <1>3, <1>4

\* No rung is tried twice on one text for the same failures if it declined there, and
\* none is passed over that was not tried on it, for any file, switches and rounds
\* (the registry _wf_repair_tried of _whole_file_repair).
THEOREM NoRungTwice == LadderSpec => OncePerText
<1> DEFINE A == phase = "climb" =>
       LET i == climb'.at - 1 IN
       /\ i \in Rungs /\ Ladder[i].key \in {"before", "declined"} => Did(i, "declined") \notin done
       /\ \A j \in Rungs :
            j >= climb.at /\ j < i /\ ~climb.skip /\ Fits(Ladder[j]) =>
              \E d \in done : /\ Ladder[d.rung].name = Ladder[j].name
                              /\ d.failures = climb.failures
                              /\ d.text = accepted.text
<1>1. LadderInv /\ LadderNext => A
  <2> SUFFICES ASSUME LadderInv, LadderNext, phase = "climb" PROVE A
    OBVIOUS
  <2>1. ASSUME NEW i \in Rungs, Try(i) PROVE A
    <3>1. climb'.at - 1 = i /\ climb.at \in Nat
      BY <2>1, TryMovesOn, StepUp, RungsAreFinite DEF LadderInv, Climbing
    <3>2. NextRung(i)
      BY <2>1 DEF Try
    <3>3. Did(i, "declined") \in done => Ladder[i].key \notin {"before", "declined"}
      <4>1. /\ Did(i, "declined").how = "declined" /\ Did(i, "declined").rung = i
            /\ Failed(Did(i, "declined")) = Key(Ladder[i])
        BY TriedUnderItsKey DEF Did
      <4>2. Key(Ladder[i]) \notin tried
        BY <3>2 DEF NextRung, Due
      <4> QED BY <4>1, <4>2 DEF LadderInv, Registered
    <3>4. ASSUME NEW j \in Rungs, j >= climb.at, j < i PROVE ~Due(j)
      BY <3>1, <3>2, <3>4, RungsAreFinite DEF NextRung
    <3> QED BY <3>1, <3>3, <3>4, PassedOver
  <2>2. ASSUME Ask \/ NotAsked PROVE A
    <3>1. climb'.at - 1 \notin Rungs
      BY <2>2, ToTheTop, RungsAreFinite DEF Ask, NotAsked, LadderInv
    <3>2. \A j \in Rungs : j >= climb.at => ~Due(j)
      BY <2>2 DEF Ask, NotAsked, Exhausted
    <3> QED BY <3>1, <3>2, PassedOver
  <2> QED BY <2>1, <2>2 DEF LadderNext, Gate, Deferral, TakeASide, NoRepair, Recheck
<1>2. LadderInv /\ [LadderNext]_ladderVars => [A]_ladderVars
  BY <1>1
<1> QED BY <1>2, RegistryHolds, PTL DEF LadderSpec, OncePerText
=============================================================================
