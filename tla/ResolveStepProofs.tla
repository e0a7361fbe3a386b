------------------------- MODULE ResolveStepProofs -------------------------
(***************************************************************************)
(* Proofs about one step of a session, for any number of files, answers of *)
(* the gate and the build, budgets and configurations.  One invariant      *)
(* carries all of it: what is about to be landed is a text of its file     *)
(* that passes as it stands, or an injected one, or the floor's; the file  *)
(* F1 has given up has not exactly one good side; what F1 leaves behind    *)
(* for a later file is true of the file it is of; and every file has lost  *)
(* its markers when phase 2 begins.                                        *)
(***************************************************************************)
EXTENDS ResolveStep, TLAPS, SequenceTheorems, FiniteSetTheorems, WellFoundedInduction

-----------------------------------------------------------------------------
(* The inductive invariant. *)

Places == {"first", "verify", "portfolio", "build", "failed", "exhausted", "endgame",
           "rescue", "tier 2", "churn", "lost", "landing", "staged", "returned"}
TextsOf(f) == {t \in Texts : t.gate = "none" \/ t.of = f}
BuffersOf(f) == [text : TextsOf(f), via : Via]
RoundTypes == [sig : Verdicts, model : BOOLEAN]
Loops == [retries : 0..(Budget + Allowance), verdict : Verdicts, built : BOOLEAN,
          portfolio : BOOLEAN, rung : BOOLEAN, injected : BOOLEAN, rounds : Seq(RoundTypes),
          noClear : 0..NoClear, cycles : SUBSET Verdicts, model : BOOLEAN]
Landed == [of : 0..Files, gate : Gates \cup {"none"}, by : Ways]

SetupType == config \in Configs /\ sides \in [File -> [Side -> config.verdicts]]
PlaceType == pc \in Places /\ file \in File
LoopType == loop \in Loops /\ Len(loop.rounds) <= Threshold
CacheType == cache \in Seq(TextsOf(file)) /\ Len(cache) <= 3
FileTypes ==
  /\ tree \in [File -> {"raw", "written", "staged"}]
  /\ buffer \in [File -> [text : Texts, via : Via]]
  /\ \A f \in File : buffer[f] \in BuffersOf(f)
  /\ landed \in [File -> Landed]
LeftType == left \in [of : 0..Files, both : BOOLEAN]
ResultType == result \in {"none", "clean", "escalated"}

Types == SetupType /\ PlaceType /\ LoopType /\ CacheType /\ FileTypes /\ LeftType /\ ResultType

\* The repairs go on only while the rounds that clear nothing are too few to stop.
Clearing == pc \in {"verify", "portfolio", "build", "failed"} => loop.noClear < NoClear

\* A text of the file that the gate passes as it stands; a text that may be landed.
Sound(f, t) == t.of = f /\ t.gate = "ok"
Lands(f, b, injected) ==
  b.via = "floor" \/ Sound(f, b.text) \/ (injected /\ b.text.of = f /\ Passes(b.text))

\* A text said to have passed, or about to be landed, has.
Standing ==
  /\ pc \in {"portfolio", "failed"} /\ loop.verdict = "passed" => Sound(file, text)
  /\ pc = "build" => Sound(file, text)
  /\ pc = "landing" => Lands(file, buffer[file], loop.injected)

\* What may be staged by which way.
Right(f, t, by) ==
  \/ by = "floor"
  \/ by = "churn" /\ t.gate \in Passing
  \/ t.of = f /\ t.gate \in (IF by \in Unmended THEN Passing ELSE {"ok"})

\* What F1 has left behind is so of the file it looked at.
Remains == left.both => left.of \in File /\ \A s \in Side : Passes(SideText(left.of, s))
ToChurn == pc = "churn" => left.both

Good == {s \in Side : Passes(SideText(file, s))}
PastF1 == pc \in {"rescue", "tier 2", "churn", "lost"} /\ Eligible => Cardinality(Good) # 1

\* Where the markers are, and what is still to do.
Marked ==
  /\ pc = "first" => cache = << >> /\ \A f \in File : tree[f] = "raw" <=> f >= file
  /\ pc \notin {"first", "returned"} => \A f \in File : tree[f] # "raw"
  /\ pc = "staged" => \A f \in File : tree[f] = "staged"
  /\ pc # "returned" => result = "none"

Inv ==
  /\ Types /\ Clearing /\ Standing /\ Remains /\ ToChurn /\ PastF1 /\ Marked /\ StagedPassed

-----------------------------------------------------------------------------
(* Texts. *)

LEMMA HasLeast ==
  ASSUME NEW S, S \subseteq Nat, S # {}
  PROVE  \E p \in S : \A r \in S : p <= r
<1>1. PICK p \in S : \A r \in S : ~ (<<r, p>> \in OpToRel(<, Nat))
  BY WFMin, NatLessThanWellFounded, Zenon
<1>2. ASSUME NEW r \in S PROVE p <= r
  <2>1. ~ (<<r, p>> \in OpToRel(<, Nat))
    BY <1>1
  <2>2. <<r, p>> \in OpToRel(<, Nat) <=> r < p
    BY DEF OpToRel
  <2>3. ~ (r < p)
    BY <2>1, <2>2, Zenon
  <2> QED BY <2>3
<1> QED BY <1>2

LEMMA SideTextFits ==
  ASSUME SetupType, NEW f \in File, NEW s \in Side
  PROVE  SideText(f, s) \in TextsOf(f) /\ SideText(f, s).of = f
<1>1. sides[f][s] \in [gate : Gates, builds : BOOLEAN]
  <2>1. config \in Config
    BY StepAssumption DEF SetupType
  <2>2. config.verdicts \subseteq [gate : Gates, builds : BOOLEAN]
    BY <2>1 DEF Config
  <2> QED
    BY <2>2 DEF SetupType
<1>2. f \in 0..Files
  BY DEF File
<1> QED
  BY <1>1, <1>2 DEF SideText, Text, Texts, TextsOf

LEMMA MergeFits ==
  ASSUME NEW f \in File, NEW t \in Merges(f)
  PROVE  t \in TextsOf(f) /\ t.of = f /\ t.gate \in Gates
<1>1. PICK g \in Gates, b \in Builds : t = Text(f, "none", g, b)
  BY DEF Merges
<1>2. b \in BOOLEAN
  BY <1>1 DEF Builds
<1>3. f \in 0..Files
  BY DEF File
<1> QED
  BY <1>1, <1>2, <1>3 DEF Text, Texts, TextsOf

LEMMA MendedFits ==
  ASSUME NEW f, NEW t \in TextsOf(f)
  PROVE  Mended(t) \in TextsOf(f) /\ (Passes(t) => Sound(f, Mended(t)))
  BY StepAssumption DEF Mended, Text, Texts, TextsOf, Sound, Passes, Passing

LEMMA NoBufferFits ==
  ASSUME NEW f \in File
  PROVE  NoBuffer \in BuffersOf(f)
<1>1. 0 \in 0..Files
  BY StepAssumption
<1> QED
  BY <1>1 DEF NoBuffer, Made, NoText, Text, Texts, TextsOf, BuffersOf, Via

LEMMA MadeFits ==
  ASSUME NEW f, NEW t \in TextsOf(f), NEW via \in Via
  PROVE  Made(t, via) \in BuffersOf(f) /\ Made(t, via).text = t /\ Made(t, via).via = via
  BY DEF Made, BuffersOf

LEMMA BufferFits ==
  ASSUME Inv
  PROVE  /\ file \in File /\ buffer[file] \in BuffersOf(file) /\ text \in TextsOf(file)
         /\ buffer[file].text = text /\ buffer[file].via \in Via
         /\ buffer[file] = Made(text, buffer[file].via)
  BY DEF Inv, Types, PlaceType, FileTypes, text, BuffersOf, Made

\* A buffer of a file fits among the others.
LEMMA OneBuffer ==
  ASSUME Inv, NEW b \in BuffersOf(file), buffer' = [buffer EXCEPT ![file] = b]
  PROVE  /\ buffer' \in [File -> [text : Texts, via : Via]]
         /\ \A f \in File : buffer'[f] \in BuffersOf(f)
<1>1. b \in [text : Texts, via : Via]
  BY DEF BuffersOf, TextsOf
<1> QED
  BY <1>1 DEF Inv, Types, PlaceType, FileTypes

LEMMA NewLoopFits ==
  /\ NewLoop \in Loops /\ Len(NewLoop.rounds) = 0 /\ NewLoop.noClear = 0
  /\ \A f : << >> \in Seq(TextsOf(f)) /\ Len(<< >>) = 0
<1>1. << >> \in Seq(RoundTypes) /\ (\A f : << >> \in Seq(TextsOf(f))) /\ Len(<< >>) = 0
  BY EmptySeq
<1>2. 0 \in 0..(Budget + Allowance) /\ 0 \in 0..NoClear /\ "none" \in Verdicts
  BY StepAssumption DEF Verdicts
<1> QED
  BY <1>1, <1>2 DEF NewLoop, Loops

-----------------------------------------------------------------------------
(* The ways on. *)

PhaseTwo == {"verify", "portfolio", "build", "failed", "exhausted", "endgame",
             "rescue", "tier 2", "churn", "lost", "landing"}

\* Within phase 2 of a file.
LEMMA MoveKeeps ==
  ASSUME Inv, Keep, pc \in PhaseTwo, pc' \in PhaseTwo,
         NEW b \in BuffersOf(file), buffer' \in {buffer, [buffer EXCEPT ![file] = b]},
         LoopType', CacheType', Clearing', Standing',
         pc' = "churn" => left.both,
         pc' \in {"rescue", "tier 2", "churn", "lost"} /\ Eligible' => Cardinality(Good) # 1
  PROVE  Inv'
<1>1. /\ config' = config /\ sides' = sides /\ tree' = tree /\ left' = left
      /\ landed' = landed /\ result' = result /\ file' = file
  BY DEF Keep, setup
<1>2. SetupType' /\ PlaceType' /\ LeftType' /\ ResultType'
  BY <1>1 DEF Inv, Types, SetupType, PlaceType, LeftType, ResultType, PhaseTwo, Places
<1>3. FileTypes'
  BY <1>1, OneBuffer DEF Inv, Types, FileTypes
<1>4. Remains' /\ ToChurn' /\ PastF1'
  BY <1>1 DEF Inv, Remains, ToChurn, PastF1, Good, SideText
<1>5. Marked' /\ StagedPassed'
  BY <1>1 DEF Inv, Marked, StagedPassed, Staged, PhaseTwo
<1> QED
  BY <1>2, <1>3, <1>4, <1>5 DEF Inv, Types

LEMMA GoOnFits ==
  ASSUME NEW tr, GoOn(tr), file \in File
  PROVE  /\ loop' = NewLoop /\ cache' = << >> /\ result' = result /\ file' \in File
         /\ \/ pc' = "staged" /\ \A f \in File : tr[f] = "staged"
            \/ pc' = "verify"
<1>1. loop' = NewLoop /\ cache' = << >> /\ result' = result
  BY DEF GoOn
<1>2. CASE ToDo(tr) = {}
  BY <1>1, <1>2 DEF GoOn, ToDo
<1>3. CASE ToDo(tr) # {}
  <2>1. ToDo(tr) \subseteq File /\ File \subseteq Nat
    BY DEF ToDo, File
  <2>2. \E p \in ToDo(tr) : \A r \in ToDo(tr) : p <= r
    BY <1>3, <2>1, HasLeast
  <2>3. Min(ToDo(tr)) \in ToDo(tr)
    BY <2>2 DEF Min
  <2> QED
    BY <1>1, <1>3, <2>1, <2>3 DEF GoOn
<1> QED
  BY <1>2, <1>3

\* After a file has landed, and after the last one of phase 1.
LEMMA OnwardKeeps ==
  ASSUME Inv, GoOn(tree'), UNCHANGED setup, FileTypes', LeftType', Remains', StagedPassed',
         \A f \in File : tree'[f] # "raw", result = "none"
  PROVE  Inv'
<1>1. /\ config' = config /\ sides' = sides
  BY DEF setup
<1>2. file \in File
  BY DEF Inv, Types, PlaceType
<1>3. /\ loop' = NewLoop /\ cache' = << >> /\ result' = result /\ file' \in File
      /\ \/ pc' = "staged" /\ \A f \in File : tree'[f] = "staged"
         \/ pc' = "verify"
  BY <1>2, GoOnFits
<1>4. SetupType' /\ PlaceType' /\ ResultType'
  BY <1>1, <1>3 DEF Inv, Types, SetupType, PlaceType, ResultType, Places
<1>5. LoopType' /\ CacheType' /\ Clearing'
  BY <1>3, NewLoopFits, StepAssumption DEF LoopType, CacheType, Clearing
<1>6. Standing' /\ ToChurn' /\ PastF1' /\ Marked'
  BY <1>3 DEF Standing, ToChurn, PastF1, Marked
<1> QED
  BY <1>4, <1>5, <1>6 DEF Inv, Types

LEMMA StagedFits ==
  ASSUME Inv, NEW t \in Texts, NEW by \in Ways, StageOnly(t, by), Right(file, t, by)
  PROVE  /\ FileTypes' /\ StagedPassed'
         /\ tree'[file] = "staged" /\ \A f \in File \ {file} : tree'[f] = tree[f]
<1>1. /\ file \in File /\ tree' = [tree EXCEPT ![file] = "staged"]
      /\ buffer' = [buffer EXCEPT ![file] = NoBuffer]
      /\ landed' = [landed EXCEPT ![file] = [of |-> t.of, gate |-> t.gate, by |-> by]]
  BY DEF StageOnly, To, Inv, Types, PlaceType
<1>2. [of |-> t.of, gate |-> t.gate, by |-> by] \in Landed
  BY DEF Texts, Landed
<1>3. FileTypes /\ StagedPassed
  BY DEF Inv, Types
<1>4. FileTypes'
  BY <1>1, <1>2, <1>3, NoBufferFits, OneBuffer DEF FileTypes
<1>5. /\ tree'[file] = "staged" /\ \A f \in File \ {file} : tree'[f] = tree[f]
      /\ landed'[file] = [of |-> t.of, gate |-> t.gate, by |-> by]
      /\ \A f \in File \ {file} : landed'[f] = landed[f]
  BY <1>1, <1>3 DEF FileTypes
<1>6. Right(file, landed'[file], landed'[file].by)
  BY <1>5 DEF Right
<1>7. StagedPassed'
  BY <1>3, <1>5, <1>6 DEF StagedPassed, Staged, Right
<1> QED
  BY <1>4, <1>5, <1>7

LEMMA StageAsKeeps ==
  ASSUME Inv, pc \in PhaseTwo, NEW t \in Texts, NEW by \in Ways, StageAs(t, by),
         Right(file, t, by), LeftType', Remains'
  PROVE  Inv'
<1>1. /\ FileTypes' /\ StagedPassed'
      /\ tree'[file] = "staged" /\ \A f \in File \ {file} : tree'[f] = tree[f]
  BY StagedFits DEF StageAs
<1>2. \A f \in File : tree[f] # "raw"
  BY DEF Inv, Marked, PhaseTwo
<1>3. result = "none"
  BY DEF Inv, Marked, PhaseTwo
<1> QED
  BY <1>1, <1>2, <1>3, OnwardKeeps DEF StageAs

LEMMA StageKeeps ==
  ASSUME Inv, pc \in PhaseTwo, NEW t \in Texts, NEW by \in Ways, Stage(t, by),
         Right(file, t, by)
  PROVE  Inv'
<1>1. left' = left /\ sides' = sides
  BY DEF Stage, StageAs, setup
<1>2. LeftType' /\ Remains'
  BY <1>1 DEF Inv, Types, LeftType, Remains, SideText
<1> QED
  BY <1>2, StageAsKeeps DEF Stage

-----------------------------------------------------------------------------
(* Phase 1. *)

LEMMA NextFirstKeeps ==
  ASSUME Inv, pc = "first", NextFirst, FileTypes', StagedPassed',
         tree'[file] # "raw", \A f \in File \ {file} : tree'[f] = tree[f]
  PROVE  Inv'
<1>1. config' = config /\ sides' = sides /\ left' = left
  BY DEF NextFirst, setup
<1>2. LeftType' /\ Remains'
  BY <1>1 DEF Inv, Types, LeftType, Remains, SideText
<1>3. file \in File /\ File \subseteq Nat /\ Files \in Nat /\ File = 1..Files
  BY StepAssumption DEF Inv, Types, PlaceType, File
<1>4. \A f \in File : tree[f] = "raw" <=> f >= file
  BY DEF Inv, Marked
<1>5. result = "none" /\ cache = << >>
  BY DEF Inv, Marked
<1>6. CASE file < Files
  <2>1. /\ file' = file + 1 /\ pc' = pc /\ result' = result /\ loop' = loop /\ cache' = cache
    BY <1>6 DEF NextFirst
  <2>2. file' \in File
    BY <1>3, <1>6, <2>1
  <2>3. \A f \in File : tree'[f] = "raw" <=> f >= file'
    BY <1>3, <1>4, <2>1
  <2>4. SetupType' /\ PlaceType' /\ ResultType' /\ LoopType' /\ CacheType'
    BY <1>1, <1>5, <2>1, <2>2, NewLoopFits
       DEF Inv, Types, SetupType, PlaceType, ResultType, LoopType, CacheType
  <2>5. Clearing' /\ Standing' /\ ToChurn' /\ PastF1' /\ Marked'
    BY <1>5, <2>1, <2>3 DEF Clearing, Standing, ToChurn, PastF1, Marked
  <2> QED
    BY <1>2, <2>4, <2>5 DEF Inv, Types
<1>7. CASE ~(file < Files)
  <2>1. GoOn(tree')
    BY <1>7 DEF NextFirst
  <2>2. \A f \in File : tree'[f] # "raw"
    BY <1>3, <1>4, <1>7
  <2> QED
    BY <1>2, <1>5, <2>1, <2>2, OnwardKeeps DEF NextFirst
<1> QED
  BY <1>6, <1>7

LEMMA FirstPhaseKeeps ==
  ASSUME Inv, FirstPhase
  PROVE  Inv'
<1>1. file \in File /\ pc = "first"
  BY DEF Inv, Types, PlaceType, FirstPhase, Seed, FirstText, FirstFails
<1>2. CASE Seed
  <2>1. PICK t \in Merges(file) : Passes(t) /\ StageOnly(t, "seed")
    BY <1>2 DEF Seed
  <2>2. t \in Texts /\ "seed" \in Ways /\ Right(file, t, "seed")
    BY <1>1, <2>1, MergeFits DEF Ways, Right, Unmended, Passes, TextsOf
  <2> QED
    BY <1>1, <1>2, <2>1, <2>2, StagedFits, NextFirstKeeps DEF Seed
<1>3. CASE FirstText
  <2>1. PICK b \in Resolutions : To(b)
    BY <1>3 DEF FirstText
  <2>2. b \in BuffersOf(file)
    <3>1. SetupType /\ {"source", "floor", "model", "rules"} \subseteq Via
      BY DEF Inv, Types, Via
    <3>2. CASE b \in {Made(SideText(file, s), v) : s \in Side, v \in {"source", "floor"}}
      BY <1>1, <3>1, <3>2, SideTextFits, MadeFits
    <3>3. CASE b \in {Made(t, v) : t \in Merges(file), v \in {"model", "rules", "source"}}
      BY <1>1, <3>1, <3>3, MergeFits, MadeFits
    <3> QED
      BY <3>2, <3>3 DEF Resolutions
  <2>3. /\ tree' = [tree EXCEPT ![file] = "written"] /\ landed' = landed /\ NextFirst
        /\ buffer' = [buffer EXCEPT ![file] = b]
    BY <1>3, <2>1 DEF FirstText, To
  <2>4. FileTypes'
    BY <1>1, <2>2, <2>3, OneBuffer DEF Inv, Types, FileTypes
  <2>5. tree'[file] = "written" /\ \A f \in File \ {file} : tree'[f] = tree[f]
    BY <1>1, <2>3 DEF Inv, Types, FileTypes
  <2>6. StagedPassed'
    BY <2>3, <2>5 DEF Inv, StagedPassed, Staged
  <2> QED
    BY <1>1, <2>3, <2>4, <2>5, <2>6, NextFirstKeeps
<1>4. CASE FirstFails
  <2>1. PICK left_ \in {"raw", "written"} : tree' = [tree EXCEPT ![file] = left_]
    BY <1>4 DEF FirstFails
  <2>2. /\ result' = "escalated" /\ pc' = "returned" /\ file' = file
        /\ config' = config /\ sides' = sides /\ buffer' = buffer /\ loop' = loop
        /\ cache' = cache /\ left' = left /\ landed' = landed
    BY <1>4 DEF FirstFails, Return, setup
  <2>3. SetupType' /\ PlaceType' /\ LoopType' /\ CacheType' /\ LeftType' /\ ResultType'
    BY <2>2 DEF Inv, Types, SetupType, PlaceType, LoopType, CacheType, LeftType, ResultType, Places
  <2>4. FileTypes' /\ \A f \in File : tree'[f] = "staged" => tree[f] = "staged"
    BY <1>1, <2>1, <2>2 DEF Inv, Types, FileTypes
  <2>5. StagedPassed'
    BY <2>2, <2>4 DEF Inv, StagedPassed, Staged
  <2>6. Remains'
    BY <2>2 DEF Inv, Remains, SideText
  <2>7. Clearing' /\ Standing' /\ ToChurn' /\ PastF1' /\ Marked'
    BY <2>2 DEF Clearing, Standing, ToChurn, PastF1, Marked
  <2> QED
    BY <2>3, <2>4, <2>5, <2>6, <2>7 DEF Inv, Types
<1> QED
  BY <1>2, <1>3, <1>4 DEF FirstPhase

-----------------------------------------------------------------------------
(* Phase 2: the gate. *)

\* What a move that leaves the buffer, the cache or the loop alone keeps.
LEMMA Unmoved ==
  ASSUME Inv
  PROVE  /\ UNCHANGED <<cache, file>> => CacheType'
         /\ Keep /\ UNCHANGED cache => CacheType'
         /\ buffer[file] \in BuffersOf(file)
         /\ UNCHANGED loop => LoopType'
         /\ loop \in Loops /\ Len(loop.rounds) <= Threshold
  BY BufferFits DEF Inv, Types, CacheType, LoopType, Keep

LEMMA TextAfter ==
  ASSUME Inv, Keep, NEW b \in BuffersOf(file), To(b)
  PROVE  text' = b.text /\ buffer'[file'] = b /\ buffer' = [buffer EXCEPT ![file] = b]
  BY DEF Inv, Types, PlaceType, FileTypes, Keep, To, text

LEMMA TextStays ==
  ASSUME Keep, UNCHANGED buffer
  PROVE  text' = text /\ buffer'[file'] = buffer[file]
  BY DEF Keep, text

LEMMA CachedFits ==
  ASSUME Inv, NEW t \in TextsOf(file)
  PROVE  Cached(t) \in Seq(TextsOf(file)) /\ Len(Cached(t)) <= 3
<1>1. cache \in Seq(TextsOf(file)) /\ Len(cache) <= 3
  BY DEF Inv, Types, CacheType
<1> DEFINE all == Append(cache, t)
<1>2. all \in Seq(TextsOf(file)) /\ Len(all) = Len(cache) + 1 /\ all # << >>
  BY <1>1, AppendProperties
<1>3. Tail(all) \in Seq(TextsOf(file)) /\ Len(Tail(all)) = Len(all) - 1
  BY <1>2, HeadTailProperties
<1>4. Cached(t) \in {cache, all, Tail(all)} /\ (Cached(t) = all => Len(all) <= 3)
  <2>1. CASE "cache" \notin config.on \/ \E n \in DOMAIN cache : cache[n] = t
    BY <2>1 DEF Cached
  <2>2. CASE ~("cache" \notin config.on \/ \E n \in DOMAIN cache : cache[n] = t)
    BY <1>1, <1>2, <1>3, <2>2 DEF Cached
  <2> QED
    BY <1>1, <1>2, <2>1, <2>2
<1> HIDE DEF all
<1> QED
  BY <1>1, <1>2, <1>3, <1>4

LEMMA RoundsFit ==
  ASSUME Inv, NEW r \in RoundTypes
  PROVE  Rounds(r) \in Seq(RoundTypes) /\ Len(Rounds(r)) <= Threshold
<1>1. loop.rounds \in Seq(RoundTypes) /\ Len(loop.rounds) <= Threshold
  BY DEF Inv, Types, LoopType, Loops
<1> DEFINE all == Append(loop.rounds, r)
<1>2. all \in Seq(RoundTypes) /\ Len(all) = Len(loop.rounds) + 1 /\ all # << >>
  BY <1>1, AppendProperties
<1>3. Tail(all) \in Seq(RoundTypes) /\ Len(Tail(all)) = Len(all) - 1
  BY <1>2, HeadTailProperties
<1>4. Rounds(r) = IF Len(all) > Threshold THEN Tail(all) ELSE all
  BY DEF Rounds
<1> HIDE DEF all
<1> QED
  BY <1>1, <1>2, <1>3, <1>4, StepAssumption

LEMMA VerifyKeeps ==
  ASSUME Inv, Verify
  PROVE  Inv'
<1> DEFINE v == IF Passes(text) THEN "passed" ELSE text.gate
           model == buffer[file].via = "model"
           rounds == Rounds([sig |-> v, model |-> model])
           noClear == IF loop.rounds = << >> THEN 0
                      ELSE IF v = "passed" THEN 0
                      ELSE IF model THEN loop.noClear + 1 ELSE loop.noClear
           b == [buffer[file] EXCEPT !.text = Mended(@)]
           to == IF SameSignature(rounds) \/ StoppedClearing(noClear) THEN AfterLoop(v)
                 ELSE "portfolio"
<1>1. /\ pc = "verify" /\ To(b) /\ pc' = to /\ Keep
      /\ cache' = IF v = "passed" THEN Cached(Mended(text)) ELSE cache
      /\ loop' = [loop EXCEPT !.verdict = v, !.rounds = rounds, !.noClear = noClear]
  BY DEF Verify, Move
<1>2. v \in Verdicts /\ (v = "passed" <=> Passes(text))
  BY BufferFits, StepAssumption DEF Verdicts, Texts, TextsOf
<1>3. [sig |-> v, model |-> model] \in RoundTypes
  <2>1. model \in BOOLEAN
    OBVIOUS
  <2> HIDE DEF v, model
  <2> QED
    BY <1>2, <2>1 DEF RoundTypes
<1>4. rounds \in Seq(RoundTypes) /\ Len(rounds) <= Threshold
  BY <1>3, RoundsFit
<1>5. loop.noClear \in 0..NoClear /\ loop.noClear < NoClear /\ NoClear \in Nat
  BY <1>1, StepAssumption DEF Inv, Types, LoopType, Loops, Clearing
<1>6. noClear \in 0..NoClear
  BY <1>5
<1>7. /\ b = Made(Mended(text), buffer[file].via) /\ b \in BuffersOf(file)
      /\ b.text = Mended(text)
  BY BufferFits, MendedFits, MadeFits DEF Made
<1> HIDE DEF rounds, noClear, v, b
<1>8. LoopType'
  BY <1>1, <1>2, <1>4, <1>6, Unmoved DEF LoopType, Loops
<1>9. CacheType'
  BY <1>1, CachedFits, BufferFits, MendedFits DEF CacheType, Inv, Types, Keep
<1>10. pc' \in {"portfolio", "landing", "exhausted"} /\ (pc' = "landing" => v = "passed")
  BY <1>1 DEF AfterLoop
<1>11. loop'.noClear = noClear /\ loop'.verdict = v
  BY <1>1, Unmoved DEF Loops
<1>12. Clearing'
  <2>1. ASSUME pc' = "portfolio" PROVE ~(noClear >= NoClear)
    BY <1>1, <2>1 DEF StoppedClearing, AfterLoop
  <2> QED
    BY <1>5, <1>6, <1>10, <1>11, <2>1 DEF Clearing
<1>13. text' = b.text /\ buffer' = [buffer EXCEPT ![file] = b]
  BY <1>1, <1>7, TextAfter
<1>14. v = "passed" => Sound(file', text') /\ Lands(file', buffer'[file'], loop'.injected)
  BY <1>1, <1>2, <1>7, <1>13, MendedFits, BufferFits, TextAfter DEF Lands, Keep
<1>15. Standing'
  BY <1>10, <1>11, <1>14 DEF Standing
<1> QED
  BY <1>1, <1>7, <1>8, <1>9, <1>10, <1>12, <1>13, <1>15, MoveKeeps DEF PhaseTwo

\* Moves within phase 2 short of the last resorts.
LEMMA RepairMoveKeeps ==
  ASSUME Inv, Keep, pc \in PhaseTwo,
         pc' \in {"verify", "portfolio", "build", "failed", "exhausted", "endgame", "landing"},
         NEW b \in BuffersOf(file), buffer' \in {buffer, [buffer EXCEPT ![file] = b]},
         LoopType', CacheType', Clearing', Standing'
  PROVE  Inv'
  BY MoveKeeps DEF PhaseTwo

LEMMA TakesSideKeeps ==
  ASSUME Inv, NEW s \in Side, TakesSide(s)
  PROVE  Inv'
<1> DEFINE b == Made(SideText(file, s), "source")
<1>1. /\ pc = "portfolio" /\ s \in Intact /\ To(b) /\ loop' = [loop EXCEPT !.portfolio = TRUE]
      /\ pc' = IF loop.verdict = "passed" THEN "build" ELSE "verify"
      /\ Keep /\ UNCHANGED cache
  BY DEF TakesSide, Move
<1>2. b \in BuffersOf(file) /\ b.text = SideText(file, s)
  BY BufferFits, SideTextFits, MadeFits DEF Inv, Types, Via
<1>3. Sound(file, SideText(file, s))
  BY <1>1 DEF Intact, SideText, Text, Sound
<1> HIDE DEF b
<1>4. text' = SideText(file, s) /\ buffer' = [buffer EXCEPT ![file] = b]
  BY <1>1, <1>2, TextAfter
<1>5. LoopType' /\ loop'.noClear = loop.noClear /\ Clearing'
  BY <1>1, Unmoved DEF LoopType, Loops, Inv, Clearing
<1>6. Standing'
  BY <1>1, <1>3, <1>4 DEF Standing, Keep
<1> QED
  BY <1>1, <1>2, <1>4, <1>5, <1>6, Unmoved, RepairMoveKeeps DEF PhaseTwo

LEMMA NoPortfolioKeeps ==
  ASSUME Inv, NoPortfolio
  PROVE  Inv'
<1>1. PICK p \in BOOLEAN : loop' = [loop EXCEPT !.portfolio = p]
  <2>1. PortfolioDue \in BOOLEAN
    BY DEF PortfolioDue
  <2>2. (loop.portfolio \/ PortfolioDue) \in BOOLEAN
    BY <2>1
  <2> QED
    BY <2>2 DEF NoPortfolio
<1>2. /\ pc = "portfolio" /\ pc' = (IF loop.verdict = "passed" THEN "build" ELSE "failed")
      /\ Keep /\ UNCHANGED <<buffer, cache>>
  BY DEF NoPortfolio, Move, AfterPortfolio
<1>3. LoopType' /\ loop'.noClear = loop.noClear /\ loop'.verdict = loop.verdict /\ Clearing'
  BY <1>1, <1>2, Unmoved DEF LoopType, Loops, Inv, Clearing
<1>4. Standing'
  BY <1>2, <1>3, TextStays DEF Standing, Inv, Keep
<1> QED
  BY <1>2, <1>3, <1>4, Unmoved, RepairMoveKeeps DEF PhaseTwo

LEMMA BuildKeeps ==
  ASSUME Inv, BuildTest \/ NoBuildTest
  PROVE  Inv'
<1>1. CASE BuildTest
  <2>1. PICK says \in BuildSays(text) :
          /\ loop' = [loop EXCEPT !.built = TRUE,
                        !.verdict = IF says = "build" THEN "build" ELSE @]
          /\ pc' = (IF says = "builds" THEN "landing" ELSE "failed") /\ Keep
    BY <1>1 DEF BuildTest, Move
  <2>2. pc = "build" /\ UNCHANGED <<buffer, cache>> /\ Sound(file, text)
    BY <1>1 DEF BuildTest, Inv, Standing
  <2>3. "build" \in Verdicts
    BY DEF Verdicts
  <2>4. LoopType' /\ loop'.noClear = loop.noClear /\ Clearing'
    BY <2>1, <2>2, <2>3, Unmoved DEF LoopType, Loops, Inv, Clearing
  <2>5. Standing'
    BY <2>1, <2>2, TextStays, BufferFits DEF Standing, Lands, Keep
  <2> QED
    BY <2>1, <2>2, <2>4, <2>5, Unmoved, RepairMoveKeeps DEF PhaseTwo
<1>2. CASE NoBuildTest
  <2>1. /\ pc = "build" /\ pc' = "landing" /\ Keep /\ UNCHANGED <<buffer, loop, cache>>
        /\ Sound(file, text)
    BY <1>2 DEF NoBuildTest, Move, Inv, Standing
  <2>2. Clearing' /\ Standing'
    BY <2>1, TextStays, BufferFits DEF Clearing, Standing, Lands, Keep
  <2> QED
    BY <2>1, <2>2, Unmoved, RepairMoveKeeps DEF PhaseTwo
<1> QED
  BY <1>1, <1>2

-----------------------------------------------------------------------------
(* Phase 2: after a failure. *)

LEMMA RestoreKeeps ==
  ASSUME Inv, Restore
  PROVE  Inv'
<1> DEFINE newest == cache[Max(Others)]
           b == Made(newest, "cache")
<1>1. /\ pc = "failed" /\ Others # {} /\ To(b) /\ loop' = Unbuilt(loop)
      /\ pc' = "verify" /\ Keep /\ UNCHANGED cache
  BY DEF Restore, Restorable, Move
<1>2. newest \in TextsOf(file)
  <2>1. Len(cache) \in Nat /\ cache \in [1..Len(cache) -> TextsOf(file)]
    BY LenProperties DEF Inv, Types, CacheType
  <2>2. Others \subseteq 1..Len(cache)
    BY <2>1 DEF Others
  <2>3. \E n \in Others : \A m \in Others : n >= m
    <3> DEFINE gap == {Len(cache) - n : n \in Others}
    <3>0. \A n \in Others : Len(cache) - n \in Nat
      BY <2>1, <2>2
    <3>1. gap \subseteq Nat /\ gap # {}
      BY <1>1, <3>0
    <3>2. PICK p \in gap : \A r \in gap : p <= r
      BY <3>1, HasLeast
    <3>3. PICK n \in Others : p = Len(cache) - n
      BY <3>2
    <3>4. \A m \in Others : Len(cache) - n <= Len(cache) - m
      BY <3>2, <3>3
    <3> QED
      BY <2>1, <2>2, <3>3, <3>4
  <2>4. Max(Others) \in Others
    BY <2>3 DEF Max
  <2> QED
    BY <2>1, <2>2, <2>4
<1>3. b \in BuffersOf(file)
  BY <1>2, MadeFits DEF Via
<1> HIDE DEF b
<1>4. buffer' = [buffer EXCEPT ![file] = b]
  BY <1>1, <1>3, TextAfter
<1>5. LoopType' /\ loop'.noClear = loop.noClear /\ Clearing'
  BY <1>1, Unmoved DEF Unbuilt, LoopType, Loops, Inv, Clearing
<1>6. Standing'
  BY <1>1 DEF Standing
<1> QED
  BY <1>1, <1>3, <1>4, <1>5, <1>6, Unmoved, RepairMoveKeeps DEF PhaseTwo

LEMMA RungKeeps ==
  ASSUME Inv, Rung
  PROVE  Inv'
<1>0. pc = "failed" /\ UNCHANGED cache
  BY DEF Rung
<1>1. CASE \E s \in Intact : /\ To(Made(SideText(file, s), "source"))
                             /\ loop' = [Unbuilt(loop) EXCEPT !.rung = TRUE]
                             /\ Move("verify")
  <2>1. PICK s \in Intact : /\ To(Made(SideText(file, s), "source"))
                            /\ loop' = [Unbuilt(loop) EXCEPT !.rung = TRUE]
                            /\ pc' = "verify" /\ Keep
    BY <1>1 DEF Move
  <2> DEFINE b == Made(SideText(file, s), "source")
  <2>2. b \in BuffersOf(file)
    BY BufferFits, SideTextFits, MadeFits DEF Inv, Types, Via, Intact
  <2> HIDE DEF b
  <2>3. buffer' = [buffer EXCEPT ![file] = b]
    BY <2>1, <2>2, TextAfter DEF b
  <2>4. LoopType' /\ loop'.noClear = loop.noClear /\ Clearing'
    BY <1>0, <2>1, Unmoved DEF Unbuilt, LoopType, Loops, Inv, Clearing
  <2>5. Standing'
    BY <2>1 DEF Standing
  <2> QED
    BY <1>0, <2>1, <2>2, <2>3, <2>4, <2>5, Unmoved, RepairMoveKeeps DEF PhaseTwo
<1>2. CASE loop' = [loop EXCEPT !.rung = TRUE] /\ Move("failed") /\ UNCHANGED buffer
  <2>1. pc' = "failed" /\ Keep
    BY <1>2 DEF Move
  <2>2. LoopType' /\ loop'.noClear = loop.noClear /\ loop'.verdict = loop.verdict /\ Clearing'
    BY <1>0, <1>2, <2>1, Unmoved DEF LoopType, Loops, Inv, Clearing
  <2>3. Standing'
    BY <1>0, <1>2, <2>1, <2>2, TextStays DEF Standing, Inv, Keep
  <2> QED
    BY <1>0, <1>2, <2>1, <2>2, <2>3, Unmoved, RepairMoveKeeps DEF PhaseTwo
<1> QED
  BY <1>1, <1>2 DEF Rung

\* A text that has passed goes to be landed.
LEMMA PassedLands ==
  ASSUME Inv, pc = "failed", NEW b \in BuffersOf(file), NEW injected \in BOOLEAN,
         Lands(file, b, injected), To(b), Move("landing"), UNCHANGED cache,
         loop' = [loop EXCEPT !.verdict = "passed", !.injected = injected]
  PROVE  Inv'
<1>1. pc' = "landing" /\ Keep
  BY DEF Move
<1>2. /\ text' = b.text /\ buffer' = [buffer EXCEPT ![file] = b]
      /\ buffer'[file'] = b /\ file' = file
  BY <1>1, TextAfter DEF Keep
<1>3. "passed" \in Verdicts
  BY DEF Verdicts
<1>4. LoopType' /\ loop'.injected = injected
  BY <1>3, Unmoved DEF LoopType, Loops
<1>5. Clearing' /\ Standing'
  BY <1>1, <1>2, <1>4 DEF Clearing, Standing
<1> QED
  BY <1>1, <1>2, <1>4, <1>5, Unmoved, RepairMoveKeeps DEF PhaseTwo

LEMMA CrossUnitKeeps ==
  ASSUME Inv, CrossUnit
  PROVE  Inv'
<1>1. PICK t \in Merges(file) : Passes(t) /\ To(Made(Mended(t), "source"))
  BY DEF CrossUnit
<1>2. Mended(t) \in TextsOf(file) /\ Sound(file, Mended(t))
  BY <1>1, BufferFits, MergeFits, MendedFits
<1>3. /\ Made(Mended(t), "source") \in BuffersOf(file)
      /\ Lands(file, Made(Mended(t), "source"), loop.injected)
  BY <1>2, MadeFits DEF Via, Lands
<1>4. loop' = [loop EXCEPT !.verdict = "passed", !.injected = loop.injected]
  BY Unmoved DEF CrossUnit, Verdict, Loops
<1>5. loop.injected \in BOOLEAN
  BY Unmoved DEF Loops
<1> QED
  BY <1>1, <1>3, <1>4, <1>5, PassedLands DEF CrossUnit, Repairing

LEMMA InjectKeeps ==
  ASSUME Inv, Inject
  PROVE  Inv'
<1>1. PICK t \in Merges(file) : Passes(t) /\ To(Made(t, buffer[file].via))
  BY DEF Inject
<1>2. /\ Made(t, buffer[file].via) \in BuffersOf(file)
      /\ Lands(file, Made(t, buffer[file].via), TRUE)
  BY <1>1, BufferFits, MergeFits, MadeFits DEF Lands
<1> QED
  BY <1>1, <1>2, PassedLands DEF Inject, Repairing

LEMMA RetriesFit ==
  ASSUME Inv, MayRepair
  PROVE  loop.retries + 1 \in 0..(Budget + Allowance)
<1>1. loop.retries \in 0..(Budget + Allowance) /\ Budget \in Nat /\ Allowance \in Nat
  BY Unmoved, StepAssumption DEF Loops
<1> QED
  BY <1>1 DEF MayRepair

LEMMA GiveUpKeeps ==
  ASSUME Inv, GiveUp
  PROVE  Inv'
<1>1. PICK n \in {0, 1} : /\ n = 1 => MayRepair
                          /\ loop' = [loop EXCEPT !.retries = @ + n]
  BY DEF GiveUp
<1>2. /\ pc = "failed" /\ pc' = AfterLoop(loop.verdict) /\ Keep /\ UNCHANGED <<buffer, cache>>
  BY DEF GiveUp, Repairing, Move
<1>3. loop.retries + n \in 0..(Budget + Allowance)
  <2>1. loop.retries \in 0..(Budget + Allowance)
    BY Unmoved DEF Loops
  <2>2. CASE n = 0
    BY <2>1, <2>2, StepAssumption
  <2>3. CASE n = 1
    BY <1>1, <2>3, RetriesFit
  <2> QED
    BY <2>2, <2>3
<1>4. LoopType' /\ loop'.verdict = loop.verdict
  BY <1>1, <1>3, Unmoved DEF LoopType, Loops
<1>5. pc' \in {"landing", "exhausted"} /\ (pc' = "landing" => loop.verdict = "passed")
  BY <1>2 DEF AfterLoop
<1>6. Clearing' /\ Standing'
  <2>1. loop.verdict = "passed" => Lands(file, buffer[file], loop'.injected)
    BY <1>2, BufferFits DEF Inv, Standing, Lands
  <2>2. file' = file /\ buffer'[file'] = buffer[file]
    BY <1>2, TextStays DEF Keep
  <2> QED
    BY <1>5, <2>1, <2>2 DEF Clearing, Standing
<1> QED
  BY <1>2, <1>4, <1>5, <1>6, Unmoved, RepairMoveKeeps DEF PhaseTwo

LEMMA RepairedKeeps ==
  ASSUME Inv, Repairing, MayRepair, NEW b \in BuffersOf(file), Repaired(b)
  PROVE  Inv'
<1>1. /\ pc = "failed" /\ pc' = "verify" /\ Keep /\ To(b) /\ UNCHANGED cache
  BY DEF Repairing, Repaired, Move
<1>2. PICK c \in SUBSET Verdicts, m \in BOOLEAN :
        loop' = [loop EXCEPT !.retries = @ + 1, !.cycles = c, !.model = m]
  <2>1. loop.cycles \cup {loop.verdict} \in SUBSET Verdicts /\ loop.cycles \in SUBSET Verdicts
    BY Unmoved DEF Loops
  <2>2. (loop.model \/ b.via = "model") \in BOOLEAN
    OBVIOUS
  <2> QED
    BY <2>1, <2>2 DEF Repaired
<1>3. LoopType' /\ loop'.noClear = loop.noClear
  BY <1>2, RetriesFit, Unmoved DEF LoopType, Loops
<1>4. Clearing' /\ Standing'
  BY <1>1, <1>3 DEF Clearing, Standing, Inv
<1>5. buffer' = [buffer EXCEPT ![file] = b]
  BY <1>1, TextAfter
<1> QED
  BY <1>1, <1>3, <1>4, <1>5, Unmoved, RepairMoveKeeps DEF PhaseTwo

LEMMA RepairsKeep ==
  ASSUME Inv, RepairByRule \/ AskAgain \/ SideFallback
  PROVE  Inv'
<1>1. PICK t \in Merges(file), via \in {"rules", "model", "source"} : Repaired(Made(t, via))
  BY DEF RepairByRule, AskAgain, SideFallback
<1>2. Made(t, via) \in BuffersOf(file)
  BY BufferFits, MergeFits, MadeFits DEF Via
<1> QED
  BY <1>1, <1>2, RepairedKeeps DEF RepairByRule, AskAgain, SideFallback

LEMMA NoRepairKeeps ==
  ASSUME Inv, NoRepair
  PROVE  Inv'
<1>1. /\ pc = "failed" /\ pc' = "exhausted" /\ Keep /\ UNCHANGED <<buffer, cache>>
      /\ loop' = [loop EXCEPT !.retries = @ + 1, !.verdict = "none"]
  BY DEF NoRepair, Repairing, Move
<1>2. "none" \in Verdicts
  BY DEF Verdicts
<1>3. LoopType'
  BY <1>1, <1>2, RetriesFit, Unmoved DEF NoRepair, LoopType, Loops
<1>4. Clearing' /\ Standing'
  BY <1>1 DEF Clearing, Standing
<1> QED
  BY <1>1, <1>3, <1>4, Unmoved, RepairMoveKeeps DEF PhaseTwo

-----------------------------------------------------------------------------
(* The last resorts. *)

LEMMA FinalRepairKeeps ==
  ASSUME Inv, FinalRepair
  PROVE  Inv'
<1>1. pc = "exhausted" /\ UNCHANGED cache
  BY DEF FinalRepair
<1>2. CASE Verdict(loop.verdict) /\ Move("endgame") /\ UNCHANGED buffer
  <2>1. pc' = "endgame" /\ Keep /\ loop' = [loop EXCEPT !.verdict = loop.verdict]
    BY <1>2 DEF Move, Verdict
  <2>2. LoopType'
    BY <2>1, Unmoved DEF LoopType, Loops
  <2>3. Clearing' /\ Standing'
    BY <2>1 DEF Clearing, Standing
  <2> QED
    BY <1>1, <1>2, <2>1, <2>2, <2>3, Unmoved, RepairMoveKeeps DEF PhaseTwo
<1>3. CASE \E t \in Merges(file) :
             /\ To(IF t.gate = "mended" THEN Made(Mended(t), "rules")
                   ELSE [buffer[file] EXCEPT !.via = "rules"])
             /\ Verdict(IF Passes(t) THEN "passed" ELSE t.gate)
             /\ Move(LastRepair(Passes(t)))
  <2>1. PICK t \in Merges(file) :
             /\ To(IF t.gate = "mended" THEN Made(Mended(t), "rules")
                   ELSE [buffer[file] EXCEPT !.via = "rules"])
             /\ loop' = [loop EXCEPT !.verdict = IF Passes(t) THEN "passed" ELSE t.gate]
             /\ pc' = "endgame" /\ Keep
    BY <1>3 DEF Move, LastRepair, Verdict
  <2> DEFINE b == IF t.gate = "mended" THEN Made(Mended(t), "rules")
                  ELSE [buffer[file] EXCEPT !.via = "rules"]
  <2>2. t \in TextsOf(file)
    BY BufferFits, MergeFits
  <2>3. b \in BuffersOf(file)
    <3>1. Made(Mended(t), "rules") \in BuffersOf(file)
      BY <2>2, MendedFits, MadeFits DEF Via
    <3>2. [buffer[file] EXCEPT !.via = "rules"] \in BuffersOf(file)
      BY BufferFits DEF BuffersOf, Via
    <3> QED
      BY <3>1, <3>2
  <2> HIDE DEF b
  <2>4. buffer' = [buffer EXCEPT ![file] = b]
    BY <2>1, <2>3, TextAfter DEF b
  <2>5. (IF Passes(t) THEN "passed" ELSE t.gate) \in Verdicts
    BY <2>2 DEF Verdicts, Texts, TextsOf
  <2>6. LoopType'
    BY <2>1, <2>5, Unmoved DEF LoopType, Loops
  <2>7. Clearing' /\ Standing'
    BY <2>1 DEF Clearing, Standing
  <2> QED
    BY <1>1, <2>1, <2>3, <2>4, <2>6, <2>7, Unmoved, RepairMoveKeeps DEF PhaseTwo
<1> QED
  BY <1>2, <1>3 DEF FinalRepair

LEMMA FloorKeeps ==
  ASSUME Inv, Floor
  PROVE  Inv'
<1>1. PICK s \in Side : To(Made(SideText(file, s), "floor"))
  BY DEF Floor
<1> DEFINE b == Made(SideText(file, s), "floor")
<1>2. b \in BuffersOf(file) /\ b.via = "floor"
  BY BufferFits, SideTextFits, MadeFits DEF Inv, Types, Via
<1> HIDE DEF b
<1>3. pc = "endgame" /\ pc' = "landing" /\ Keep /\ UNCHANGED <<loop, cache>>
  BY DEF Floor, Move
<1>4. buffer' = [buffer EXCEPT ![file] = b] /\ buffer'[file'] = b
  BY <1>1, <1>2, <1>3, TextAfter DEF b
<1>5. Clearing' /\ Standing'
  BY <1>2, <1>3, <1>4 DEF Clearing, Standing, Lands
<1> QED
  BY <1>2, <1>3, <1>4, <1>5, Unmoved, RepairMoveKeeps DEF PhaseTwo

\* A move among the last resorts that touches nothing else.
LEMMA ResortKeeps ==
  ASSUME Inv, Keep, pc \in PhaseTwo, pc' \in {"rescue", "tier 2", "churn", "lost"},
         UNCHANGED <<buffer, loop, cache>>, pc' = "churn" => left.both,
         Eligible => Cardinality(Good) # 1
  PROVE  Inv'
<1>1. Clearing' /\ Standing' /\ Eligible' = Eligible
  BY DEF Clearing, Standing, Eligible
<1> QED
  BY <1>1, Unmoved, MoveKeeps DEF PhaseTwo

LEMMA CompileCleanFits ==
  CompileClean = {} => Cardinality(Good) # 1
<1>1. CASE Cardinality(Good) = 1
  <2>1. CompileClean = Good
    BY <1>1 DEF CompileClean, Good
  <2>2. Good # {}
    BY <1>1, FS_EmptySet
  <2> QED
    BY <2>1, <2>2
<1> QED
  BY <1>1

LEMMA F1Keeps ==
  ASSUME Inv, F1
  PROVE  Inv'
<1>1. pc = "endgame" /\ file \in File /\ SetupType
  BY DEF F1, Inv, Types, PlaceType
<1>2. PICK near \in {{}} \cup {{s} : s \in Side} :
        /\ Probed(TakenOver(near) # {})
        /\ \/ \E s \in TakenOver(near) \cup (IF TakenOver(near) = {} THEN CompileClean ELSE {}) :
                StageAs(SideText(file, s), "f1")
           \/ /\ TakenOver(near) = {} /\ CompileClean = {} /\ pc' = "rescue"
              /\ UNCHANGED <<setup, file, tree, buffer, loop, cache, landed, result>>
  BY DEF F1
<1>3. near \subseteq Side
  BY <1>2
<1>4. config' = config /\ sides' = sides
  BY <1>2 DEF StageAs, setup
<1>5. LeftType' /\ Remains'
  <2>1. PICK both \in BOOLEAN : /\ left' = [of |-> file, both |-> both]
                                /\ both => \A s \in Side : Passes(SideText(file, s))
    <3>1. (TakenOver(near) = {} /\ \A s \in Side : Passes(SideText(file, s))) \in BOOLEAN
      OBVIOUS
    <3> QED
      BY <1>2, <3>1 DEF Probed
  <2>2. file \in 0..Files
    BY <1>1 DEF File
  <2> QED
    BY <1>1, <1>4, <2>1, <2>2 DEF LeftType, Remains, SideText
<1>6. ASSUME NEW s \in TakenOver(near) \cup (IF TakenOver(near) = {} THEN CompileClean ELSE {}),
             StageAs(SideText(file, s), "f1")
      PROVE  Inv'
  <2>1. s \in Side /\ Passes(SideText(file, s))
    BY <1>3, <1>6 DEF TakenOver, CompileClean
  <2>2. SideText(file, s) \in Texts /\ "f1" \in Ways /\ Right(file, SideText(file, s), "f1")
    BY <1>1, <2>1, SideTextFits DEF Ways, Right, Unmended, Passes, TextsOf
  <2> QED
    BY <1>1, <1>5, <1>6, <2>1, <2>2, StageAsKeeps DEF PhaseTwo
<1>7. CASE /\ CompileClean = {} /\ pc' = "rescue"
           /\ UNCHANGED <<setup, file, tree, buffer, loop, cache, landed, result>>
  <2>1. /\ config' = config /\ sides' = sides /\ file' = file /\ tree' = tree /\ buffer' = buffer
        /\ loop' = loop /\ cache' = cache /\ landed' = landed /\ result' = result
    BY <1>7 DEF setup
  <2>2. Types'
    BY <1>5, <1>7, <2>1 DEF Inv, Types, SetupType, PlaceType, Places, LoopType, CacheType, FileTypes,
       ResultType
  <2>3. Good' = Good
    BY <2>1 DEF Good, SideText
  <2>4. Clearing' /\ Standing' /\ ToChurn' /\ PastF1'
    BY <1>7, <2>3, CompileCleanFits DEF Clearing, Standing, ToChurn, PastF1
  <2>5. Marked' /\ StagedPassed'
    BY <1>1, <1>7, <2>1 DEF Inv, Marked, StagedPassed, Staged
  <2> QED
    BY <1>5, <2>2, <2>4, <2>5 DEF Inv
<1> QED
  BY <1>2, <1>6, <1>7

LEMMA ResortsKeep ==
  ASSUME Inv, NoF1 \/ NoRescue \/ NoTier2
  PROVE  Inv'
<1>1. CASE NoF1
  BY <1>1, ResortKeeps DEF NoF1, Move, PhaseTwo
<1>2. CASE NoRescue
  <2>1. Eligible => Cardinality(Good) # 1
    BY <1>2 DEF NoRescue, Inv, PastF1
  <2> QED
    BY <1>2, <2>1, ResortKeeps DEF NoRescue, Move, PhaseTwo
<1>3. CASE NoTier2
  <2>1. Eligible => Cardinality(Good) # 1
    BY <1>3 DEF NoTier2, Inv, PastF1
  <2>2. pc' \in {"churn", "lost"} /\ (pc' = "churn" => left.both) /\ Keep /\ pc = "tier 2"
    BY <1>3 DEF NoTier2, Move
  <2> QED
    BY <1>3, <2>1, <2>2, ResortKeeps DEF NoTier2, PhaseTwo
<1> QED
  BY <1>1, <1>2, <1>3

LEMMA SidesLand ==
  ASSUME Inv, pc \in PhaseTwo, NEW f \in File, NEW s \in Side,
         NEW by \in Ways, Stage(SideText(f, s), by), Right(file, SideText(f, s), by)
  PROVE  Inv'
<1>1. SideText(f, s) \in Texts
  BY SideTextFits DEF Inv, Types, TextsOf
<1> QED
  BY <1>1, StageKeeps

LEMMA RescueKeeps ==
  ASSUME Inv, Rescue
  PROVE  Inv'
<1>1. PICK s \in Intact : Stage(SideText(file, s), "rescue")
  BY DEF Rescue
<1>2. /\ s \in Side /\ "rescue" \in Ways /\ pc \in PhaseTwo
      /\ Right(file, SideText(file, s), "rescue")
  BY DEF Intact, SideText, Text, Right, Unmended, Passing, Ways, Rescue, PhaseTwo
<1> QED
  BY <1>1, <1>2, BufferFits, SidesLand

LEMMA Tier2Keeps ==
  ASSUME Inv, Tier2
  PROVE  Inv'
<1>1. PICK s \in Side :
        \/ Passes(SideText(file, s)) /\ Stage(SideText(file, s), "tier 2")
        \/ \E t \in Merges(file) : Passes(t) /\ Stage(t, "tier 2")
        \/ /\ Passes(SideText(file, Other(s))) /\ Stage(SideText(file, Other(s)), "tier 2")
        \/ Move("lost") /\ UNCHANGED <<buffer, loop, cache>>
  BY DEF Tier2
<1>2. pc = "tier 2" /\ pc \in PhaseTwo /\ "tier 2" \in Ways /\ file \in File /\ SetupType
  BY BufferFits DEF Tier2, PhaseTwo, Ways, Inv, Types
<1>0. ASSUME NEW t \in TextsOf(file), t.of = file, Passes(t) PROVE Right(file, t, "tier 2")
  BY <1>0 DEF Right, Unmended, Passes
<1>3. CASE Passes(SideText(file, s)) /\ Stage(SideText(file, s), "tier 2")
  BY <1>0, <1>2, <1>3, SideTextFits, SidesLand
<1>4. CASE \E t \in Merges(file) : Passes(t) /\ Stage(t, "tier 2")
  BY <1>0, <1>2, <1>4, MergeFits, StageKeeps DEF TextsOf
<1>5. CASE Passes(SideText(file, Other(s))) /\ Stage(SideText(file, Other(s)), "tier 2")
  <2>1. Other(s) \in Side
    <3>1. \E o \in Side : o # s
      BY DEF Side
    <3> QED
      BY <3>1 DEF Other
  <2> QED
    BY <1>0, <1>2, <1>5, <2>1, SideTextFits, SidesLand
<1>6. CASE Move("lost") /\ UNCHANGED <<buffer, loop, cache>>
  <2>1. Eligible => Cardinality(Good) # 1
    BY <1>2 DEF Inv, PastF1
  <2> QED
    BY <1>2, <1>6, <2>1, ResortKeeps DEF Move
<1> QED
  BY <1>1, <1>3, <1>4, <1>5, <1>6

\* The side of another file that the churn fallback may take has passed.
LEMMA ChurnKeeps ==
  ASSUME Inv, Churn
  PROVE  Inv'
<1>1. PICK s \in Side : Stage(SideText(left.of, s), "churn")
  BY DEF Churn, ChurnText
<1>2. left.of \in File /\ Passes(SideText(left.of, s))
  BY DEF Churn, Inv, ToChurn, Remains
<1>3. pc \in PhaseTwo /\ "churn" \in Ways /\ Right(file, SideText(left.of, s), "churn")
  BY <1>2 DEF Churn, PhaseTwo, Ways, Right, Passes
<1> QED
  BY <1>1, <1>2, <1>3, SidesLand

-----------------------------------------------------------------------------
(* Returning, and landing. *)

LEMMA ReturnKeeps ==
  ASSUME Inv, pc' = "returned", result' \in {"clean", "escalated"}, UNCHANGED <<setup, file, tree, landed, left>>,
         LoopType', CacheType', FileTypes'
  PROVE  Inv'
<1>1. /\ config' = config /\ sides' = sides /\ file' = file /\ tree' = tree
      /\ landed' = landed /\ left' = left
  BY DEF setup
<1>2. SetupType' /\ PlaceType' /\ LeftType' /\ ResultType'
  BY <1>1 DEF Inv, Types, SetupType, PlaceType, LeftType, ResultType, Places
<1>3. Clearing' /\ Standing' /\ ToChurn' /\ PastF1' /\ Marked'
  BY DEF Clearing, Standing, ToChurn, PastF1, Marked
<1>4. Remains' /\ StagedPassed'
  BY <1>1 DEF Inv, Remains, SideText, StagedPassed, Staged
<1> QED
  BY <1>2, <1>3, <1>4 DEF Inv, Types

LEMMA LeavesKeep ==
  ASSUME Inv, Finish \/ Escalate
  PROVE  Inv'
<1>1. /\ pc' = "returned" /\ result' \in {"clean", "escalated"} /\ UNCHANGED file
      /\ UNCHANGED <<setup, tree, buffer, loop, cache, left, landed>>
  BY DEF Finish, Escalate, Return, Outcome
<1>2. FileTypes' /\ LoopType' /\ CacheType'
  BY <1>1, Unmoved DEF Inv, Types, FileTypes
<1> QED
  BY <1>1, <1>2, ReturnKeeps

\* What is landed in the end: the buffer, or what the landing makes of it, sound.
LEMMA LandingFits ==
  ASSUME Inv, pc = "landing", NEW b \in Landings
  PROVE  /\ b \in BuffersOf(file)
         /\ b = buffer[file] \/ b.via = "floor" \/ Sound(file, b.text)
<1> DEFINE Fits(c) == /\ c \in BuffersOf(file)
                      /\ c = buffer[file] \/ c.via = "floor" \/ Sound(file, c.text)
<1>1. Fits(buffer[file])
  BY BufferFits
<1>2. PICK r \in Reconciled(buffer[file]) : \E c \in Floored(r) : b \in Respectful(c)
  BY DEF Landings
<1>3. PICK c \in Floored(r) : b \in Respectful(c)
  BY <1>2
<1>4. Fits(r)
  <2>1. CASE r = buffer[file]
    BY <1>1, <2>1
  <2>2. CASE r # buffer[file]
    <3>1. PICK t \in Merges(file) : Passes(t) /\ r = [buffer[file] EXCEPT !.text = Mended(t)]
      BY <1>2, <2>2 DEF Reconciled
    <3>2. Mended(t) \in TextsOf(file) /\ Sound(file, Mended(t))
      BY <3>1, BufferFits, MergeFits, MendedFits
    <3>3. r \in BuffersOf(file) /\ r.text = Mended(t)
      BY <3>1, <3>2, BufferFits DEF BuffersOf
    <3> QED
      BY <3>2, <3>3
  <2> QED
    BY <2>1, <2>2
<1>5. Fits(c)
  <2>1. CASE c = r
    BY <1>4, <2>1
  <2>2. CASE c # r
    <3>1. PICK s \in Side : c = Made(SideText(file, s), "floor")
      BY <1>3, <2>2 DEF Floored
    <3> QED
      BY <3>1, BufferFits, SideTextFits, MadeFits DEF Inv, Types, Via
  <2> QED
    BY <2>1, <2>2
<1>6. CASE b = c
  BY <1>5, <1>6
<1>7. CASE b # c
  <2>1. PICK t \in Merges(file) \cup {SideText(file, "current")} :
          Passes(t) /\ b = Made(Mended(t), "source")
    BY <1>3, <1>7 DEF Respectful
  <2>2. t \in TextsOf(file)
    BY <2>1, BufferFits, MergeFits, SideTextFits DEF Inv, Types, Side
  <2>3. Mended(t) \in TextsOf(file) /\ Sound(file, Mended(t))
    BY <2>1, <2>2, MendedFits
  <2> QED
    BY <2>1, <2>3, MadeFits DEF Via
<1> QED
  BY <1>6, <1>7

LEMMA LandKeeps ==
  ASSUME Inv, Land
  PROVE  Inv'
<1>1. PICK b \in Landings : Stage(b.text, WayOf(b))
  BY DEF Land
<1>2. pc = "landing" /\ pc \in PhaseTwo
  BY DEF Land, PhaseTwo
<1>3. /\ b \in BuffersOf(file)
      /\ b = buffer[file] \/ b.via = "floor" \/ Sound(file, b.text)
  BY <1>2, LandingFits
<1>4. Lands(file, buffer[file], loop.injected)
  BY <1>2 DEF Inv, Standing
<1>5. b.text \in Texts /\ WayOf(b) \in Ways
  BY <1>3 DEF BuffersOf, TextsOf, WayOf, Ways
<1>6. Right(file, b.text, WayOf(b))
  BY <1>3, <1>4 DEF Lands, Sound, Right, WayOf, Unmended, Passing, Passes
<1> QED
  BY <1>1, <1>2, <1>5, <1>6, StageKeeps

LEMMA CollapseKeeps ==
  ASSUME Inv, Collapse
  PROVE  Inv'
<1>1. PICK b \in Landings : To(b)
  BY DEF Collapse
<1>2. /\ pc = "landing" /\ pc' = "returned" /\ result' = "escalated"
      /\ UNCHANGED <<setup, file, tree, landed, left, cache>>
      /\ loop' = [loop EXCEPT !.verdict = "collapsed"]
  BY DEF Collapse, Return, Verdict
<1>3. b \in BuffersOf(file)
  BY <1>2, LandingFits
<1>4. "collapsed" \in Verdicts
  BY DEF Verdicts
<1>5. LoopType' /\ CacheType'
  BY <1>2, <1>4, Unmoved DEF LoopType, Loops
<1>6. FileTypes'
  BY <1>1, <1>2, <1>3, OneBuffer DEF To, Inv, Types, FileTypes
<1> QED
  BY <1>2, <1>5, <1>6, ReturnKeeps

-----------------------------------------------------------------------------
LEMMA InitInv == Init => Inv
<1> SUFFICES ASSUME Init PROVE Inv
  OBVIOUS
<1>1. /\ config \in Configs /\ sides \in [File -> [Side -> config.verdicts]]
      /\ pc = "first" /\ file = 1 /\ tree = [f \in File |-> "raw"]
      /\ buffer = [f \in File |-> NoBuffer]
      /\ loop = NewLoop /\ cache = << >> /\ left = [of |-> 0, both |-> FALSE]
      /\ landed = [f \in File |-> [of |-> 0, gate |-> "none", by |-> "none"]]
      /\ result = "none"
  BY DEF Init
<1>2. 1 \in File /\ 0 \in 0..Files /\ \A f \in File : f >= 1
  BY StepAssumption DEF File
<1>3. SetupType /\ PlaceType /\ LeftType /\ ResultType
  BY <1>1, <1>2 DEF SetupType, PlaceType, Places, LeftType, ResultType
<1>4. LoopType /\ CacheType /\ Clearing
  BY <1>1, NewLoopFits, StepAssumption DEF LoopType, CacheType, Clearing
<1>5. FileTypes
  <2>1. [of |-> 0, gate |-> "none", by |-> "none"] \in Landed
    BY <1>2 DEF Landed, Ways
  <2> QED
    <3>1. \A f \in File : NoBuffer \in BuffersOf(f)
      BY NoBufferFits
    <3>2. NoBuffer \in [text : Texts, via : Via]
      BY <1>2, <3>1 DEF BuffersOf, TextsOf
    <3> QED
      BY <1>1, <2>1, <3>1, <3>2 DEF FileTypes
<1>6. Standing /\ Remains /\ ToChurn /\ PastF1
  BY <1>1 DEF Standing, Remains, ToChurn, PastF1
<1>7. Marked /\ StagedPassed
  BY <1>1, <1>2 DEF Marked, StagedPassed, Staged
<1> QED
  BY <1>3, <1>4, <1>5, <1>6, <1>7 DEF Inv, Types

LEMMA StutterKeeps ==
  ASSUME Inv, UNCHANGED vars
  PROVE  Inv'
<1>1. Types'
  BY DEF vars, Inv, Types, SetupType, PlaceType, LoopType, CacheType, FileTypes, LeftType, ResultType
<1>2. Clearing' /\ Standing' /\ Remains' /\ ToChurn' /\ PastF1'
  BY DEF vars, Inv, Clearing, Standing, text, Remains, SideText, ToChurn, PastF1, Good, Eligible
<1>3. Marked' /\ StagedPassed'
  BY DEF vars, Inv, Marked, StagedPassed, Staged
<1> QED
  BY <1>1, <1>2, <1>3 DEF Inv

LEMMA StepInv == Inv /\ [Next]_vars => Inv'
<1> SUFFICES ASSUME Inv, [Next]_vars PROVE Inv'
  OBVIOUS
<1>1. CASE FirstPhase
  BY <1>1, FirstPhaseKeeps
<1>2. CASE Gate
  BY <1>2, VerifyKeeps, NoPortfolioKeeps, BuildKeeps, TakesSideKeeps DEF Gate
<1>3. CASE Failed
  BY <1>3, RestoreKeeps, RungKeeps, CrossUnitKeeps, GiveUpKeeps, InjectKeeps, RepairsKeep,
     NoRepairKeeps DEF Failed
<1>4. CASE LastResorts
  BY <1>4, FinalRepairKeeps, FloorKeeps, F1Keeps, ResortsKeep, RescueKeeps, Tier2Keeps,
     ChurnKeeps, LeavesKeep DEF LastResorts
<1>5. CASE Land \/ Collapse \/ Finish
  BY <1>5, LandKeeps, CollapseKeeps, LeavesKeep
<1>6. CASE Done \/ UNCHANGED vars
  BY <1>6, StutterKeeps DEF Done
<1> QED
  BY <1>1, <1>2, <1>3, <1>4, <1>5, <1>6 DEF Next

THEOREM Invariant == Spec => []Inv
<1> QED
  BY InitInv, StepInv, PTL DEF Spec

\* The types of the state: the repairs stay within their budget and its extra
\* allowance, and the rounds, the rounds that clear nothing and the remembered
\* buffers within their windows.
LEMMA InvTypes == Inv => TypeOK
<1> SUFFICES ASSUME Inv PROVE TypeOK
  OBVIOUS
<1>1. Range(loop.rounds) \subseteq RoundTypes
  <2>1. loop.rounds \in [1..Len(loop.rounds) -> RoundTypes]
    BY Unmoved, LenProperties DEF Loops
  <2> QED
    BY <2>1 DEF Range
<1>2. Range(cache) \subseteq Texts
  <2>1. cache \in [1..Len(cache) -> TextsOf(file)]
    BY LenProperties DEF Inv, Types, CacheType
  <2> QED
    BY <2>1 DEF Range, TextsOf
<1>3. /\ loop.retries \in 0..(Budget + Allowance) /\ loop.noClear \in 0..NoClear
      /\ loop.verdict \in Verdicts /\ loop.cycles \subseteq Verdicts
      /\ {loop.built, loop.portfolio, loop.rung, loop.injected, loop.model} \subseteq BOOLEAN
      /\ Len(loop.rounds) <= Threshold
  BY Unmoved DEF Loops
<1>4. /\ config \in Configs /\ sides \in [File -> [Side -> config.verdicts]]
      /\ pc \in Places /\ file \in File
      /\ Len(cache) <= 3 /\ left \in [of : 0..Files, both : BOOLEAN]
      /\ result \in {"none", "clean", "escalated"}
  BY DEF Inv, Types, SetupType, PlaceType, CacheType, LeftType, ResultType
<1>5. /\ tree \in [File -> {"raw", "written", "staged"}]
      /\ buffer \in [File -> [text : Texts, via : Via]] /\ landed \in [File -> Landed]
  BY DEF Inv, Types, FileTypes
<1> QED
  BY <1>1, <1>2, <1>3, <1>4, <1>5 DEF TypeOK, Places, Landed, RoundTypes

THEOREM StepTypes == Spec => []TypeOK
<1> QED
  BY InvTypes, Invariant, PTL

\* Whatever stages a file stages a text of that file which the gate passes as it
\* stands; a seed, an injection, F1 and tier 2 may stage one it passes mended; and
\* only the wholesale floor and the churn fallback stage anything else, the latter a
\* text the gate passes for the file F1 looked at before.
THEOREM OnlyPassedIsStaged == Spec => []StagedPassed
<1>1. Inv => StagedPassed
  BY DEF Inv
<1> QED
  BY <1>1, Invariant, PTL

\* A file whose repairs are used up and that has exactly one good side is not given
\* up: F1 has taken that side.
THEOREM GoodSideIsTaken == Spec => []OneGoodSideNotLost
<1>1. Inv => OneGoodSideNotLost
  BY InvTypes DEF Inv, PastF1, Good, OneGoodSideNotLost
<1> QED
  BY <1>1, Invariant, PTL

-----------------------------------------------------------------------------
(* What run() relies on. *)

LEMMA InitContract == Init => Contract!Init
<1> SUFFICES ASSUME Init PROVE Contract!Init
  OBVIOUS
<1>1. config \in Config
  BY StepAssumption DEF Init
<1>2. config.blocked \in BOOLEAN
  BY <1>1 DEF Config
<1> QED
  BY <1>2 DEF Init, Contract!Init

\* Most steps are none of the contract's.
LEMMA Hidden ==
  ASSUME UNCHANGED <<setup, tree, result>>
  PROVE  [Contract!Next]_(Contract!cvars)
  BY DEF Contract!cvars, setup

LEMMA StageContract ==
  ASSUME Inv, pc # "returned", NEW t, NEW by, StageOnly(t, by), UNCHANGED <<setup, result>>
  PROVE  Contract!Next
<1>1. result = "none" /\ file \in File
  BY DEF Inv, Marked, Types, PlaceType
<1>2. tree' = [tree EXCEPT ![file] = "staged"]
  BY DEF StageOnly
<1>3. Contract!Stage(file)
  BY <1>1, <1>2 DEF Contract!Stage, setup
<1> QED
  BY <1>1, <1>3 DEF Contract!Next

LEMMA StageAsContract ==
  ASSUME Inv, pc # "returned", NEW t, NEW by, StageAs(t, by)
  PROVE  Contract!Next
<1>1. UNCHANGED <<setup, result>>
  BY DEF StageAs, GoOn
<1> QED
  BY <1>1, StageContract DEF StageAs

LEMMA FirstContract ==
  ASSUME Inv, FirstPhase
  PROVE  [Contract!Next]_(Contract!cvars)
<1>1. /\ pc = "first" /\ result = "none" /\ file \in File
      /\ tree[file] = "raw"
  <2>1. pc = "first"
    BY DEF FirstPhase, Seed, FirstText, FirstFails
  <2>2. file \in File /\ file \in Nat
    BY DEF Inv, Types, PlaceType, File
  <2> QED
    BY <2>1, <2>2 DEF Inv, Marked
<1>2. CASE Seed
  BY <1>1, <1>2, StageContract DEF Seed, NextFirst, GoOn
<1>3. CASE FirstText
  <2>1. tree' = [tree EXCEPT ![file] = "written"] /\ UNCHANGED <<setup, result>>
    BY <1>3 DEF FirstText, NextFirst, GoOn
  <2>2. Contract!Write(file)
    BY <1>1, <2>1 DEF Contract!Write, setup
  <2> QED
    BY <1>1, <2>2 DEF Contract!Next
<1>4. CASE FirstFails
  <2>1. PICK left_ \in {"raw", "written"} : tree' = [tree EXCEPT ![file] = left_]
    BY <1>4 DEF FirstFails
  <2>2. result' = "escalated" /\ config' = config
    BY <1>4 DEF FirstFails, Return, setup
  <2>3. tree \in [File -> {"raw", "written", "staged"}]
    BY DEF Inv, Types, FileTypes
  <2>4. CASE left_ = "raw"
    <3>1. tree' = tree
      BY <1>1, <2>1, <2>3, <2>4
    <3>2. Contract!ReturnEscalated
      BY <1>1, <2>2, <3>1 DEF Contract!ReturnEscalated
    <3> QED
      BY <3>2 DEF Contract!Next
  <2>5. CASE left_ = "written"
    <3>1. file \in {g \in File : tree[g] = "raw"}
      BY <1>1
    <3>2. Contract!ReturnEscalated
      BY <1>1, <2>1, <2>2, <2>5, <3>1 DEF Contract!ReturnEscalated
    <3> QED
      BY <3>2 DEF Contract!Next
  <2> QED
    BY <2>4, <2>5
<1> QED
  BY <1>2, <1>3, <1>4 DEF FirstPhase

LEMMA ReturnContract ==
  ASSUME Inv, Finish \/ Escalate \/ Collapse
  PROVE  Contract!Next
<1>1. result = "none" /\ UNCHANGED <<config, tree>>
  BY DEF Finish, Escalate, Collapse, Inv, Marked, setup
<1>2. CASE result' = "escalated"
  BY <1>1, <1>2 DEF Contract!ReturnEscalated, Contract!Next
<1>3. CASE result' # "escalated"
  <2>1. /\ result' = "clean"
        /\ \/ ~config.blocked /\ \A f \in File : tree[f] = "staged"
           \/ ShipGate /\ \A f \in File : tree[f] # "raw"
    BY <1>3 DEF Finish, Escalate, Collapse, Return, Outcome, Inv, Marked
  <2>2. Contract!ReturnClean
    BY <1>1, <2>1 DEF Contract!ReturnClean
  <2> QED
    BY <2>2 DEF Contract!Next
<1> QED
  BY <1>2, <1>3

LEMMA GateContract ==
  ASSUME Gate \/ Failed
  PROVE  UNCHANGED <<setup, tree, result>>
<1>1. Keep
  BY DEF Gate, Failed, Verify, NoPortfolio, BuildTest, NoBuildTest, TakesSide, Restore, Rung,
     CrossUnit, GiveUp, Inject, RepairByRule, AskAgain, SideFallback, NoRepair, Repaired, Move
<1> QED
  BY <1>1 DEF Keep

LEMMA ResortContract ==
  ASSUME Inv, LastResorts
  PROVE  [Contract!Next]_(Contract!cvars)
<1>1. CASE FinalRepair \/ Floor \/ NoF1 \/ NoRescue \/ NoTier2
  <2>1. Keep
    BY <1>1 DEF FinalRepair, Floor, NoF1, NoRescue, NoTier2, Move
  <2> QED
    BY <2>1, Hidden DEF Keep
<1>2. CASE F1
  <2>1. pc = "endgame" /\ ((\E t : StageAs(t, "f1")) \/ UNCHANGED <<setup, tree, result>>)
    BY <1>2 DEF F1
  <2> QED
    BY <2>1, StageAsContract, Hidden
<1>3. CASE Rescue
  BY <1>3, StageAsContract DEF Rescue, Stage
<1>4. CASE Tier2
  <2>1. pc = "tier 2" /\ ((\E t : Stage(t, "tier 2")) \/ Move("lost"))
    BY <1>4 DEF Tier2
  <2>2. CASE \E t : Stage(t, "tier 2")
    BY <2>1, <2>2, StageAsContract DEF Stage
  <2>3. CASE Move("lost")
    BY <2>3, Hidden DEF Move, Keep
  <2> QED
    BY <2>1, <2>2, <2>3
<1>5. CASE Churn
  BY <1>5, StageAsContract DEF Churn, Stage
<1>6. CASE Escalate
  BY <1>6, ReturnContract
<1> QED
  BY <1>1, <1>2, <1>3, <1>4, <1>5, <1>6 DEF LastResorts

LEMMA StepIsContract ==
  Inv /\ [Next]_vars => [Contract!Next]_(Contract!cvars)
<1> SUFFICES ASSUME Inv, [Next]_vars PROVE [Contract!Next]_(Contract!cvars)
  OBVIOUS
<1>1. CASE FirstPhase
  BY <1>1, FirstContract
<1>2. CASE Gate \/ Failed
  BY <1>2, GateContract, Hidden
<1>3. CASE LastResorts
  BY <1>3, ResortContract
<1>4. CASE Land
  BY <1>4, StageAsContract DEF Land, Stage
<1>5. CASE Collapse \/ Finish
  BY <1>5, ReturnContract
<1>6. CASE Done \/ UNCHANGED vars
  BY <1>6, Hidden DEF Done, vars, setup
<1> QED
  BY <1>1, <1>2, <1>3, <1>4, <1>5, <1>6 DEF Next

\* A step writes and stages files and returns as orchestrator.run takes it to: in
\* particular it does not return clean with a file that still has its markers.
THEOREM StepKeepsContract == Spec => KeepsContract
<1> QED
  BY InitContract, StepIsContract, Invariant, PTL DEF Spec, KeepsContract, Contract!Contract
=============================================================================
