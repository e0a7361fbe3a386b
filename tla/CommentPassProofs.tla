------------------------- MODULE CommentPassProofs -------------------------
(***************************************************************************)
(* Proofs about phase 3, for any notes, ledgers, budgets and number of     *)
(* files.  One invariant carries the properties: every text at hand has    *)
(* code that was accepted and that no plan changed; there are no rulings   *)
(* until the jury has sat; what is about to be staged, or is staged, heeds *)
(* a review; and the calls owed are the latch's count, which stops at two. What *)
(* the jury accepts, and what it needs to reopen code, are facts about the *)
(* router alone.                                                           *)
(***************************************************************************)
EXTENDS CommentPass, TLAPS

Sound(t, n) == ~t.spoilt /\ t.code <= n
Safe == Sound(text, accepted) /\ Sound(outcome.text, accepted) /\ Sound(staged, accepted)

\* The jury has not sat yet.
Before == (pc = "pass" /\ why # "reloop") \/ (pc = "reopen" /\ why # "jury")
          \/ pc \in {"settle", "judge"}
Early == Before => rulings = Unruled

Reviewed == config.enforce /\ config.blocks /\ Ruled("review") # {} /\ ~lost
Heeded == /\ pc = "verify" /\ Reviewed => text = Frozen
          /\ pc = "staged" /\ Reviewed => staged = Frozen

\* A pass for the jury is one it may still have.
Counted == pc = "pass" /\ why = "reloop" => left.reloops > 0

\* A pass that asks starts with one failed call at most, so another pass makes up
\* for all of them.
Latched == owed = latch.fails /\ latch.fails <= 2 /\ (latch.fails = 2 => latch.off)

Inv == TypeOK /\ Safe /\ Early /\ Heeded /\ Counted /\ Latched

-----------------------------------------------------------------------------
(* The router. *)

\* Nothing is accepted that one of the jurors disputes, or has not looked at.
THEOREM DisputedIsNotAccepted ==
  ASSUME NEW k \in Claim, NEW c \in Vote, NEW p \in Vote, NEW ev \in Evidence,
         NEW r \in BOOLEAN, Route(k, c, p, ev, r) = "accept"
  PROVE  {c, p} \subseteq {"SUPPORTED", "NON_CHECKABLE"}
<1>1. c # "none" /\ p # "none"
  BY DEF Route, Vote
<1>2. Matrix(k, Effective(c, p)) = "accept"
  BY <1>1 DEF Route
<1>3. Effective(c, p) \in {"SUPPORTED", "NON_CHECKABLE"}
  BY <1>2 DEF Matrix
<1>4. Effective(c, p) = IF Strictness[c] >= Strictness[p] THEN c ELSE p
  BY <1>1 DEF Effective
<1>5. \A v \in Vote : Strictness[v] > 2 <=> v \in {"CONTRADICTED", "UNGROUNDED", "UNVERIFIABLE"}
  BY DEF Strictness, Vote, Verdict
<1>6. \A v \in Vote : Strictness[v] \in 0..5
  BY DEF Strictness, Vote, Verdict
<1>7. Strictness[c] <= 2 /\ Strictness[p] <= 2
  BY <1>3, <1>4, <1>5, <1>6
<1> QED
  BY <1>1, <1>5, <1>6, <1>7 DEF Vote, Verdict

\* Code is resolved again for the jury only where that is switched on, for a
\* contract some version of the comment stated, that the contradiction juror found
\* broken by code it cites and the other juror did not call unverifiable.
THEOREM ReopenedForContracts ==
  ASSUME NEW k \in Claim, NEW c \in Vote, NEW p \in Vote, NEW ev \in Evidence,
         NEW r \in BOOLEAN, Route(k, c, p, ev, r) = "reopen"
  PROVE  /\ r /\ k.origin = "inherited" /\ k.kind = "contract"
         /\ Quorum(c, p, ev) /\ p # "none"
<1>1. Matrix(k, Effective(c, p)) = "reopen" /\ Quorum(c, p, ev) /\ r /\ p # "none"
  BY DEF Route
<1>2. k = [origin |-> "inherited", kind |-> "contract"]
  BY <1>1 DEF Matrix
<1> QED
  BY <1>1, <1>2

LEMMA RouteTypes ==
  ASSUME NEW k \in Claim, NEW c \in Vote, NEW p \in Vote, NEW ev \in Evidence, NEW r \in BOOLEAN
  PROVE  Route(k, c, p, ev, r) \in Routes
<1>1. Matrix(k, Effective(c, p)) \in Routes
  BY DEF Matrix, Routes
<1> QED
  BY <1>1 DEF Route, Routes

LEMMA RulingTypes == \A r \in BOOLEAN : Rulings[r] \subseteq Routes
  BY RouteTypes DEF Rulings

-----------------------------------------------------------------------------
(* Texts, and what a pass returns. *)

LEMMA FrozenFits == Frozen \in Texts /\ \A n \in Nat : Sound(Frozen, n)
  BY DEF Frozen, Text, Texts, Sound

LEMMA UnruledFits == /\ Unruled \in [Notes -> Routes \cup {"none"}]
                     /\ rulings = Unruled => Ruled("review") = {}
  BY DEF Unruled, Ruled

Fits(o) == o \in Outcomes /\ Sound(o.text, accepted)

LEMMA OutcomesFit ==
  ASSUME Inv
  PROVE  /\ Fits(None) /\ Fits(Skipped)
         /\ \A q \in SUBSET Notes : Fits(Failed(q))
<1>1. None \in Outcomes /\ None.text = Frozen
  BY FrozenFits DEF None, Outcomes
<1>2. Sound(Frozen, accepted)
  BY FrozenFits DEF Inv, TypeOK
<1>3. Skipped \in Outcomes /\ Skipped.text = Frozen
  BY <1>1 DEF Skipped, Outcomes
<1>4. \A q \in SUBSET Notes : Failed(q) \in Outcomes /\ Failed(q).text = Frozen
  BY <1>1 DEF Failed, Outcomes
<1> QED
  BY <1>1, <1>2, <1>3, <1>4 DEF Fits

LEMMA PlansFit ==
  ASSUME Inv, NEW p \in Plans(Frontier(ledger))
  PROVE  /\ DOMAIN p.ops \subseteq Notes /\ p.wrong \subseteq Notes /\ p.tokens \in BOOLEAN
         /\ Requests(p) \subseteq Notes
         /\ Applies(p) => Fits(Reconciled(p))
<1>1. \E some \in SUBSET Frontier(ledger) : \E o \in [some -> Operation], w \in SUBSET some,
                                                s \in BOOLEAN, t \in BOOLEAN :
        p = [ops |-> o, wrong |-> w, stray |-> s, tokens |-> t]
  BY DEF Plans
<1>2. Frontier(ledger) \subseteq Notes
  BY DEF Frontier
<1>3. DOMAIN p.ops \subseteq Notes /\ p.wrong \subseteq Notes /\ p.tokens \in BOOLEAN
  BY <1>1, <1>2
<1>4. Requests(p) \subseteq Notes
  BY <1>2, <1>3 DEF Requests, Rejected
<1>5. ASSUME Applies(p) PROVE Fits(Reconciled(p))
  <2>1. Edited(p) \subseteq Notes /\ Rewritten(p) \subseteq Notes
    BY <1>3 DEF Edited, Rewritten
  <2>2. text \in Texts /\ Sound(text, accepted)
    BY DEF Inv, TypeOK, Safe
  <2>3. ~(p.tokens /\ Edited(p) # {})
    BY <1>5 DEF Applies
  <2>4. Applied(p) = [code |-> text.code, edited |-> text.edited \cup Edited(p),
                      spoilt |-> text.spoilt \/ (p.tokens /\ Edited(p) # {}), mended |-> FALSE]
    BY DEF Applied, Text
  <2>5. Applied(p) \in Texts /\ Sound(Applied(p), accepted)
    BY <2>1, <2>2, <2>3, <2>4 DEF Texts, Sound
  <2>6. None \in Outcomes
    BY OutcomesFit DEF Fits
  <2>7. /\ Reconciled(p) \in Outcomes
        /\ Reconciled(p).text = Applied(p)
    BY <2>1, <2>5, <2>6 DEF Reconciled, Outcomes
  <2> QED
    BY <2>5, <2>7 DEF Fits
<1> QED
  BY <1>3, <1>4, <1>5

\* A pass that returns keeps the invariant, but for the latch.
LEMMA PassReturnsKeeps ==
  ASSUME CommentAssumption, Inv, pc = "pass", NEW o, Fits(o), PassReturns(o),
         latch' \in Latch, Latched'
  PROVE  Inv'
<1>1. TypeOK'
  <2>1. text' \in Texts
    BY FrozenFits DEF Inv, TypeOK, PassReturns, ForTheJury, ForTheFile, Return, Fits, Outcomes
  <2>2. pc' \in {"pass", "review", "verify", "reopen", "settle"}
    BY DEF PassReturns, ForTheJury, ForTheFile, Return
  <2>3. left' \in [reopens : 0..Reopens, reloops : 0..Reloops]
    <3>1. CASE why = "reloop"
      BY <3>1 DEF Inv, TypeOK, Counted, PassReturns, ForTheJury
    <3>2. CASE why # "reloop"
      BY <3>2, CommentAssumption DEF CommentAssumption, Inv, TypeOK, PassReturns, ForTheFile
    <3> QED
      BY <3>1, <3>2
  <2>4. outcome' \in Outcomes /\ todo' \subseteq Notes
    BY DEF Inv, TypeOK, PassReturns, ForTheJury, ForTheFile, Fits, Outcomes
  <2>5. try' \in [made : 0..Retries, refused : SUBSET SUBSET Notes]
    BY CommentAssumption DEF CommentAssumption, PassReturns, NewPass
  <2>6. owed' \in Nat
    BY DEF Latched, Latch
  <2> QED
    BY <2>1, <2>2, <2>3, <2>4, <2>5, <2>6 DEF Inv, TypeOK, PassReturns
<1>2. Safe'
  <2>1. Sound(Frozen, accepted)
    BY FrozenFits DEF Inv, TypeOK
  <2>2. Sound(text', accepted) /\ Sound(outcome'.text, accepted)
    BY <2>1 DEF Inv, Safe, PassReturns, ForTheJury, ForTheFile, Return, Fits
  <2> QED
    BY <2>2 DEF Inv, Safe, PassReturns, Sound
<1>3. Early'
  <2>1. CASE why = "reloop"
    BY <2>1 DEF Early, Before, PassReturns, ForTheJury
  <2>2. CASE why # "reloop"
    BY <2>2 DEF Inv, Early, Before, Unruled, PassReturns
  <2> QED
    BY <2>1, <2>2
<1>4. Heeded'
  <2>1. pc' # "staged"
    BY DEF PassReturns, ForTheJury, ForTheFile, Return
  <2>2. ASSUME pc' = "verify" PROVE text' = Frozen
    BY <2>2 DEF PassReturns, ForTheJury, ForTheFile, Return
  <2> QED
    BY <2>1, <2>2 DEF Heeded
<1>5. Counted'
  <2>1. CASE why = "reloop"
    BY <2>1 DEF Inv, TypeOK, Counted, PassReturns, ForTheJury
  <2>2. CASE why # "reloop"
    BY <2>2 DEF Counted, PassReturns
  <2> QED
    BY <2>1, <2>2
<1> QED
  BY <1>1, <1>2, <1>3, <1>4, <1>5 DEF Inv

LEMMA NotedFits ==
  ASSUME Inv, ~latch.off, NEW r \in BOOLEAN, Note(r)
  PROVE  latch' \in Latch /\ Latched'
<1>1. /\ latch.fails \in Nat /\ latch.fails <= 1 /\ latch.off \in BOOLEAN
      /\ owed = latch.fails
  BY DEF Inv, TypeOK, Latched, Latch
<1>2. CASE r
  <2> DEFINE fails == latch.fails + 1
             off == latch.off \/ fails >= 2
  <2>1. latch' = [fails |-> fails, off |-> off] /\ owed' = fails
    BY <1>1, <1>2 DEF Note, Noted
  <2>2. off \in BOOLEAN
    BY Zenon
  <2>3. fails \in Nat /\ fails <= 2
    BY <1>1
  <2>4. fails = 2 => off
    BY <2>3
  <2> HIDE DEF fails, off
  <2> QED
    BY <2>1, <2>2, <2>3, <2>4 DEF Latched, Latch
<1>3. CASE ~r
  <2>1. latch' = [fails |-> 0, off |-> latch.off \/ 0 >= 2]
    BY <1>3 DEF Note, Noted
  <2>2. owed' = 0
    BY <1>1, <1>3 DEF Note
  <2> QED
    BY <1>1, <2>1, <2>2 DEF Latched, Latch
<1> QED
  BY <1>2, <1>3

LEMMA AttemptFailsKeeps ==
  ASSUME CommentAssumption, Inv, Looks, NEW q \in SUBSET Notes, NEW again \in BOOLEAN,
         NEW refused \in SUBSET SUBSET Notes, AttemptFails(q, again, refused)
  PROVE  Inv'
<1>1. CASE again /\ try.made < Retries
  <2>1. try' \in [made : 0..Retries, refused : SUBSET SUBSET Notes]
    BY <1>1, CommentAssumption DEF CommentAssumption, AttemptFails, Inv, TypeOK
  <2>2. TypeOK'
    BY <1>1, <2>1 DEF AttemptFails, Inv, TypeOK
  <2>3. Safe' /\ Early' /\ Heeded' /\ Counted' /\ Latched'
    BY <1>1 DEF AttemptFails, Inv, Safe, Sound, Early, Before, Unruled, Heeded, Reviewed, Ruled, Counted, Latched
  <2> QED
    BY <2>2, <2>3 DEF Inv
<1>2. CASE ~(again /\ try.made < Retries)
  <2>1. Note(FALSE) /\ PassReturns(Failed(q))
    BY <1>2 DEF AttemptFails
  <2>2. latch' \in Latch /\ Latched'
    BY <2>1, NotedFits DEF Looks
  <2> QED
    BY <2>1, <2>2, OutcomesFit, PassReturnsKeeps, CommentAssumption DEF Looks
<1> QED
  BY <1>1, <1>2

-----------------------------------------------------------------------------
(* The invariant. *)

LEMMA InitInv == Init => Inv
<1> SUFFICES ASSUME Init PROVE Inv
  OBVIOUS
<1> USE CommentAssumption DEF CommentAssumption
<1>1. None \in Outcomes /\ None.text = Frozen
  BY FrozenFits DEF None, Outcomes
<1>2. TypeOK
  <2>1. try \in [made : 0..Retries, refused : SUBSET SUBSET Notes]
    BY DEF Init, NewPass
  <2>2. left \in [reopens : 0..Reopens, reloops : 0..Reloops]
    BY DEF Init
  <2>3. file \in 1..Files /\ latch \in Latch /\ owed \in Nat /\ accepted \in Nat
    BY DEF Init, Latch
  <2>4. rulings \in [Notes -> Routes \cup {"none"}]
    BY UnruledFits DEF Init
  <2> QED
    BY <1>1, <2>1, <2>2, <2>3, <2>4, FrozenFits DEF Init, TypeOK
<1>3. Safe
  BY <1>1, FrozenFits DEF Init, Safe
<1>4. Early /\ Heeded /\ Counted /\ Latched
  BY DEF Init, Early, Before, Heeded, Counted, Latched
<1> QED
  BY <1>2, <1>3, <1>4 DEF Inv

LEMMA PassInv ==
  ASSUME Inv, Pass PROVE Inv'
<1> USE CommentAssumption
<1>1. CASE PassSkipped
  <2>1. latch' \in Latch /\ Latched'
    BY <1>1 DEF PassSkipped, Inv, TypeOK, Latched
  <2> QED
    BY <1>1, <2>1, OutcomesFit, PassReturnsKeeps DEF PassSkipped
<1>2. CASE NothingToDo
  BY <1>2, OutcomesFit, NotedFits, PassReturnsKeeps DEF NothingToDo, Looks
<1>3. CASE CallRaises
  BY <1>3, OutcomesFit, NotedFits, PassReturnsKeeps DEF CallRaises, Looks
<1>4. CASE Unparseable
  <2>1. try.refused \in SUBSET SUBSET Notes
    BY DEF Inv, TypeOK
  <2> QED
    BY <1>4, <2>1, AttemptFailsKeeps DEF Unparseable
<1>5. CASE Planned
  <2>1. PICK p \in Plans(Frontier(ledger)) :
          \/ ~Applies(p) /\ AttemptFails({}, TRUE, try.refused)
          \/ /\ Applies(p) /\ Refused(p)
             /\ \E again \in {TRUE, Requests(p) \notin try.refused} :
                  AttemptFails(Requests(p), again, try.refused \cup {Requests(p)})
          \/ /\ Applies(p) /\ ~Refused(p)
             /\ Note(FALSE) /\ PassReturns(Reconciled(p))
    BY <1>5 DEF Planned
  <2>2. try.refused \in SUBSET SUBSET Notes /\ Looks
    BY <1>5 DEF Planned, Inv, TypeOK
  <2>3. Requests(p) \subseteq Notes /\ (Applies(p) => Fits(Reconciled(p)))
    BY PlansFit
  <2>4. CASE ~Applies(p) /\ AttemptFails({}, TRUE, try.refused)
    BY <2>2, <2>4, AttemptFailsKeeps
  <2>5. CASE \E again \in {TRUE, Requests(p) \notin try.refused} :
               AttemptFails(Requests(p), again, try.refused \cup {Requests(p)})
    <3>1. PICK again \in BOOLEAN :
            AttemptFails(Requests(p), again, try.refused \cup {Requests(p)})
      BY <2>5
    <3>2. try.refused \cup {Requests(p)} \in SUBSET SUBSET Notes
      BY <2>2, <2>3
    <3> QED
      BY <2>2, <2>3, <3>1, <3>2, AttemptFailsKeeps
  <2>6. CASE Applies(p) /\ Note(FALSE) /\ PassReturns(Reconciled(p))
    <3>1. latch' \in Latch /\ Latched'
      BY <2>2, <2>6, NotedFits DEF Looks
    <3> QED
      BY <2>2, <2>3, <2>6, <3>1, PassReturnsKeeps DEF Looks
  <2> QED
    BY <2>1, <2>4, <2>5, <2>6
<1> QED
  BY <1>1, <1>2, <1>3, <1>4, <1>5 DEF Pass

LEMMA ReopenInv ==
  ASSUME Inv, Reopen PROVE Inv'
<1>1. CASE ReResolved
  <2>1. accepted' = accepted + 1 /\ accepted \in Nat /\ pc = "reopen"
    BY <1>1 DEF ReResolved, Inv, TypeOK
  <2>2. TypeOK'
    <3>1. Text(accepted', {}, FALSE) \in Texts
      BY <2>1 DEF Text, Texts
    <3>2. todo' \subseteq Notes /\ text' \in Texts /\ ledger' \in Ledgers
      BY <1>1, <3>1 DEF ReResolved, Inv, TypeOK
    <3>3. accepted' \in Nat
      BY <2>1
    <3>4. CASE todo' # {}
      <4>1. pc' = pc /\ why' = why
        BY <1>1, <3>4 DEF ReResolved
      <4> QED
        BY <1>1, <2>1, <3>2, <3>3, <4>1 DEF ReResolved, Inv, TypeOK
    <3>5. CASE todo' = {} /\ why = "jury"
      <4>1. pc' = "counter" /\ why' = why
        BY <1>1, <3>5 DEF ReResolved
      <4> QED
        BY <1>1, <3>2, <3>3, <4>1 DEF ReResolved, Inv, TypeOK
    <3>6. CASE todo' = {} /\ why # "jury"
      <4>1. pc' = "pass" /\ why' = "reopened"
        BY <1>1, <3>6 DEF ReResolved
      <4> QED
        BY <1>1, <3>2, <3>3, <4>1 DEF ReResolved, Inv, TypeOK
    <3> QED
      BY <3>4, <3>5, <3>6
  <2>3. Safe'
    <3>1. Sound(Text(accepted', {}, FALSE), accepted')
      BY <2>1 DEF Text, Sound
    <3>2. \A t \in Texts : Sound(t, accepted) => Sound(t, accepted')
      BY <2>1 DEF Sound, Texts
    <3>3. outcome.text \in Texts /\ text \in Texts /\ staged \in Texts
      BY DEF Inv, TypeOK, Outcomes
    <3>4. text' \in {text, Text(accepted', {}, FALSE)} /\ outcome' = outcome /\ staged' = staged
      BY <1>1 DEF ReResolved
    <3> QED
      BY <3>1, <3>2, <3>3, <3>4 DEF Inv, Safe
  <2>4. Early'
    BY <1>1 DEF ReResolved, Inv, Early, Before, Unruled
  <2>5. Heeded' /\ Counted' /\ Latched'
    BY <1>1 DEF ReResolved, Inv, Heeded, Counted, Latched
  <2> QED
    BY <2>2, <2>3, <2>4, <2>5 DEF Inv
<1>2. CASE ReResolveFails
  BY <1>2 DEF ReResolveFails, Inv, TypeOK, Safe, Sound, Early, Before, Unruled, Heeded, Counted, Latched
<1>3. CASE ReResolveRaises
  BY <1>3 DEF ReResolveRaises, Inv, TypeOK, Safe, Sound, Early, Before, Heeded, Counted, Latched
<1> QED
  BY <1>1, <1>2, <1>3 DEF Reopen

LEMMA JuryInv ==
  ASSUME Inv, Jury PROVE Inv'
<1>1. outcome.text \in Texts /\ Sound(Frozen, accepted) /\ Frozen \in Texts
  BY FrozenFits DEF Inv, TypeOK, Outcomes
<1>2. CASE Settle
  <2>1. text' \in {outcome.text, Frozen} /\ pc' \in {"judge", "verify"} /\ pc = "settle"
    BY <1>2 DEF Settle, Return
  <2>2. TypeOK' /\ Safe' /\ Early' /\ Counted' /\ Latched'
    BY <1>1, <1>2, <2>1
    DEF Settle, Inv, TypeOK, Safe, Sound, Early, Before, Unruled, Counted, Latched
  <2>3. Ruled("review")' = {}
    BY <1>2, <2>1 DEF Settle, Inv, Early, Before, Unruled, Ruled
  <2> QED
    BY <2>1, <2>2, <2>3 DEF Inv, Heeded, Reviewed
<1>3. CASE Judge
  <2>1. PICK r \in [outcome.rewritten -> Rulings[config.reopen] \cup {"none"}] :
          rulings' = [n \in Notes |-> IF n \in outcome.rewritten THEN r[n] ELSE "none"]
    BY <1>3 DEF Judge
  <2>2. config.reopen \in BOOLEAN
    BY CommentAssumption DEF CommentAssumption, Inv, TypeOK, Config
  <2>3. Rulings[config.reopen] \subseteq Routes
    BY <2>2, RulingTypes
  <2>4. rulings' \in [Notes -> Routes \cup {"none"}]
    BY <2>1, <2>3
  <2>5. TypeOK' /\ Safe' /\ Early' /\ Counted' /\ Latched'
    BY <1>3, <2>4 DEF Judge, Inv, TypeOK, Safe, Sound, Early, Before, Counted, Latched
  <2>6. pc' = "verify" => Ruled("review")' = {}
    BY <1>3 DEF Judge, Unruled, Ruled
  <2> QED
    BY <1>3, <2>5, <2>6 DEF Judge, Inv, Heeded, Reviewed
<1>4. CASE Enforce
  <2>1. Ruled("reopen") \subseteq Notes
    BY DEF Ruled
  <2> QED
    BY <1>4, <2>1 DEF Enforce, Inv, TypeOK, Safe, Sound, Early, Before, Heeded, Counted, Latched
<1>5. CASE Counter
  BY <1>5 DEF Counter, Inv, TypeOK, Safe, Sound, Early, Before, Heeded, Counted, Latched
<1>6. CASE Review
  <2>1. text' \in {text, Frozen} /\ pc' = "verify" /\ (Blocked => text' = Frozen)
    BY <1>6 DEF Review, Return
  <2>2. TypeOK' /\ Safe' /\ Early' /\ Counted' /\ Latched'
    BY <1>1, <1>6, <2>1 DEF Review, Inv, TypeOK, Safe, Sound, Early, Before, Counted, Latched
  <2>3. Reviewed' => Blocked
    BY <1>6 DEF Review, Reviewed, Blocked, Ruled
  <2> QED
    BY <2>1, <2>2, <2>3 DEF Inv, Heeded
<1>7. CASE JuryRaises
  <2>1. text' = outcome.text /\ pc' = "verify" /\ lost'
    BY <1>7 DEF JuryRaises, Return
  <2> QED
    BY <1>1, <1>7, <2>1
    DEF JuryRaises, Inv, TypeOK, Safe, Sound, Early, Before, Heeded, Reviewed, Counted, Latched
<1> QED
  BY <1>2, <1>3, <1>4, <1>5, <1>6, <1>7 DEF Jury

LEMMA NextInv == Inv /\ [Next]_vars => Inv'
<1> SUFFICES ASSUME Inv, [Next]_vars PROVE Inv'
  OBVIOUS
<1>1. CASE NextFile
  <2>1. None \in Outcomes /\ None.text = Frozen /\ Frozen \in Texts
    BY FrozenFits DEF None, Outcomes
  <2>2. TypeOK'
    <3>1. try' \in [made : 0..Retries, refused : SUBSET SUBSET Notes]
      BY <1>1, CommentAssumption DEF NextFile, NewPass, CommentAssumption
    <3>2. left' \in [reopens : 0..Reopens, reloops : 0..Reloops]
      BY <1>1, CommentAssumption DEF NextFile, CommentAssumption
    <3>3. file' \in 1..Files
      BY <1>1, CommentAssumption DEF NextFile, Inv, TypeOK, CommentAssumption
    <3> QED
      BY <1>1, <2>1, <3>1, <3>2, <3>3, UnruledFits DEF NextFile, Inv, TypeOK
  <2>3. Safe'
    BY <1>1, <2>1, FrozenFits DEF NextFile, Safe
  <2>4. Early' /\ Heeded' /\ Counted' /\ Latched'
    BY <1>1 DEF NextFile, Inv, Early, Before, Unruled, Heeded, Counted, Latched
  <2> QED
    BY <2>2, <2>3, <2>4 DEF Inv
<1>2. CASE Pass
  BY <1>2, PassInv
<1>3. CASE Reopen
  BY <1>3, ReopenInv
<1>4. CASE Jury
  BY <1>4, JuryInv
<1>5. CASE Verify
  <2> DEFINE mended == [text EXCEPT !.mended = TRUE]
  <2>1. /\ staged' \in {Frozen, text, mended} /\ (text = Frozen => staged' = Frozen)
        /\ pc' = "staged" /\ pc = "verify"
    BY <1>5 DEF Verify
  <2>2. Frozen \in Texts /\ Sound(Frozen, accepted)
    BY FrozenFits DEF Inv, TypeOK
  <2>3. mended \in Texts /\ Sound(mended, accepted)
    BY DEF Inv, TypeOK, Safe, Sound, Texts
  <2> HIDE DEF mended
  <2>4. TypeOK' /\ Safe' /\ Early' /\ Counted' /\ Latched'
    BY <1>5, <2>1, <2>2, <2>3 DEF Verify, Inv, TypeOK, Safe, Sound, Early, Before, Counted, Latched
  <2>5. Reviewed' => Reviewed
    BY <1>5 DEF Verify, Reviewed, Ruled
  <2> QED
    BY <1>5, <2>1, <2>4, <2>5 DEF Verify, Inv, Heeded
<1>6. CASE Done \/ UNCHANGED vars
  BY <1>6
  DEF Done, vars, Inv, TypeOK, Safe, Sound, Early, Before, Unruled, Heeded, Reviewed, Ruled, Counted, Latched
<1> QED
  BY <1>1, <1>2, <1>3, <1>4, <1>5, <1>6 DEF Next

\* The invariant holds of phase 3.
THEOREM CommentInvariant == Spec => []Inv
  BY InitInv, NextInv, PTL DEF Spec

\* The variables have their types.
THEOREM CommentTypes == Spec => []TypeOK
<1>1. Inv => TypeOK
  BY DEF Inv
<1> QED
  BY <1>1, CommentInvariant, PTL

\* A file is staged with code that was accepted for it, and that no plan changed.
THEOREM CodeIsKept == Spec => []CodeKept
<1>1. Inv => CodeKept
  BY DEF Inv, Safe, Sound, CodeKept
<1> QED
  BY <1>1, CommentInvariant, PTL

\* A review that blocks keeps the comments as they were.
THEOREM ReviewsBlock == Spec => []ReviewBlocks
<1>1. Inv => ReviewBlocks
  BY DEF Inv, Heeded, Reviewed, ReviewBlocks
<1> QED
  BY <1>1, CommentInvariant, PTL

\* In any stretch of a session, failed calls outnumber the passes that end without
\* one by two at most.
THEOREM TwoCallsAtMost == Spec => []TwoDeadCalls
<1>1. Inv => TwoDeadCalls
  BY DEF Inv, Latched, TwoDeadCalls
<1> QED
  BY <1>1, CommentInvariant, PTL
=============================================================================
